---------------------------- MODULE MCBitVector ----------------------------
(* An instance of BitVector: two whole words and one bit of a third. *)
EXTENDS BitVector

Three == 0 .. 2

MCOperands == {[w \in Three |-> {0, 2}],
               [w \in Three |-> IF w = 1 THEN {} ELSE {0, 1, 2, 3}],
               [w \in Three |-> IF w = 1 THEN {0, 1, 2, 3} ELSE {1, 3}]}

MCStreams == {{0, 1, 2, 3, 4, 5, 6, 7, 8}, {1, 2, 5, 8}}
=============================================================================
