--------------------------- MODULE MCSectorMapper ---------------------------
(***************************************************************************)
(* Finite instances of SectorMapper for TLC.                               *)
(***************************************************************************)
EXTENDS SectorMapper, TLC

CONSTANTS b1, b2, b3

ThreeBlocks == {b1, b2, b3}
TwoBlocks == {b1, b2}

\* The blocks are used alike.
Interchangeable == Permutations(ThreeBlocks)

=============================================================================
