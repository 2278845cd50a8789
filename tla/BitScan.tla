------------------------------- MODULE BitScan -------------------------------
(***************************************************************************)
(* What the users of TBitExtentFinder rely on: a walk over a range of the  *)
(* bits 0 .. NumBits-1 that meets every bit of the range in exactly one    *)
(* run of equal bits.                                                      *)
(***************************************************************************)
EXTENDS Integers

CONSTANT NumBits

VARIABLES bits,   \* the bits that are '1'
          scan,   \* the walk: the next bit to look at, the end of the range
          extent  \* the run of bits the walk has met last

vars == <<bits, scan, extent>>

Positions == 0 .. NumBits - 1
Idle == [next |-> 0, last |-> 0]

Init == bits = {} /\ scan = Idle /\ extent = [start |-> 0, len |-> 0, val |-> FALSE]

(* The bits change between two walks only. *)
Change == scan = Idle /\ bits' \subseteq Positions /\ UNCHANGED <<scan, extent>>

StartScan ==
  /\ scan = Idle
  /\ \E from \in Positions, n \in 1 .. NumBits :
       /\ from + n <= NumBits
       /\ scan' = [next |-> from, last |-> from + n]
       /\ extent' = [start |-> from, len |-> 0, val |-> FALSE]
  /\ UNCHANGED bits

(* The next run: all its bits are equal, and the bit behind it is not. *)
NextExtent ==
  /\ scan.next < scan.last
  /\ \E len \in 1 .. scan.last - scan.next, val \in BOOLEAN :
       LET run == scan.next .. scan.next + len - 1
           after == scan.next + len
       IN  /\ \A p \in run : (p \in bits) = val
           /\ after < scan.last => (after \in bits) # val
           /\ extent' = [start |-> scan.next, len |-> len, val |-> val]
           /\ scan' = [scan EXCEPT !.next = after]
  /\ UNCHANGED bits

EndScan ==
  /\ scan.next = scan.last
  /\ scan' = Idle /\ extent' = [start |-> 0, len |-> 0, val |-> FALSE]
  /\ UNCHANGED bits

Next == Change \/ StartScan \/ NextExtent \/ EndScan

Spec == Init /\ [][Next]_vars
=============================================================================
