--------------------------- MODULE NaturalsLemmas ---------------------------
(***************************************************************************)
(* What the proofs of several modules need about numbers: least and        *)
(* greatest elements, induction without a predicate as a parameter, and    *)
(* division by a number that is not known.                                 *)
(***************************************************************************)
EXTENDS Integers, FiniteSets, FiniteSetTheorems, WellFoundedInduction, TLAPS

(* Every set of natural numbers has a least element, if it has any. *)
LEMMA LeastNatural ==
  ASSUME NEW T \in SUBSET Nat, T # {}
  PROVE  \E m \in T : \A n \in T : m <= n
<1> DEFINE I == {0 .. n : n \in T}
<1>1. I # {} /\ I \subseteq FiniteSubsetsOf(Nat)
  <2>1. \A n \in T : 0 .. n \in SUBSET Nat /\ IsFiniteSet(0 .. n)
    BY FS_Interval
  <2> QED BY <2>1 DEF FiniteSubsetsOf
<1>2. PICK s \in I : \A t \in I : <<t, s>> \notin StrictSubsetOrdering(Nat)
  BY <1>1, WFMin, FS_StrictSubsetOrderingWellFounded
<1>3. PICK m \in T : s = 0 .. m
  BY <1>2
<1>4. ASSUME NEW n \in T, n < m PROVE FALSE
  <2>1. 0 .. n \in I OBVIOUS
  <2>2. 0 .. n \subseteq 0 .. m /\ m \in 0 .. m /\ m \notin 0 .. n BY <1>4
  <2>3. <<0 .. n, 0 .. m>> \in StrictSubsetOrdering(Nat) BY <2>2 DEF StrictSubsetOrdering
  <2> QED BY <2>1, <2>3, <1>2, <1>3
<1>5. QED BY <1>4

(* So has, a greatest one, every set of natural numbers with an upper bound. *)
LEMMA GreatestNatural ==
  ASSUME NEW b \in Nat, NEW T \in SUBSET (0 .. b), T # {}
  PROVE  \E m \in T : \A n \in T : n <= m
<1> DEFINE R == {b - n : n \in T}
<1>1. R \in SUBSET Nat /\ R # {}
  <2>1. \A n \in T : b - n \in Nat /\ b - n \in R OBVIOUS
  <2> QED BY <2>1
<1>2. PICK r \in R : \A n \in R : r <= n
  BY <1>1, LeastNatural
<1>3. PICK m \in T : r = b - m
  BY <1>2
<1>4. \A n \in T : b - n \in R
  OBVIOUS
<1>5. \A n \in T : n <= m
  BY <1>2, <1>3, <1>4
<1> QED BY <1>5

(* Induction, for a property given as a set. *)
LEMMA SetInduction ==
  ASSUME NEW S, 0 \in S, \A n \in Nat : n \in S => n + 1 \in S
  PROVE  Nat \subseteq S
<1> SUFFICES ASSUME Nat \ S # {} PROVE FALSE
  OBVIOUS
<1>1. PICK m \in Nat \ S : \A n \in Nat \ S : m <= n
  BY LeastNatural
<1>2. m - 1 \in Nat /\ m - 1 \in S
  BY <1>1
<1> QED BY <1>1, <1>2

(* Products keep the order. *)
LEMMA ProductOrder ==
  ASSUME NEW b \in Nat \ {0}, NEW v \in Nat, NEW w \in Nat, v < w
  PROVE  v * b + b <= w * b /\ v * b \in Nat /\ w * b \in Nat
<1>1. PICK k \in Nat : w = v + 1 + k
  <2>1. w - v - 1 \in Nat /\ w = v + 1 + (w - v - 1) OBVIOUS
  <2> QED BY <2>1
<1>2. k * b \in Nat /\ v * b \in Nat
  OBVIOUS
<1>3. w * b = v * b + b + k * b
  BY <1>1
<1> QED BY <1>2, <1>3

(* Quotient and remainder *)
LEMMA Division ==
  ASSUME NEW b \in Nat \ {0}, NEW p \in Nat
  PROVE  p \div b \in Nat /\ p % b \in 0 .. b - 1 /\ p = (p \div b) * b + (p % b)
OBVIOUS

(* No other number and no other rest make the same number. *)
LEMMA DivisionUnique ==
  ASSUME NEW b \in Nat \ {0}, NEW q \in Nat, NEW r \in 0 .. b - 1
  PROVE  (q * b + r) \div b = q /\ (q * b + r) % b = r
<1> DEFINE p == q * b + r
           v == p \div b
           s == p % b
<1>1. p \in Nat
  OBVIOUS
<1>2. v \in Nat /\ s \in 0 .. b - 1 /\ p = v * b + s
  BY <1>1, Division
<1>3. ~(v < q)
  BY <1>2, ProductOrder
<1>4. ~(q < v)
  BY <1>2, ProductOrder
<1> QED BY <1>2, <1>3, <1>4
=============================================================================
