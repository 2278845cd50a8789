-------------------------- MODULE BitVectorProofs --------------------------
(***************************************************************************)
(* Theorems of BitVector, for words and vectors of any size: the           *)
(* operations on words and masks do to the bits of the vector what they    *)
(* are for, and a scan implements the walk of BitScan.                     *)
(***************************************************************************)
EXTENDS BitVector, NaturalsLemmas

-----------------------------------------------------------------------------
(* The place of a bit *)

(* A position is a word and a bit in it. *)
LEMMA PlaceOf ==
  ASSUME NEW p \in Nat
  PROVE  /\ WordNum(p) \in Nat /\ BitInWord(p) \in InWord
         /\ p = WordNum(p) * WordBits + BitInWord(p)
BY Division, SizesAssumption DEF WordNum, BitInWord, InWord

(* A word and a bit in it are a position. *)
LEMMA AtPlace ==
  ASSUME NEW w \in Nat, NEW i \in InWord
  PROVE  /\ w * WordBits + i \in Nat
         /\ WordNum(w * WordBits + i) = w /\ BitInWord(w * WordBits + i) = i
<1>1. WordBits \in Nat \ {0} /\ i \in 0 .. WordBits - 1
  BY SizesAssumption DEF InWord
<1>2. w * WordBits \in Nat
  BY <1>1
<1> QED BY <1>1, <1>2, DivisionUnique DEF WordNum, BitInWord

(* Positions are ordered by their words, then by their bits. *)
LEMMA PlaceOrder ==
  ASSUME NEW p \in Nat, NEW q \in Nat
  PROVE  p <= q <=> \/ WordNum(p) < WordNum(q)
                    \/ (WordNum(p) = WordNum(q) /\ BitInWord(p) <= BitInWord(q))
<1> DEFINE v == WordNum(p)
           w == WordNum(q)
<1>1. /\ v \in Nat /\ BitInWord(p) \in InWord /\ p = v * WordBits + BitInWord(p)
      /\ w \in Nat /\ BitInWord(q) \in InWord /\ q = w * WordBits + BitInWord(q)
  BY PlaceOf
<1>2. WordBits \in Nat \ {0}
  BY SizesAssumption
<1>3. v < w => v * WordBits + WordBits <= w * WordBits
  BY <1>1, <1>2, ProductOrder
<1>4. w < v => w * WordBits + WordBits <= v * WordBits
  BY <1>1, <1>2, ProductOrder
<1>5. v * WordBits \in Nat /\ w * WordBits \in Nat
  BY <1>1, <1>2
<1> HIDE DEF v, w
<1>6. BitInWord(p) \in 0 .. WordBits - 1 /\ BitInWord(q) \in 0 .. WordBits - 1
  BY <1>1 DEF InWord
<1>7. p <= q <=> v < w \/ (v = w /\ BitInWord(p) <= BitInWord(q))
  BY <1>1, <1>2, <1>3, <1>4, <1>5, <1>6
<1> QED BY <1>7 DEF v, w

(* The last bit of the vector: the bits behind it in the last word are padding. *)
LastBit == BitInWord(NumBits - 1)

(* Where the last bit is *)
LEMMA LastPlace ==
  /\ NumBits - 1 \in Nat /\ WordNum(NumBits - 1) = LastWord
  /\ LastWord \in Nat /\ LastBit \in InWord
  /\ NumBits = LastWord * WordBits + LastBit + 1
<1>1. NumBits - 1 \in Nat
  BY SizesAssumption
<1>2. /\ LastWord \in Nat /\ LastBit \in InWord
      /\ NumBits - 1 = LastWord * WordBits + LastBit
  BY <1>1, PlaceOf DEF LastWord, LastBit
<1>3. LastWord * WordBits \in Nat /\ LastBit \in Nat
  BY <1>2, SizesAssumption DEF InWord
<1> QED BY <1>1, <1>2, <1>3, SizesAssumption DEF LastWord

(* Every bit of the vector has its word; all the bits of the words before the *)
(* last one are in the vector, and of the last one those up to the last bit.  *)
LEMMA InVector ==
  /\ \A p \in Positions : p \in Nat /\ WordNum(p) \in Words /\ BitInWord(p) \in InWord
  /\ \A p \in Positions : WordNum(p) = LastWord => BitInWord(p) <= LastBit
  /\ \A w \in Words, i \in InWord :
       w * WordBits + i \in Positions <=> w # LastWord \/ i <= LastBit
<1>1. ASSUME NEW p \in Positions
      PROVE  /\ p \in Nat /\ WordNum(p) \in Words /\ BitInWord(p) \in InWord
             /\ WordNum(p) = LastWord => BitInWord(p) <= LastBit
  <2>1. p \in Nat /\ p <= NumBits - 1
    BY SizesAssumption DEF Positions
  <2>2. WordNum(p) < LastWord \/ (WordNum(p) = LastWord /\ BitInWord(p) <= LastBit)
    BY <2>1, LastPlace, PlaceOrder DEF LastBit
  <2>3. WordNum(p) \in Nat /\ BitInWord(p) \in InWord
    BY <2>1, PlaceOf
  <2> QED BY <2>1, <2>2, <2>3, LastPlace DEF Words
<1>2. ASSUME NEW w \in Words, NEW i \in InWord
      PROVE  w * WordBits + i \in Positions <=> w # LastWord \/ i <= LastBit
  <2> DEFINE p == w * WordBits + i
  <2>1. w \in Nat /\ w <= LastWord
    BY LastPlace DEF Words
  <2>2. p \in Nat /\ WordNum(p) = w /\ BitInWord(p) = i
    BY <2>1, AtPlace
  <2> HIDE DEF p
  <2>3. p <= NumBits - 1 <=> w < LastWord \/ (w = LastWord /\ i <= LastBit)
    BY <2>2, LastPlace, PlaceOrder DEF LastBit
  <2>4. p \in Positions <=> p <= NumBits - 1
    BY <2>2, SizesAssumption DEF Positions
  <2>5. p \in Positions <=> w # LastWord \/ i <= LastBit
    BY <2>1, <2>3, <2>4, LastPlace
  <2> QED BY <2>5 DEF p
<1> QED BY <1>1, <1>2

-----------------------------------------------------------------------------
(* Masks *)

(* What the masks cut off *)
LEMMA Masks ==
  ASSUME NEW i \in InWord
  PROVE  /\ HighBits(i) = {j \in InWord : i <= j}
         /\ LowBits(1 + i) = {j \in InWord : j <= i}
<1>1. WordBits \in Nat \ {0} /\ i \in 0 .. WordBits - 1
  BY SizesAssumption DEF InWord
<1>2. \A s \in 0 .. WordBits - 1 : s % WordBits = s
  <2>1. \A s \in 0 .. WordBits - 1 : (0 * WordBits + s) % WordBits = s
    BY <1>1, DivisionUnique
  <2> QED BY <1>1, <2>1
<1>3. HighBits(i) = {j \in InWord : i <= j}
  BY <1>1, <1>2 DEF HighBits, InWord
<1>4. CASE 1 + i < WordBits
  <2>1. (1 + i) % WordBits = 1 + i
    BY <1>1, <1>2, <1>4
  <2>2. \A j \in InWord : ~(j >= 1 + i) <=> j <= i
    BY <1>1 DEF InWord
  <2> QED BY <1>3, <1>4, <2>1, <2>2 DEF LowBits, HighBits
<1>5. CASE ~(1 + i < WordBits)
  BY <1>1, <1>3, <1>5 DEF LowBits, InWord
<1> QED BY <1>4, <1>5

(* MaskLastWord cuts off the padding. *)
LEMMA LastMask ==
  ASSUME NEW word \in SUBSET InWord
  PROVE  MaskLastWord(word) = {j \in word : j <= LastBit}
<1> DEFINE rest == NumBits % WordBits
           shift == (WordBits - rest) % WordBits
<1>1. /\ WordBits \in Nat \ {0} /\ LastBit \in 0 .. WordBits - 1 /\ LastWord \in Nat
      /\ NumBits = LastWord * WordBits + LastBit + 1 /\ LastWord * WordBits \in Nat
  BY SizesAssumption, LastPlace DEF InWord
<1>2. \A s \in 0 .. WordBits - 1 : s % WordBits = s
  <2>1. \A s \in 0 .. WordBits - 1 : (0 * WordBits + s) % WordBits = s
    BY <1>1, DivisionUnique
  <2> QED BY <1>1, <2>1
<1>3. CASE LastBit + 1 < WordBits
  <2>1. NumBits = LastWord * WordBits + (LastBit + 1) /\ LastBit + 1 \in 0 .. WordBits - 1
    BY <1>1, <1>3
  <2>2. rest = LastBit + 1
    BY <1>1, <2>1, DivisionUnique
  <2>3. shift = WordBits - (LastBit + 1)
    BY <1>1, <1>2, <1>3, <2>2
  <2> HIDE DEF shift
  <2>4. \A j \in InWord : j + shift < WordBits <=> j <= LastBit
    BY <1>1, <2>3 DEF InWord
  <2> QED BY <2>4 DEF MaskLastWord, shift
<1>4. CASE LastBit + 1 = WordBits
  <2>1. NumBits = (LastWord + 1) * WordBits + 0 /\ LastWord + 1 \in Nat /\ 0 \in 0 .. WordBits - 1
    BY <1>1, <1>4
  <2>2. rest = 0
    <3>1. ((LastWord + 1) * WordBits + 0) % WordBits = 0
      BY <1>1, <2>1, DivisionUnique
    <3> QED BY <2>1, <3>1
  <2>3. shift = 0
    <3>1. WordBits - rest = 1 * WordBits + 0
      BY <1>1, <2>2
    <3> QED BY <1>1, <2>1, <3>1, DivisionUnique
  <2> HIDE DEF shift
  <2>4. \A j \in InWord : j + shift < WordBits <=> j <= LastBit
    BY <1>1, <1>4, <2>3 DEF InWord
  <2> QED BY <2>4 DEF MaskLastWord, shift
<1> QED BY <1>1, <1>3, <1>4

(* The mask of a range in a word has the bits of the range in the word. *)
LEMMA MaskOfRange ==
  ASSUME NEW lo \in Positions, NEW hi \in Positions, lo <= hi, NEW w \in Words
  PROVE  RangeMask(lo, hi, w) = {i \in InWord : w * WordBits + i \in lo .. hi}
<1>1. /\ lo \in Nat /\ hi \in Nat /\ w \in Nat
      /\ WordNum(lo) \in Nat /\ WordNum(hi) \in Nat
      /\ BitInWord(lo) \in InWord /\ BitInWord(hi) \in InWord
  BY InVector, LastPlace, PlaceOf DEF Words
<1>2. WordNum(lo) <= WordNum(hi)
  BY <1>1, PlaceOrder
<1>3. ASSUME NEW i \in InWord
      PROVE  i \in RangeMask(lo, hi, w) <=> w * WordBits + i \in lo .. hi
  <2> DEFINE p == w * WordBits + i
             a == BitInWord(lo)
             b == BitInWord(hi)
             v == WordNum(lo)
             z == WordNum(hi)
  <2>1. p \in Nat /\ WordNum(p) = w /\ BitInWord(p) = i
    BY <1>1, AtPlace
  <2>2. HighBits(a) = {j \in InWord : a <= j} /\ LowBits(1 + b) = {j \in InWord : j <= b}
    BY <1>1, Masks
  <2>3. lo <= p <=> v < w \/ (v = w /\ a <= i)
    BY <1>1, <2>1, PlaceOrder
  <2>4. p <= hi <=> w < z \/ (w = z /\ i <= b)
    BY <1>1, <2>1, PlaceOrder
  <2>5. i \in RangeMask(lo, hi, w) <=>
          ~(w < v) /\ ~(w > z) /\ (w = v => a <= i) /\ (w = z => i <= b)
    BY <2>2 DEF RangeMask
  <2>6. p \in lo .. hi <=> lo <= p /\ p <= hi
    BY <1>1, <2>1
  <2> HIDE DEF p, a, b, v, z
  <2>7. v \in Nat /\ z \in Nat /\ v <= z
    BY <1>1, <1>2 DEF v, z
  <2>8. i \in RangeMask(lo, hi, w) <=> p \in lo .. hi
    BY <1>1, <2>3, <2>4, <2>5, <2>6, <2>7
  <2> QED BY <2>8 DEF p
<1>4. RangeMask(lo, hi, w) \subseteq InWord
  BY DEF RangeMask, HighBits, LowBits
<1> QED BY <1>3, <1>4

-----------------------------------------------------------------------------
(* The tests on words are tests of bits *)

(* Where the bits of a vector are *)
LEMMA BitOfWord ==
  ASSUME NEW d \in Vectors
  PROVE  /\ \A p \in Positions : Bit(d, p) \in BOOLEAN
         /\ \A w \in Words : d[w] \in SUBSET InWord
         /\ \A w \in Words, i \in InWord : Bit(d, w * WordBits + i) <=> i \in d[w]
<1>1. \A w \in Words : w \in Nat
  BY LastPlace DEF Words
<1>2. \A w \in Words, i \in InWord : Bit(d, w * WordBits + i) <=> i \in d[w]
  BY <1>1, AtPlace DEF Bit
<1>3. \A p \in Positions : Bit(d, p) \in BOOLEAN
  BY DEF Bit
<1>4. \A w \in Words : d[w] \in SUBSET InWord
  BY DEF Vectors
<1> QED BY <1>2, <1>3, <1>4

(* Every position of the vector is a place in one of its words. *)
LEMMA EachPlace ==
  ASSUME NEW p \in Positions
  PROVE  /\ WordNum(p) \in Words /\ BitInWord(p) \in InWord
         /\ p = WordNum(p) * WordBits + BitInWord(p)
BY InVector, PlaceOf

(* IsFilledWith, of all bits *)
LEMMA FilledTest ==
  ASSUME NEW d \in Vectors, NEW val \in BOOLEAN
  PROVE  IsFilledWith(d, val) <=> \A p \in Positions : Bit(d, p) = val
<1> DEFINE all(w) == \A i \in InWord : w * WordBits + i \in Positions => (i \in d[w] <=> val)
<1>1. (\A p \in Positions : Bit(d, p) = val) <=> \A w \in Words : all(w)
  <2>1. ASSUME \A p \in Positions : Bit(d, p) = val, NEW w \in Words PROVE all(w)
    BY <2>1, BitOfWord
  <2>2. ASSUME \A w \in Words : all(w), NEW p \in Positions PROVE Bit(d, p) = val
    <3>1. /\ WordNum(p) \in Words /\ BitInWord(p) \in InWord
          /\ p = WordNum(p) * WordBits + BitInWord(p)
      BY EachPlace
    <3>2. BitInWord(p) \in d[WordNum(p)] <=> val
      BY <2>2, <3>1
    <3> QED BY <3>2 DEF Bit
  <2> QED BY <2>1, <2>2
<1>2. ASSUME NEW w \in Words, w # LastWord
      PROVE  all(w) <=> d[w] = IF val THEN InWord ELSE {}
  <2>1. \A i \in InWord : w * WordBits + i \in Positions
    BY <1>2, InVector
  <2>2. all(w) <=> \A i \in InWord : i \in d[w] <=> val
    BY <2>1
  <2> HIDE DEF all
  <2>3. d[w] \in SUBSET InWord
    BY BitOfWord
  <2> QED BY <2>2, <2>3
<1>3. all(LastWord) <=> MaskLastWord(d[LastWord]) = IF val THEN MaskLastWord(InWord) ELSE {}
  <2>1. LastWord \in Words
    BY LastPlace DEF Words
  <2>2. \A i \in InWord : LastWord * WordBits + i \in Positions <=> i <= LastBit
    BY <2>1, InVector
  <2>3. all(LastWord) <=> \A i \in InWord : i <= LastBit => (i \in d[LastWord] <=> val)
    BY <2>2
  <2> HIDE DEF all
  <2>4. d[LastWord] \in SUBSET InWord
    BY <2>1, BitOfWord
  <2>5. /\ MaskLastWord(d[LastWord]) = {i \in d[LastWord] : i <= LastBit}
        /\ MaskLastWord(InWord) = {i \in InWord : i <= LastBit}
    BY <2>4, LastMask
  <2> QED BY <2>3, <2>4, <2>5
<1>4. LastWord \in Words
  BY LastPlace DEF Words
<1> HIDE DEF all
<1> QED BY <1>1, <1>2, <1>3, <1>4 DEF IsFilledWith

(* The ends of a range, whichever comes first *)
LEMMA Ends ==
  ASSUME NEW from \in Positions, NEW to \in Positions
  PROVE  /\ Lower(from, to) \in Positions /\ Higher(from, to) \in Positions
         /\ Lower(from, to) <= Higher(from, to)
         /\ Lower(from, to) .. Higher(from, to) \subseteq Positions
         /\ from = to => Lower(from, to) .. Higher(from, to) = {from}
BY SizesAssumption DEF Lower, Higher, Positions

(* IsFilledWith, of a range of two bits or more *)
LEMMA RangeTest ==
  ASSUME NEW d \in Vectors, NEW val \in BOOLEAN,
         NEW from \in Positions, NEW to \in Positions, from # to
  PROVE  RangeIsFilledWith(d, from, to, val) <=>
           \A p \in Lower(from, to) .. Higher(from, to) : Bit(d, p) = val
<1> DEFINE lo == Lower(from, to)
           hi == Higher(from, to)
           mask(w) == RangeMask(lo, hi, w)
<1>1. lo \in Positions /\ hi \in Positions /\ lo <= hi /\ lo .. hi \in SUBSET Positions
  BY Ends
<1>2. RangeIsFilledWith(d, from, to, val) <=>
        \A w \in Words : d[w] \cap mask(w) = IF val THEN mask(w) ELSE {}
  BY DEF RangeIsFilledWith
<1> HIDE DEF lo, hi
<1>3. \A w \in Words : mask(w) = {i \in InWord : w * WordBits + i \in lo .. hi}
  BY <1>1, MaskOfRange
<1> HIDE DEF mask
<1>4. ASSUME \A w \in Words : d[w] \cap mask(w) = IF val THEN mask(w) ELSE {},
             NEW p \in lo .. hi
      PROVE  Bit(d, p) = val
  <2>1. /\ WordNum(p) \in Words /\ BitInWord(p) \in InWord
        /\ p = WordNum(p) * WordBits + BitInWord(p)
    BY <1>1, EachPlace
  <2>2. BitInWord(p) \in mask(WordNum(p))
    BY <1>3, <2>1
  <2>3. BitInWord(p) \in d[WordNum(p)] <=> val
    BY <1>4, <2>1, <2>2
  <2> QED BY <2>3 DEF Bit
<1>5. ASSUME \A p \in lo .. hi : Bit(d, p) = val, NEW w \in Words
      PROVE  d[w] \cap mask(w) = IF val THEN mask(w) ELSE {}
  <2>1. \A i \in mask(w) : i \in d[w] <=> val
    BY <1>3, <1>5, BitOfWord
  <2> QED BY <2>1
<1>6. (\A w \in Words : d[w] \cap mask(w) = IF val THEN mask(w) ELSE {})
        <=> \A p \in lo .. hi : Bit(d, p) = val
  BY <1>4, <1>5
<1> QED BY <1>2, <1>6 DEF lo, hi

(* operator== *)
LEMMA EqualTest ==
  ASSUME NEW d \in Vectors, NEW e \in Vectors
  PROVE  Equal(d, e) <=> \A p \in Positions : Bit(d, p) = Bit(e, p)
<1> DEFINE same(w) == \A i \in InWord :
                        w * WordBits + i \in Positions => (i \in d[w] <=> i \in e[w])
<1>0. LastWord \in Words
  BY LastPlace DEF Words
<1>1. (\A p \in Positions : Bit(d, p) = Bit(e, p)) <=> \A w \in Words : same(w)
  <2>1. ASSUME \A p \in Positions : Bit(d, p) = Bit(e, p), NEW w \in Words PROVE same(w)
    BY <2>1, BitOfWord
  <2>2. ASSUME \A w \in Words : same(w), NEW p \in Positions PROVE Bit(d, p) = Bit(e, p)
    <3>1. /\ WordNum(p) \in Words /\ BitInWord(p) \in InWord
          /\ p = WordNum(p) * WordBits + BitInWord(p)
      BY EachPlace
    <3>2. BitInWord(p) \in d[WordNum(p)] <=> BitInWord(p) \in e[WordNum(p)]
      BY <2>2, <3>1
    <3> QED BY <3>2 DEF Bit
  <2> QED BY <2>1, <2>2
<1>2. ASSUME NEW w \in Words
      PROVE  /\ w # LastWord => (same(w) <=> d[w] = e[w])
             /\ w = LastWord =>
                  (same(w) <=> \A i \in InWord : i <= LastBit => (i \in d[w] <=> i \in e[w]))
  <2>1. \A i \in InWord : w * WordBits + i \in Positions <=> w # LastWord \/ i <= LastBit
    BY InVector
  <2>2. w # LastWord => (same(w) <=> \A i \in InWord : i \in d[w] <=> i \in e[w])
    BY <2>1
  <2>3. w = LastWord =>
          (same(w) <=> \A i \in InWord : i <= LastBit => (i \in d[w] <=> i \in e[w]))
    BY <2>1
  <2> HIDE DEF same
  <2>4. d[w] \in SUBSET InWord /\ e[w] \in SUBSET InWord
    BY BitOfWord
  <2> QED BY <2>2, <2>3, <2>4
<1> HIDE DEF same
<1>3. /\ WordBits \in Nat \ {0} /\ LastBit \in 0 .. WordBits - 1 /\ LastWord \in Nat
      /\ NumBits = LastWord * WordBits + LastBit + 1 /\ LastWord * WordBits \in Nat
  BY SizesAssumption, LastPlace DEF InWord
<1>4. CASE LastBit + 1 < WordBits
  <2>1. NumBits = LastWord * WordBits + (LastBit + 1) /\ LastBit + 1 \in 0 .. WordBits - 1
    BY <1>3, <1>4
  <2>2. NumBits \div WordBits = LastWord /\ NumBits % WordBits = LastBit + 1
    BY <1>3, <2>1, DivisionUnique
  <2>3. 0 .. (NumBits \div WordBits) - 1 = Words \ {LastWord}
    BY <1>3, <2>2 DEF Words
  <2>4. 0 .. (NumBits % WordBits) - 1 = {i \in InWord : i <= LastBit} /\ NumBits % WordBits # 0
    BY <1>3, <2>2 DEF InWord
  <2>5. Equal(d, e) <=>
          /\ \A w \in Words \ {LastWord} : d[w] = e[w]
          /\ d[LastWord] \cap {i \in InWord : i <= LastBit} =
               e[LastWord] \cap {i \in InWord : i <= LastBit}
    BY <2>3, <2>4 DEF Equal
  <2>6. d[LastWord] \cap {i \in InWord : i <= LastBit} =
          e[LastWord] \cap {i \in InWord : i <= LastBit} <=> same(LastWord)
    BY <1>0, <1>2
  <2> QED BY <1>0, <1>1, <1>2, <2>5, <2>6
<1>5. CASE LastBit + 1 = WordBits
  <2>1. NumBits = (LastWord + 1) * WordBits + 0 /\ LastWord + 1 \in Nat /\ 0 \in 0 .. WordBits - 1
    BY <1>3, <1>5
  <2>2. ((LastWord + 1) * WordBits + 0) \div WordBits = LastWord + 1 /\
        ((LastWord + 1) * WordBits + 0) % WordBits = 0
    BY <1>3, <2>1, DivisionUnique
  <2>3. NumBits \div WordBits = LastWord + 1 /\ NumBits % WordBits = 0
    BY <2>1, <2>2
  <2>4. 0 .. (NumBits \div WordBits) - 1 = Words
    BY <1>3, <2>3 DEF Words
  <2>5. Equal(d, e) <=> \A w \in Words : d[w] = e[w]
    BY <2>3, <2>4 DEF Equal
  <2>6. d[LastWord] = e[LastWord] <=> same(LastWord)
    <3>1. \A i \in InWord : i <= LastBit
      BY <1>3, <1>5 DEF InWord
    <3>2. d[LastWord] \in SUBSET InWord /\ e[LastWord] \in SUBSET InWord
      BY <1>0, BitOfWord
    <3> QED BY <1>0, <1>2, <3>1, <3>2
  <2> QED BY <1>0, <1>1, <1>2, <2>5, <2>6
<1> QED BY <1>3, <1>4, <1>5

(* In every state the tests see bits and no padding. *)
LEMMA TestsSound ==
  ASSUME data \in Vectors
  PROVE  TestsAreOfBits
BY OperandsAssumption, FilledTest, RangeTest, EqualTest DEF TestsAreOfBits

-----------------------------------------------------------------------------
(* The searches find the nearest bit *)

(* Least elements *)
LEMMA MinIs ==
  ASSUME NEW S \in SUBSET Nat, NEW m \in S, \A n \in S : m <= n
  PROVE  Min(S) = m
<1>1. \E x \in S : \A y \in S : x <= y
  OBVIOUS
<1>2. Min(S) \in S /\ \A y \in S : Min(S) <= y
  BY <1>1 DEF Min
<1>3. m <= Min(S) /\ Min(S) <= m /\ m \in Nat /\ Min(S) \in Nat
  BY <1>2
<1> QED BY <1>3

(* Greatest elements *)
LEMMA MaxIs ==
  ASSUME NEW S \in SUBSET Nat, NEW m \in S, \A n \in S : n <= m
  PROVE  Max(S) = m
<1>1. \E x \in S : \A y \in S : x >= y
  OBVIOUS
<1>2. Max(S) \in S /\ \A y \in S : Max(S) >= y
  BY <1>1 DEF Max
<1>3. m <= Max(S) /\ m >= Max(S) /\ m \in Nat /\ Max(S) \in Nat
  BY <1>2
<1> QED BY <1>3

(* Sets that have a least element *)
LEMMA MinOf ==
  ASSUME NEW S \in SUBSET Nat, S # {}
  PROVE  Min(S) \in S /\ \A n \in S : Min(S) <= n
BY LeastNatural, MinIs

(* Sets that have a greatest element *)
LEMMA MaxOf ==
  ASSUME NEW b \in Nat, NEW S \in SUBSET (0 .. b), S # {}
  PROVE  Max(S) \in S /\ \A n \in S : n <= Max(S)
<1>1. S \in SUBSET Nat
  OBVIOUS
<1> QED BY <1>1, GreatestNatural, MaxIs

(* The bits a search looks for in a word: to the right without the padding *)
LEMMA HitsOf ==
  ASSUME NEW d \in Vectors, NEW w \in Words, NEW val \in BOOLEAN
  PROVE  /\ Hits(d, w, val) = {i \in InWord : i \in d[w] <=> val}
         /\ HitsRight(d, w, val) =
              {i \in InWord : w * WordBits + i \in Positions /\ (i \in d[w] <=> val)}
<1>1. d[w] \in SUBSET InWord
  BY BitOfWord
<1>2. Hits(d, w, val) = {i \in InWord : i \in d[w] <=> val}
  BY <1>1 DEF Hits
<1>3. \A i \in InWord : w * WordBits + i \in Positions <=> w # LastWord \/ i <= LastBit
  BY InVector
<1>4. CASE w = LastWord
  <2>1. HitsRight(d, w, val) = {i \in Hits(d, w, val) : i <= LastBit}
    BY <1>2, <1>4, LastMask DEF HitsRight
  <2>2. \A i \in InWord : w * WordBits + i \in Positions <=> i <= LastBit
    BY <1>3, <1>4
  <2> QED BY <1>2, <2>1, <2>2
<1>5. CASE w # LastWord
  <2>1. HitsRight(d, w, val) = Hits(d, w, val)
    BY <1>5 DEF HitsRight
  <2>2. \A i \in InWord : w * WordBits + i \in Positions
    BY <1>3, <1>5
  <2> QED BY <1>2, <2>1, <2>2
<1> QED BY <1>2, <1>4, <1>5

(* Find to the right: the rest of the first word, then the first word with a hit *)
LEMMA RightNearest ==
  ASSUME NEW d \in Vectors, NEW start \in Positions, NEW val \in BOOLEAN
  PROVE  LET right == {p \in Positions : p > start /\ Bit(d, p) = val}
         IN  FindToRight(d, start, val) = IF right = {} THEN NotFound ELSE Min(right)
<1> DEFINE right == {p \in Positions : p > start /\ Bit(d, p) = val}
           from == start + 1
           v == WordNum(from)
           here == HitsRight(d, v, val) \cap HighBits(BitInWord(from))
           higher == {w \in v + 1 .. LastWord : HitsRight(d, w, val) # {}}
           At(w, hits) == w * WordBits + Min(hits)
<1>0. FindToRight(d, start, val) =
        IF start >= NumBits - 1 THEN NotFound
        ELSE IF here # {} THEN At(v, here)
        ELSE IF higher # {} THEN At(Min(higher), HitsRight(d, Min(higher), val))
        ELSE NotFound
  BY DEF FindToRight
<1>1. NumBits \in Nat /\ start \in Nat /\ right \in SUBSET Nat
  BY SizesAssumption DEF Positions
<1>2. CASE start >= NumBits - 1
  <2>1. right = {}
    BY <1>1, <1>2 DEF Positions
  <2> QED BY <1>0, <1>2, <2>1
<1>3. CASE ~(start >= NumBits - 1)
  <2>1. from \in Positions /\ \A p \in Positions : p > start <=> from <= p
    BY <1>1, <1>3 DEF Positions
  <2>2. v \in Words /\ BitInWord(from) \in InWord /\ Words \subseteq Nat
    BY <2>1, EachPlace DEF Words
  <2>3. here = {i \in InWord : /\ v * WordBits + i \in Positions /\ (i \in d[v] <=> val)
                               /\ BitInWord(from) <= i}
    <3>1. HighBits(BitInWord(from)) = {i \in InWord : BitInWord(from) <= i}
      BY <2>2, Masks
    <3>2. HitsRight(d, v, val) =
            {i \in InWord : v * WordBits + i \in Positions /\ (i \in d[v] <=> val)}
      BY <2>2, HitsOf
    <3> QED BY <3>1, <3>2
  <2>4. \A w \in Words : HitsRight(d, w, val) =
          {i \in InWord : w * WordBits + i \in Positions /\ (i \in d[w] <=> val)}
    BY HitsOf
  <2>5. higher = {w \in Words : v < w /\ HitsRight(d, w, val) # {}}
    BY <2>2, LastPlace DEF Words
  <2>6. InWord \subseteq Nat
    BY DEF InWord
  <2> HIDE DEF here, higher
  <2>7. \A w \in Words, i \in InWord :
          w * WordBits + i \in right <=>
            /\ w * WordBits + i \in Positions /\ (i \in d[w] <=> val)
            /\ v < w \/ (v = w /\ BitInWord(from) <= i)
    <3>1. ASSUME NEW w \in Words, NEW i \in InWord
          PROVE  /\ w * WordBits + i \in Nat
                 /\ from <= w * WordBits + i <=> v < w \/ (v = w /\ BitInWord(from) <= i)
                 /\ Bit(d, w * WordBits + i) <=> i \in d[w]
      <4>1. from \in Nat /\ w \in Nat
        BY <1>1, <2>2
      <4>2. /\ w * WordBits + i \in Nat
            /\ WordNum(w * WordBits + i) = w /\ BitInWord(w * WordBits + i) = i
        BY <4>1, AtPlace
      <4> QED BY <4>1, <4>2, PlaceOrder, BitOfWord
    <3>2. ASSUME NEW w \in Words, NEW i \in InWord, w * WordBits + i \in Positions
          PROVE  w * WordBits + i > start <=> v < w \/ (v = w /\ BitInWord(from) <= i)
      BY <2>1, <3>1, <3>2
    <3>3. \A p \in Positions : Bit(d, p) \in BOOLEAN
      BY BitOfWord
    <3> QED BY <3>1, <3>2, <3>3
  <2>8. \A p \in right : /\ WordNum(p) \in Words /\ BitInWord(p) \in InWord
                         /\ WordNum(p) * WordBits + BitInWord(p) \in right
    BY EachPlace
  <2>9. ASSUME NEW w \in Words, NEW i \in InWord, w * WordBits + i \in right,
               \A p \in right :
                 w < WordNum(p) \/ (w = WordNum(p) /\ i <= BitInWord(p))
        PROVE  right # {} /\ Min(right) = w * WordBits + i
    <3> DEFINE q == w * WordBits + i
    <3>1. q \in Nat /\ WordNum(q) = w /\ BitInWord(q) = i
      BY <2>2, AtPlace
    <3> HIDE DEF q
    <3>2. \A p \in right : q <= p
      BY <1>1, <2>9, <3>1, PlaceOrder
    <3>3. q \in right
      BY <2>9 DEF q
    <3>4. right # {} /\ Min(right) = q
      BY <1>1, <3>2, <3>3, MinIs
    <3> QED BY <3>4 DEF q
  <2> HIDE DEF right, v
  <2>10. CASE here # {}
    <3> DEFINE m == Min(here)
    <3>1. m \in here /\ \A i \in here : m <= i
      BY <2>3, <2>6, <2>10, MinOf
    <3> HIDE DEF m
    <3>2. v * WordBits + m \in right /\ m \in InWord
      BY <2>2, <2>3, <2>7, <3>1
    <3>3. ASSUME NEW p \in right
          PROVE  v < WordNum(p) \/ (v = WordNum(p) /\ m <= BitInWord(p))
      <4>1. v < WordNum(p) \/ (v = WordNum(p) /\ BitInWord(p) \in here)
        BY <2>3, <2>7, <2>8
      <4> QED BY <3>1, <4>1
    <3>4. right # {} /\ Min(right) = v * WordBits + m
      BY <2>2, <2>9, <3>2, <3>3
    <3> QED BY <1>0, <1>3, <2>10, <3>4 DEF m, right
  <2>11. CASE here = {} /\ higher # {}
    <3> DEFINE u == Min(higher)
               m == Min(HitsRight(d, u, val))
    <3>1. u \in higher /\ \A w \in higher : u <= w
      BY <2>2, <2>5, <2>11, MinOf
    <3> HIDE DEF u
    <3>2. u \in Words /\ v < u /\ HitsRight(d, u, val) # {}
      BY <2>5, <3>1
    <3>3. m \in HitsRight(d, u, val) /\ \A i \in HitsRight(d, u, val) : m <= i
      BY <2>4, <2>6, <3>2, MinOf
    <3> HIDE DEF m
    <3>4. u * WordBits + m \in right /\ m \in InWord
      BY <2>4, <2>7, <3>2, <3>3
    <3>5. ASSUME NEW p \in right
          PROVE  u < WordNum(p) \/ (u = WordNum(p) /\ m <= BitInWord(p))
      <4>1. /\ WordNum(p) \in Words /\ BitInWord(p) \in InWord
            /\ WordNum(p) * WordBits + BitInWord(p) \in right
        BY <2>8
      <4>2. ASSUME v = WordNum(p) PROVE FALSE
        <5>1. /\ v * WordBits + BitInWord(p) \in Positions
              /\ BitInWord(p) \in d[v] <=> val
              /\ BitInWord(from) <= BitInWord(p)
          BY <2>2, <2>7, <4>1, <4>2
        <5> QED BY <2>3, <2>11, <4>1, <5>1
      <4>3. BitInWord(p) \in HitsRight(d, WordNum(p), val) /\ v < WordNum(p)
        BY <2>4, <2>7, <4>1, <4>2
      <4>4. u <= WordNum(p)
        BY <2>5, <3>1, <4>1, <4>3
      <4>5. u \in Nat /\ WordNum(p) \in Nat
        BY <2>2, <3>2, <4>1
      <4>6. u = WordNum(p) => m <= BitInWord(p)
        BY <3>3, <4>3
      <4> QED BY <4>4, <4>5, <4>6
    <3>6. right # {} /\ Min(right) = u * WordBits + m
      BY <2>9, <3>2, <3>4, <3>5
    <3> QED BY <1>0, <1>3, <2>11, <3>6 DEF u, m, right
  <2>12. CASE here = {} /\ higher = {}
    <3>1. ASSUME NEW p \in right PROVE FALSE
      <4>1. /\ WordNum(p) \in Words /\ BitInWord(p) \in InWord
            /\ WordNum(p) * WordBits + BitInWord(p) \in right
        BY <2>8
      <4>2. ASSUME v = WordNum(p) PROVE FALSE
        <5>1. /\ v * WordBits + BitInWord(p) \in Positions
              /\ BitInWord(p) \in d[v] <=> val
              /\ BitInWord(from) <= BitInWord(p)
          BY <2>2, <2>7, <4>1, <4>2
        <5> QED BY <2>3, <2>12, <4>1, <5>1
      <4>3. BitInWord(p) \in HitsRight(d, WordNum(p), val) /\ v < WordNum(p)
        BY <2>4, <2>7, <4>1, <4>2
      <4> QED BY <2>5, <2>12, <4>1, <4>3
    <3>2. right = {}
      BY <3>1
    <3> QED BY <1>0, <1>3, <2>12, <3>2 DEF right
  <2> QED BY <2>10, <2>11, <2>12
<1> QED BY <1>2, <1>3

(* Find to the left, which the padding of the last word cannot reach *)
LEMMA LeftNearest ==
  ASSUME NEW d \in Vectors, NEW start \in Positions, NEW val \in BOOLEAN
  PROVE  LET left == {p \in Positions : p < start /\ Bit(d, p) = val}
         IN  FindToLeft(d, start, val) = IF left = {} THEN NotFound ELSE Max(left)
<1> DEFINE left == {p \in Positions : p < start /\ Bit(d, p) = val}
           from == start - 1
           v == WordNum(from)
           here == Hits(d, v, val) \cap LowBits(1 + BitInWord(from))
           lower == {w \in 0 .. v - 1 : Hits(d, w, val) # {}}
           At(w, hits) == w * WordBits + Max(hits)
<1>0. FindToLeft(d, start, val) =
        IF start = 0 THEN NotFound
        ELSE IF here # {} THEN At(v, here)
        ELSE IF lower # {} THEN At(Max(lower), Hits(d, Max(lower), val))
        ELSE NotFound
  BY DEF FindToLeft
<1>1. NumBits \in Nat /\ start \in Nat /\ left \in SUBSET Nat
  BY SizesAssumption DEF Positions
<1>2. CASE start = 0
  <2>1. left = {}
    BY <1>1, <1>2 DEF Positions
  <2> QED BY <1>0, <1>2, <2>1
<1>3. CASE start # 0
  <2>1. /\ from \in Positions /\ \A p \in Positions : p < start <=> p <= from
        /\ \A p \in Nat : p <= from => p \in Positions
    BY <1>1, <1>3 DEF Positions
  <2>2. /\ v \in Words /\ BitInWord(from) \in InWord /\ Words \subseteq Nat
        /\ \A w \in Words : w <= LastWord
    BY <2>1, EachPlace, LastPlace DEF Words
  <2>3. \A w \in Words : Hits(d, w, val) = {i \in InWord : i \in d[w] <=> val}
    BY HitsOf
  <2>4. here = {i \in InWord : (i \in d[v] <=> val) /\ i <= BitInWord(from)}
    <3>1. LowBits(1 + BitInWord(from)) = {i \in InWord : i <= BitInWord(from)}
      BY <2>2, Masks
    <3> QED BY <2>2, <2>3, <3>1
  <2>5. lower = {w \in Words : w < v /\ Hits(d, w, val) # {}}
    BY <2>2, LastPlace DEF Words
  <2>6. InWord \subseteq Nat /\ InWord = 0 .. WordBits - 1 /\ WordBits - 1 \in Nat
    BY SizesAssumption DEF InWord
  <2>7. \A w \in Words, i \in InWord :
          w * WordBits + i \in left <=>
            (i \in d[w] <=> val) /\ (w < v \/ (w = v /\ i <= BitInWord(from)))
    <3>1. ASSUME NEW w \in Words, NEW i \in InWord
          PROVE  /\ w * WordBits + i \in Nat
                 /\ w * WordBits + i <= from <=> w < v \/ (w = v /\ i <= BitInWord(from))
                 /\ Bit(d, w * WordBits + i) <=> i \in d[w]
      <4>1. from \in Nat /\ w \in Nat
        BY <1>1, <1>3, <2>2
      <4>2. /\ w * WordBits + i \in Nat
            /\ WordNum(w * WordBits + i) = w /\ BitInWord(w * WordBits + i) = i
        BY <4>1, AtPlace
      <4> QED BY <4>1, <4>2, PlaceOrder, BitOfWord
    <3>2. ASSUME NEW w \in Words, NEW i \in InWord
          PROVE  /\ w * WordBits + i \in Positions /\ w * WordBits + i < start <=>
                      w < v \/ (w = v /\ i <= BitInWord(from))
      BY <2>1, <3>1
    <3>3. \A p \in Positions : Bit(d, p) \in BOOLEAN
      BY BitOfWord
    <3> QED BY <3>1, <3>2, <3>3
  <2>8. \A p \in left : /\ WordNum(p) \in Words /\ BitInWord(p) \in InWord
                        /\ WordNum(p) * WordBits + BitInWord(p) \in left
    BY EachPlace
  <2>9. ASSUME NEW w \in Words, NEW i \in InWord, w * WordBits + i \in left,
               \A p \in left : WordNum(p) < w \/ (WordNum(p) = w /\ BitInWord(p) <= i)
        PROVE  left # {} /\ Max(left) = w * WordBits + i
    <3> DEFINE q == w * WordBits + i
    <3>1. q \in Nat /\ WordNum(q) = w /\ BitInWord(q) = i
      BY <2>2, AtPlace
    <3> HIDE DEF q
    <3>2. \A p \in left : p <= q
      BY <1>1, <2>9, <3>1, PlaceOrder
    <3>3. q \in left
      BY <2>9 DEF q
    <3>4. left # {} /\ Max(left) = q
      BY <1>1, <3>2, <3>3, MaxIs
    <3> QED BY <3>4 DEF q
  <2> HIDE DEF left, v, here, lower
  <2>10. CASE here # {}
    <3> DEFINE m == Max(here)
    <3>1. m \in here /\ \A i \in here : i <= m
      BY <2>4, <2>6, <2>10, MaxOf
    <3> HIDE DEF m
    <3>2. v * WordBits + m \in left /\ m \in InWord
      BY <2>2, <2>4, <2>7, <3>1
    <3>3. ASSUME NEW p \in left
          PROVE  WordNum(p) < v \/ (WordNum(p) = v /\ BitInWord(p) <= m)
      <4>1. WordNum(p) < v \/ (v = WordNum(p) /\ BitInWord(p) \in here)
        BY <2>4, <2>7, <2>8
      <4> QED BY <3>1, <4>1
    <3>4. left # {} /\ Max(left) = v * WordBits + m
      BY <2>2, <2>9, <3>2, <3>3
    <3> QED BY <1>0, <1>3, <2>10, <3>4 DEF m, left
  <2>11. CASE here = {} /\ lower # {}
    <3> DEFINE u == Max(lower)
               m == Max(Hits(d, u, val))
    <3>1. u \in lower /\ \A w \in lower : w <= u
      <4>1. lower \in SUBSET (0 .. LastWord) /\ LastWord \in Nat
        BY <2>5, LastPlace DEF Words
      <4> QED BY <2>11, <4>1, MaxOf
    <3> HIDE DEF u
    <3>2. u \in Words /\ u < v /\ Hits(d, u, val) # {}
      BY <2>5, <3>1
    <3>3. m \in Hits(d, u, val) /\ \A i \in Hits(d, u, val) : i <= m
      <4>1. Hits(d, u, val) \in SUBSET InWord
        BY <2>3, <3>2
      <4> QED BY <2>6, <3>2, <4>1, MaxOf
    <3> HIDE DEF m
    <3>4. u * WordBits + m \in left /\ m \in InWord
      BY <2>3, <2>7, <3>2, <3>3
    <3>5. ASSUME NEW p \in left
          PROVE  WordNum(p) < u \/ (WordNum(p) = u /\ BitInWord(p) <= m)
      <4>1. /\ WordNum(p) \in Words /\ BitInWord(p) \in InWord
            /\ WordNum(p) * WordBits + BitInWord(p) \in left
        BY <2>8
      <4>2. ASSUME v = WordNum(p) PROVE FALSE
        <5>1. /\ BitInWord(p) \in d[v] <=> val
              /\ BitInWord(p) <= BitInWord(from)
          BY <2>2, <2>7, <4>1, <4>2
        <5> QED BY <2>4, <2>11, <4>1, <5>1
      <4>3. BitInWord(p) \in Hits(d, WordNum(p), val) /\ WordNum(p) < v
        BY <2>3, <2>7, <4>1, <4>2
      <4>4. WordNum(p) <= u
        BY <2>5, <3>1, <4>1, <4>3
      <4>5. u \in Nat /\ WordNum(p) \in Nat
        BY <2>2, <3>2, <4>1
      <4>6. u = WordNum(p) => BitInWord(p) <= m
        BY <3>3, <4>3
      <4> QED BY <4>4, <4>5, <4>6
    <3>6. left # {} /\ Max(left) = u * WordBits + m
      BY <2>9, <3>2, <3>4, <3>5
    <3> QED BY <1>0, <1>3, <2>11, <3>6 DEF u, m, left
  <2>12. CASE here = {} /\ lower = {}
    <3>1. ASSUME NEW p \in left PROVE FALSE
      <4>1. /\ WordNum(p) \in Words /\ BitInWord(p) \in InWord
            /\ WordNum(p) * WordBits + BitInWord(p) \in left
        BY <2>8
      <4>2. ASSUME v = WordNum(p) PROVE FALSE
        <5>1. /\ BitInWord(p) \in d[v] <=> val
              /\ BitInWord(p) <= BitInWord(from)
          BY <2>2, <2>7, <4>1, <4>2
        <5> QED BY <2>4, <2>12, <4>1, <5>1
      <4>3. BitInWord(p) \in Hits(d, WordNum(p), val) /\ WordNum(p) < v
        BY <2>3, <2>7, <4>1, <4>2
      <4> QED BY <2>5, <2>12, <4>1, <4>3
    <3>2. left = {}
      BY <3>1
    <3> QED BY <1>0, <1>3, <2>12, <3>2 DEF left
  <2> QED BY <2>10, <2>11, <2>12
<1> QED BY <1>2, <1>3

(* In every state a search finds the nearest bit. *)
LEMMA FindsSound ==
  ASSUME data \in Vectors
  PROVE  FindsNearest
BY RightNearest, LeftNearest DEF FindsNearest

-----------------------------------------------------------------------------
(* The updates change the bits they are asked to *)

(* SetBitVal *)
LEMMA SetsBit ==
  ASSUME NEW d \in Vectors, NEW p \in Positions, NEW val \in BOOLEAN
  PROVE  /\ WithBit(d, p, val) \in Vectors
         /\ BitsOf(WithBit(d, p, val)) = IF val THEN BitsOf(d) \cup {p} ELSE BitsOf(d) \ {p}
<1> DEFINE w == WordNum(p)
           i == BitInWord(p)
           e == [d EXCEPT ![w] = IF val THEN d[w] \cup {i} ELSE d[w] \ {i}]
<1>1. w \in Words /\ i \in InWord /\ p = w * WordBits + i
  BY EachPlace
<1>2. WithBit(d, p, val) = e
  BY DEF WithBit
<1>3. e \in Vectors
  BY <1>1 DEF Vectors
<1>4. ASSUME NEW q \in Positions
      PROVE  Bit(e, q) <=> IF q = p THEN val ELSE Bit(d, q)
  <2>1. WordNum(q) \in Words /\ BitInWord(q) \in InWord /\ q = WordNum(q) * WordBits + BitInWord(q)
    BY EachPlace
  <2>2. q = p <=> WordNum(q) = w /\ BitInWord(q) = i
    BY <1>1, <2>1
  <2>3. e[WordNum(q)] = IF WordNum(q) = w THEN IF val THEN d[w] \cup {i} ELSE d[w] \ {i}
                        ELSE d[WordNum(q)]
    BY <1>1, <2>1 DEF Vectors
  <2> HIDE DEF e, w, i
  <2> QED BY <2>2, <2>3 DEF Bit
<1> HIDE DEF e
<1>5. BitsOf(e) = IF val THEN BitsOf(d) \cup {p} ELSE BitsOf(d) \ {p}
  BY <1>4 DEF BitsOf
<1> QED BY <1>2, <1>3, <1>5

(* Fill *)
LEMMA FillsRange ==
  ASSUME NEW d \in Vectors, NEW from \in Positions, NEW to \in Positions, NEW val \in BOOLEAN
  PROVE  /\ Filled(d, from, to, val) \in Vectors
         /\ BitsOf(Filled(d, from, to, val)) =
              IF val THEN BitsOf(d) \cup (Lower(from, to) .. Higher(from, to))
              ELSE BitsOf(d) \ (Lower(from, to) .. Higher(from, to))
<1>1. CASE from = to
  BY <1>1, SetsBit, Ends DEF Filled
<1>2. CASE from # to
  <2> DEFINE lo == Lower(from, to)
             hi == Higher(from, to)
             e == [w \in Words |-> IF val THEN d[w] \cup RangeMask(lo, hi, w)
                                          ELSE d[w] \ RangeMask(lo, hi, w)]
  <2>1. Filled(d, from, to, val) = e
    BY <1>2 DEF Filled
  <2>2. lo \in Positions /\ hi \in Positions /\ lo <= hi /\ lo .. hi \subseteq Positions
    BY Ends
  <2> HIDE DEF lo, hi
  <2>3. \A w \in Words : RangeMask(lo, hi, w) = {i \in InWord : w * WordBits + i \in lo .. hi}
    BY <2>2, MaskOfRange
  <2>4. \A w \in Words : d[w] \in SUBSET InWord
    BY BitOfWord
  <2>5. e \in Vectors
    BY <2>3, <2>4 DEF Vectors
  <2>6. ASSUME NEW q \in Positions
        PROVE  Bit(e, q) <=> IF q \in lo .. hi THEN val ELSE Bit(d, q)
    <3>1. /\ WordNum(q) \in Words /\ BitInWord(q) \in InWord
          /\ q = WordNum(q) * WordBits + BitInWord(q)
      BY EachPlace
    <3>2. BitInWord(q) \in RangeMask(lo, hi, WordNum(q)) <=> q \in lo .. hi
      BY <2>3, <3>1
    <3> QED BY <3>1, <3>2 DEF Bit
  <2> HIDE DEF e
  <2>7. BitsOf(e) = IF val THEN BitsOf(d) \cup (lo .. hi) ELSE BitsOf(d) \ (lo .. hi)
    BY <2>2, <2>6 DEF BitsOf
  <2> QED BY <2>1, <2>5, <2>7 DEF lo, hi
<1> QED BY <1>1, <1>2

(* Operations on whole words *)
LEMMA WholeWords ==
  ASSUME NEW d \in Vectors
  PROVE  /\ Inverted(d) \in Vectors /\ BitsOf(Inverted(d)) = Positions \ BitsOf(d)
         /\ \A e \in Vectors :
              /\ Anded(d, e) \in Vectors /\ Ored(d, e) \in Vectors /\ Xored(d, e) \in Vectors
              /\ BitsOf(Anded(d, e)) = BitsOf(d) \cap BitsOf(e)
              /\ BitsOf(Ored(d, e)) = BitsOf(d) \cup BitsOf(e)
              /\ BitsOf(Xored(d, e)) = (BitsOf(d) \ BitsOf(e)) \cup (BitsOf(e) \ BitsOf(d))
<1>1. \A p \in Positions : WordNum(p) \in Words /\ BitInWord(p) \in InWord
  BY EachPlace
<1>2. Inverted(d) \in Vectors /\ BitsOf(Inverted(d)) = Positions \ BitsOf(d)
  BY <1>1 DEF Inverted, Vectors, BitsOf, Bit
<1>3. ASSUME NEW e \in Vectors
      PROVE  /\ Anded(d, e) \in Vectors /\ Ored(d, e) \in Vectors /\ Xored(d, e) \in Vectors
             /\ BitsOf(Anded(d, e)) = BitsOf(d) \cap BitsOf(e)
             /\ BitsOf(Ored(d, e)) = BitsOf(d) \cup BitsOf(e)
             /\ BitsOf(Xored(d, e)) = (BitsOf(d) \ BitsOf(e)) \cup (BitsOf(e) \ BitsOf(d))
  <2>1. Anded(d, e) \in Vectors /\ BitsOf(Anded(d, e)) = BitsOf(d) \cap BitsOf(e)
    BY <1>1 DEF Anded, Vectors, BitsOf, Bit
  <2>2. Ored(d, e) \in Vectors /\ BitsOf(Ored(d, e)) = BitsOf(d) \cup BitsOf(e)
    BY <1>1 DEF Ored, Vectors, BitsOf, Bit
  <2>3. /\ Xored(d, e) \in Vectors
        /\ BitsOf(Xored(d, e)) = (BitsOf(d) \ BitsOf(e)) \cup (BitsOf(e) \ BitsOf(d))
    BY <1>1 DEF Xored, Vectors, BitsOf, Bit
  <2> QED BY <2>1, <2>2, <2>3
<1> QED BY <1>2, <1>3

(* ImportData, as its callers use it *)
LEMMA Imports ==
  ASSUME NEW d \in Vectors, NEW start \in Positions, NEW n \in 1 .. NumBits,
         NEW s \in SUBSET Nat, start + n <= NumBits
  PROVE  /\ Imported(d, start, n, s) \in Vectors
         /\ Importable(start, n) =>
              BitsOf(Imported(d, start, n, s)) =
                (BitsOf(d) \ (start .. start + n - 1)) \cup
                  {p \in start .. start + n - 1 : p - start \in s}
<1> DEFINE whole == (n \div ByteBits) * ByteBits
           Value(p) == IF p \in whole .. n - 1 THEN p \in s
                       ELSE IF p \in start .. start + whole - 1 THEN p - start \in s
                       ELSE BitInWord(p) \in d[WordNum(p)]
           e == [w \in Words |-> {i \in InWord : Value(w * WordBits + i)}]
           range == start .. start + n - 1
<1>1. Imported(d, start, n, s) = e
  BY DEF Imported
<1>2. e \in Vectors
  BY DEF Vectors
<1>3. /\ start \in Nat /\ n \in Nat /\ NumBits \in Nat
      /\ range \subseteq Positions
  BY SizesAssumption DEF Positions
<1>4. n % ByteBits \in Nat /\ whole \in Nat /\ n = whole + (n % ByteBits)
  <2>1. ByteBits \in Nat \ {0}
    BY SizesAssumption
  <2>2. n \div ByteBits \in Nat /\ n % ByteBits \in 0 .. ByteBits - 1
        /\ n = (n \div ByteBits) * ByteBits + (n % ByteBits)
    BY <1>3, <2>1, Division
  <2> QED BY <2>1, <2>2
<1> HIDE DEF whole
<1>5. ASSUME NEW q \in Positions
      PROVE  Bit(e, q) <=> Value(q)
  <2>1. /\ WordNum(q) \in Words /\ BitInWord(q) \in InWord
        /\ q = WordNum(q) * WordBits + BitInWord(q)
    BY EachPlace
  <2>2. BitInWord(q) \in e[WordNum(q)] <=> Value(WordNum(q) * WordBits + BitInWord(q))
    BY <2>1
  <2> HIDE DEF e, Value
  <2> QED BY <2>1, <2>2 DEF Bit
<1> HIDE DEF e
<1>6. ASSUME Importable(start, n), NEW q \in Positions
      PROVE  Value(q) <=> IF q \in range THEN q - start \in s ELSE Bit(d, q)
  <2>1. q \in Nat
    BY <1>3 DEF Positions
  <2>2. CASE start = 0
    <3>1. q - start = q
      BY <2>1, <2>2
    <3>2. q \in range <=> q \in 0 .. whole - 1 \/ q \in whole .. n - 1
      BY <1>3, <1>4, <2>1, <2>2
    <3>3. q \in start .. start + whole - 1 <=> q \in 0 .. whole - 1
      BY <1>4, <2>1, <2>2
    <3> HIDE DEF range
    <3> QED BY <3>1, <3>2, <3>3 DEF Bit
  <2>3. CASE n % ByteBits = 0
    <3>1. whole = n /\ q \notin whole .. n - 1
      BY <1>3, <1>4, <2>1, <2>3
    <3> QED BY <3>1 DEF Bit
  <2> QED BY <1>6, <2>2, <2>3 DEF Importable
<1>7. ASSUME Importable(start, n)
      PROVE  BitsOf(e) = (BitsOf(d) \ range) \cup {p \in range : p - start \in s}
  <2>1. \A q \in Positions : Bit(e, q) <=> IF q \in range THEN q - start \in s ELSE Bit(d, q)
    BY <1>5, <1>6, <1>7
  <2> HIDE DEF range
  <2> QED BY <1>3, <2>1 DEF BitsOf
<1> QED BY <1>1, <1>2, <1>7

(* In every state an update would change the bits it is asked to. *)
LEMMA UpdatesSound ==
  ASSUME data \in Vectors
  PROVE  UpdatesExact
<1>1. \A from, to \in Positions :
        /\ BitsOf(Filled(data, from, to, TRUE)) =
             BitsOf(data) \cup (Lower(from, to) .. Higher(from, to))
        /\ BitsOf(Filled(data, from, to, FALSE)) =
             BitsOf(data) \ (Lower(from, to) .. Higher(from, to))
  BY FillsRange
<1>2. \A start \in Positions, n \in 1 .. NumBits, s \in Streams :
        Importable(start, n) /\ start + n <= NumBits =>
          BitsOf(Imported(data, start, n, s)) =
            (BitsOf(data) \ (start .. start + n - 1)) \cup
              {p \in start .. start + n - 1 : p - start \in s}
  BY OperandsAssumption, Imports
<1>3. BitsOf(Inverted(data)) = Positions \ BitsOf(data)
  BY WholeWords
<1>4. \A e \in Operands :
        /\ BitsOf(Anded(data, e)) = BitsOf(data) \cap BitsOf(e)
        /\ BitsOf(Ored(data, e)) = BitsOf(data) \cup BitsOf(e)
        /\ BitsOf(Xored(data, e)) = (BitsOf(data) \ BitsOf(e)) \cup (BitsOf(e) \ BitsOf(data))
  BY OperandsAssumption, WholeWords
<1> QED BY <1>1, <1>2, <1>3, <1>4 DEF UpdatesExact

-----------------------------------------------------------------------------
(* The invariant, and the scan *)

(* A scan that goes on has bits left, within the vector. *)
FinderInside ==
  finder.iState \in {"EInit", "EFound"} => finder.iCurrPos + finder.iSeqLen < finder.iLastPos

IInv == TypeOK /\ FinderInside

(* The invariant holds at first. *)
LEMMA InitHolds == Init => IInv
<1> SUFFICES ASSUME Init PROVE IInv
  OBVIOUS
<1>1. data \in Vectors
  BY DEF Init, Vectors
<1>2. finder = NoFinder /\ NumBits \in Nat
  BY SizesAssumption DEF Init
<1> QED BY <1>1, <1>2 DEF IInv, TypeOK, FinderInside, NoFinder

(* The operations on the vector keep the invariant, and are changes of the walk. *)
LEMMA ChangesHold ==
  ASSUME IInv, NEW d \in Vectors, Becomes(d)
  PROVE  IInv' /\ Walk!Change
<1>1. IInv'
  BY DEF IInv, TypeOK, FinderInside, Becomes
<1>2. Walk!Change
  <2>1. BitsOf(data)' \subseteq Positions
    BY DEF BitsOf, Positions
  <2> QED BY <2>1 DEF Walk!Change, Walk!Idle, Walk!Positions, Positions, Becomes, Idle, NoFinder
<1> QED BY <1>1, <1>2

(* The next run of a scan *)
LEMMA ExtentSound ==
  ASSUME IInv, FinderInside, finder.iState \in {"EInit", "EFound"}
  PROVE  LET pos == finder.iCurrPos + finder.iSeqLen
             x == Extent(pos)
             after == pos + x.iSeqLen
         IN  /\ pos \in Positions /\ pos < finder.iLastPos /\ finder.iLastPos \in 0 .. NumBits
             /\ x = [iState |-> x.iState, iCurrPos |-> pos, iSeqLen |-> x.iSeqLen,
                     iLastPos |-> finder.iLastPos, iVal |-> x.iVal]
             /\ x.iState \in {"EFound", "EFinished"} /\ x.iVal \in BOOLEAN
             /\ x.iSeqLen \in 1 .. finder.iLastPos - pos
             /\ x.iState = "EFound" => after < finder.iLastPos
             /\ x.iState = "EFinished" => after = finder.iLastPos
             /\ \A p \in pos .. after - 1 : Bit(data, p) = x.iVal
             /\ after < finder.iLastPos => Bit(data, after) # x.iVal
<1> DEFINE pos == finder.iCurrPos + finder.iSeqLen
           last == finder.iLastPos
           val == Bit(data, pos)
           other == FindToRight(data, pos, ~val)
           end == IF other = NotFound THEN NumBits ELSE other
           right == {p \in Positions : p > pos /\ Bit(data, p) = ~val}
           len == Lower(end, last) - pos
           state == IF other = NotFound \/ end >= last THEN "EFinished" ELSE "EFound"
<1>1. /\ data \in Vectors /\ pos \in Nat /\ last \in 0 .. NumBits /\ pos < last
      /\ NumBits \in Nat /\ pos \in Positions
  BY SizesAssumption DEF IInv, TypeOK, FinderInside, Positions
<1>2. Extent(pos) = [iState |-> state, iCurrPos |-> pos, iSeqLen |-> len,
                     iLastPos |-> last, iVal |-> val]
  BY DEF Extent
<1> HIDE DEF pos, last
<1>3. val \in BOOLEAN /\ \A p \in Positions : Bit(data, p) \in BOOLEAN
  BY <1>1, BitOfWord
<1>4. other = IF right = {} THEN NotFound ELSE Min(right)
  BY <1>1, <1>3, RightNearest
<1>5. /\ pos < end /\ end \in Nat /\ end <= NumBits
      /\ other = NotFound => end = NumBits
      /\ other # NotFound => end \in right
      /\ \A p \in pos .. end - 1 : Bit(data, p) = val
  <2>1. CASE right = {}
    <3>1. other = NotFound /\ end = NumBits
      BY <1>4, <2>1
    <3>2. \A p \in pos .. NumBits - 1 : p \in Positions /\ (p = pos \/ p > pos)
      BY <1>1 DEF Positions
    <3>3. \A p \in pos .. NumBits - 1 : Bit(data, p) = val
      BY <1>3, <2>1, <3>2
    <3> HIDE DEF end, other, val
    <3> QED BY <1>1, <3>1, <3>3
  <2>2. CASE right # {}
    <3>1. right \in SUBSET Nat
      BY <1>1 DEF Positions
    <3>2. Min(right) \in right /\ \A p \in right : Min(right) <= p
      BY <2>2, <3>1, MinOf
    <3>3. other = Min(right) /\ other # NotFound /\ end = Min(right)
      BY <1>4, <2>2, <3>1, <3>2 DEF NotFound
    <3>4. pos < Min(right) /\ Min(right) \in Nat /\ Min(right) <= NumBits
      BY <1>1, <3>2 DEF Positions
    <3>5. \A p \in pos .. Min(right) - 1 : p \in Positions /\ p \notin right /\ (p = pos \/ p > pos)
      BY <1>1, <3>2, <3>4 DEF Positions
    <3>6. \A p \in pos .. Min(right) - 1 : Bit(data, p) = val
      BY <1>3, <3>5
    <3> HIDE DEF end, other, val, right
    <3> QED BY <3>2, <3>3, <3>4, <3>6
  <2> QED BY <2>1, <2>2
<1> HIDE DEF other
<1>6. CASE state = "EFinished"
  <2>1. end >= last
    BY <1>1, <1>5, <1>6
  <2> HIDE DEF end
  <2>2. len = last - pos
    BY <1>1, <1>5, <2>1 DEF Lower
  <2>3. \A p \in pos .. pos + len - 1 : p \in pos .. end - 1
    BY <1>1, <1>5, <2>1, <2>2
  <2>4. len \in 1 .. last - pos /\ pos + len = last
    BY <1>1, <2>2
  <2> HIDE DEF len, val, state
  <2> QED BY <1>1, <1>2, <1>3, <1>5, <1>6, <2>3, <2>4 DEF pos, last
<1>7. CASE state = "EFound"
  <2>1. end < last /\ end \in right /\ other # NotFound
    BY <1>1, <1>5, <1>7
  <2> HIDE DEF end
  <2>2. len = end - pos
    BY <1>1, <1>5, <2>1 DEF Lower
  <2>3. len \in 1 .. last - pos /\ pos + len = end
    BY <1>1, <1>5, <2>1, <2>2
  <2>4. Bit(data, end) # val
    BY <1>3, <2>1
  <2> HIDE DEF len, val, state
  <2> QED BY <1>1, <1>2, <1>3, <1>5, <1>7, <2>1, <2>3, <2>4 DEF pos, last
<1> QED BY <1>6, <1>7

(* A step of a scan keeps the invariant, and is a step of the walk. *)
LEMMA StartHolds ==
  ASSUME IInv, NEW start \in Positions, NEW n \in 1 .. NumBits, InitFinder(start, n)
  PROVE  IInv' /\ Walk!StartScan
<1>1. NumBits \in Nat /\ start \in 0 .. NumBits - 1 /\ start + n <= NumBits
  BY SizesAssumption DEF InitFinder, Positions
<1>2. /\ finder = NoFinder /\ data' = data
      /\ finder' = [iState |-> "EInit", iCurrPos |-> start, iSeqLen |-> 0,
                    iLastPos |-> start + n, iVal |-> FALSE]
  BY DEF InitFinder, Idle
<1>3. IInv'
  BY <1>1, <1>2 DEF IInv, TypeOK, FinderInside
<1>4. Walk!StartScan
  <2>1. /\ start \in Walk!Positions /\ start + n <= NumBits
        /\ [next |-> finder'.iCurrPos + finder'.iSeqLen, last |-> finder'.iLastPos] =
             [next |-> start, last |-> start + n]
        /\ [start |-> finder'.iCurrPos, len |-> finder'.iSeqLen, val |-> finder'.iVal] =
             [start |-> start, len |-> 0, val |-> FALSE]
    BY <1>1, <1>2 DEF Walk!Positions
  <2>2. [next |-> finder.iCurrPos + finder.iSeqLen, last |-> finder.iLastPos] = Walk!Idle
    BY <1>2 DEF NoFinder, Walk!Idle
  <2>3. BitsOf(data)' = BitsOf(data)
    BY <1>2 DEF BitsOf, Bit
  <2> QED BY <2>1, <2>2, <2>3 DEF Walk!StartScan
<1> QED BY <1>3, <1>4

(* The next run is an extent of the walk. *)
LEMMA FindExtentHolds ==
  ASSUME IInv, FindExtent
  PROVE  IInv' /\ Walk!NextExtent
<1> DEFINE pos == finder.iCurrPos + finder.iSeqLen
           last == finder.iLastPos
           x == Extent(pos)
           after == pos + x.iSeqLen
<1>1. /\ finder' = x /\ data' = data /\ finder.iState \in {"EInit", "EFound"}
      /\ data \in Vectors /\ NumBits \in Nat
  BY SizesAssumption DEF FindExtent, IInv, TypeOK
<1>2. /\ pos \in Positions /\ pos < last /\ last \in 0 .. NumBits
      /\ x = [iState |-> x.iState, iCurrPos |-> pos, iSeqLen |-> x.iSeqLen,
              iLastPos |-> last, iVal |-> x.iVal]
      /\ x.iState \in {"EFound", "EFinished"} /\ x.iVal \in BOOLEAN
      /\ x.iSeqLen \in 1 .. last - pos
      /\ x.iState = "EFound" => after < last
      /\ x.iState = "EFinished" => after = last
      /\ \A p \in pos .. after - 1 : Bit(data, p) = x.iVal
      /\ after < last => Bit(data, after) # x.iVal
  BY <1>1, ExtentSound DEF IInv
<1> HIDE DEF x, pos, last
<1>3. /\ finder'.iState = x.iState /\ finder'.iCurrPos = pos /\ finder'.iSeqLen = x.iSeqLen
      /\ finder'.iLastPos = last /\ finder'.iVal = x.iVal
  BY <1>1, <1>2
<1>4. pos \in 0 .. NumBits - 1 /\ x.iSeqLen \in 0 .. NumBits /\ after <= last
  BY <1>1, <1>2 DEF Positions
<1>5. IInv'
  <2>1. x \in [iState : {"None", "EInit", "EFound", "EFinished"}, iVal : BOOLEAN,
               iCurrPos : 0 .. NumBits, iSeqLen : 0 .. NumBits, iLastPos : 0 .. NumBits]
    BY <1>1, <1>2, <1>4
  <2> QED BY <1>1, <1>2, <1>3, <1>4, <2>1 DEF IInv, TypeOK, FinderInside
<1>6. \A p \in pos .. after - 1 : p \in Positions /\ (p \in BitsOf(data)) = x.iVal
  <2>1. \A p \in pos .. after - 1 : p \in Positions
    BY <1>1, <1>2, <1>4 DEF Positions
  <2>2. \A p \in Positions : (p \in BitsOf(data)) = Bit(data, p)
    BY <1>1, BitOfWord DEF BitsOf
  <2> QED BY <1>2, <2>1, <2>2
<1>7. after < last => (after \in BitsOf(data)) # x.iVal
  <2>1. after < last => after \in Positions
    BY <1>1, <1>2, <1>4 DEF Positions
  <2>2. \A p \in Positions : (p \in BitsOf(data)) = Bit(data, p)
    BY <1>1, BitOfWord DEF BitsOf
  <2> QED BY <1>2, <2>1, <2>2
<1>8. Walk!NextExtent
  <2>1. pos = finder.iCurrPos + finder.iSeqLen /\ last = finder.iLastPos
    BY DEF pos, last
  <2>2. /\ [next |-> finder'.iCurrPos + finder'.iSeqLen, last |-> finder'.iLastPos] =
             [[next |-> pos, last |-> last] EXCEPT !.next = after]
        /\ [start |-> finder'.iCurrPos, len |-> finder'.iSeqLen, val |-> finder'.iVal] =
             [start |-> pos, len |-> x.iSeqLen, val |-> x.iVal]
    BY <1>3
  <2>3. BitsOf(data)' = BitsOf(data)
    BY <1>1 DEF BitsOf, Bit
  <2>4. Walk!NextExtent <=>
          /\ pos < last
          /\ \E len \in 1 .. last - pos, val \in BOOLEAN :
               /\ \A p \in pos .. pos + len - 1 : (p \in BitsOf(data)) = val
               /\ pos + len < last => (pos + len \in BitsOf(data)) # val
               /\ [start |-> finder'.iCurrPos, len |-> finder'.iSeqLen, val |-> finder'.iVal] =
                    [start |-> pos, len |-> len, val |-> val]
               /\ [next |-> finder'.iCurrPos + finder'.iSeqLen, last |-> finder'.iLastPos] =
                    [[next |-> pos, last |-> last] EXCEPT !.next = pos + len]
          /\ BitsOf(data)' = BitsOf(data)
    BY <2>1, Zenon DEF Walk!NextExtent
  <2>5. x.iSeqLen \in 1 .. last - pos /\ x.iVal \in BOOLEAN
    BY <1>2
  <2>6. \A p \in pos .. pos + x.iSeqLen - 1 : (p \in BitsOf(data)) = x.iVal
    <3>1. pos + x.iSeqLen - 1 = after - 1
      BY <1>1, <1>4
    <3> QED BY <1>6, <3>1
  <2>7. pos + x.iSeqLen < last => (pos + x.iSeqLen \in BitsOf(data)) # x.iVal
    BY <1>7
  <2> QED BY <1>2, <2>2, <2>3, <2>4, <2>5, <2>6, <2>7, Zenon
<1> QED BY <1>5, <1>8

(* The end of a scan is the end of the walk. *)
LEMMA EndHolds ==
  ASSUME IInv, FindsNoExtent
  PROVE  IInv' /\ Walk!EndScan
<1>1. finder.iState = "EFinished" /\ finder' = NoFinder /\ data' = data /\ NumBits \in Nat
  BY SizesAssumption DEF FindsNoExtent
<1>2. IInv'
  BY <1>1 DEF IInv, TypeOK, FinderInside, NoFinder
<1>3. finder.iCurrPos + finder.iSeqLen = finder.iLastPos
  BY <1>1 DEF IInv, TypeOK
<1>4. BitsOf(data)' = BitsOf(data)
  BY <1>1 DEF BitsOf, Bit
<1>5. /\ [next |-> finder'.iCurrPos + finder'.iSeqLen, last |-> finder'.iLastPos] = Walk!Idle
      /\ [start |-> finder'.iCurrPos, len |-> finder'.iSeqLen, val |-> finder'.iVal] =
           [start |-> 0, len |-> 0, val |-> FALSE]
  BY <1>1 DEF NoFinder, Walk!Idle
<1>6. Walk!EndScan
  BY <1>3, <1>4, <1>5 DEF Walk!EndScan
<1> QED BY <1>2, <1>6

(* Every step keeps the invariant, and is a step of the walk or leaves it as it is. *)
LEMMA NextHolds ==
  ASSUME IInv, [Next]_vars
  PROVE  IInv' /\ [Walk!Next]_(Walk!vars)
<1> USE DEF Walk!Next
<1>1. CASE UNCHANGED vars
  <2>1. IInv' /\ UNCHANGED <<BitsOf(data), finder>>
    BY <1>1 DEF IInv, TypeOK, FinderInside, vars, BitsOf, Bit
  <2> QED BY <2>1 DEF Walk!vars
<1>2. ASSUME NEW p \in Positions, InvertBit(p) \/ \E val \in BOOLEAN : SetBitVal(p, val)
      PROVE  IInv' /\ Walk!Change
  <2>1. PICK val \in BOOLEAN : InvertBit(p) \/ SetBitVal(p, val)
    BY <1>2
  <2>2. /\ data \in Vectors /\ Bit(data, p) \in BOOLEAN
    BY BitOfWord DEF IInv, TypeOK
  <2>3. WithBit(data, p, val) \in Vectors /\ WithBit(data, p, ~Bit(data, p)) \in Vectors
    BY <2>2, SetsBit
  <2> QED BY <2>1, <2>3, ChangesHold DEF InvertBit, SetBitVal
<1>3. ASSUME NEW val \in BOOLEAN, FillAll(val) PROVE IInv' /\ Walk!Change
  <2>1. [w \in Words |-> IF val THEN InWord ELSE {}] \in Vectors
    BY DEF Vectors
  <2> QED BY <1>3, <2>1, ChangesHold DEF FillAll
<1>4. ASSUME NEW from \in Positions, NEW to \in Positions, NEW val \in BOOLEAN,
             FillRange(from, to, val)
      PROVE  IInv' /\ Walk!Change
  <2>1. Filled(data, from, to, val) \in Vectors
    BY FillsRange DEF IInv, TypeOK
  <2> QED BY <1>4, <2>1, ChangesHold DEF FillRange
<1>5. CASE Invert
  <2>1. Inverted(data) \in Vectors
    BY WholeWords DEF IInv, TypeOK
  <2> QED BY <1>5, <2>1, ChangesHold DEF Invert
<1>6. ASSUME NEW rhs \in Operands, Assign(rhs) \/ And(rhs) \/ Or(rhs) \/ Xor(rhs)
      PROVE  IInv' /\ Walk!Change
  <2>1. /\ rhs \in Vectors /\ Anded(data, rhs) \in Vectors
        /\ Ored(data, rhs) \in Vectors /\ Xored(data, rhs) \in Vectors
    BY OperandsAssumption, WholeWords DEF IInv, TypeOK
  <2> QED BY <1>6, <2>1, ChangesHold DEF Assign, And, Or, Xor
<1>7. ASSUME NEW start \in Positions, NEW n \in 1 .. NumBits, NEW stream \in Streams,
             ImportData(start, n, stream)
      PROVE  IInv' /\ Walk!Change
  <2>1. Imported(data, start, n, stream) \in Vectors
    BY <1>7, OperandsAssumption, Imports DEF IInv, TypeOK, ImportData
  <2> QED BY <1>7, <2>1, ChangesHold DEF ImportData
<1>8. ASSUME NEW start \in Positions, NEW n \in 1 .. NumBits, InitFinder(start, n)
      PROVE  IInv' /\ Walk!StartScan
  BY <1>8, StartHolds
<1>9. CASE Scan
  BY <1>9, FindExtentHolds, EndHolds DEF Scan
<1> QED BY <1>1, <1>2, <1>3, <1>4, <1>5, <1>6, <1>7, <1>8, <1>9 DEF Next

-----------------------------------------------------------------------------
(* The theorems *)

(* The invariant is inductive: TypeOK, and a scan that goes on has bits left. *)
THEOREM Invariant == Spec => []IInv
<1>1. IInv /\ [Next]_vars => IInv'
  BY NextHolds
<1> QED BY <1>1, InitHolds, PTL DEF Spec

\* The words hold bits, and a finder never looks past the end of its range
\* (FindExtent).
THEOREM TypeCorrectness == Spec => []TypeOK
<1>1. IInv => TypeOK
  BY DEF IInv
<1> QED BY <1>1, Invariant, PTL

\* The tests on whole words see the bits of the vector and no padding
\* (IsFilledWith, operator==), for words and vectors of any size.
THEOREM TestsSeeBits == Spec => []TestsAreOfBits
<1>1. IInv => TestsAreOfBits
  BY TestsSound DEF IInv, TypeOK
<1> QED BY <1>1, Invariant, PTL

\* Find finds the nearest bit of the value on its side of the start, across any
\* number of words, and never a padding bit.
THEOREM SearchesFindNearest == Spec => []FindsNearest
<1>1. IInv => FindsNearest
  BY FindsSound DEF IInv, TypeOK
<1> QED BY <1>1, Invariant, PTL

\* Fills, imports and operations on two vectors change the bits they are asked to
\* and no other.
THEOREM UpdatesAreExact == Spec => []UpdatesExact
<1>1. IInv => UpdatesExact
  BY UpdatesSound DEF IInv, TypeOK
<1> QED BY <1>1, Invariant, PTL

\* A scan meets every bit of its range in exactly one run of equal bits, in order
\* (FindExtent).
THEOREM Refinement == Spec => ImplementsBitScan
<1>1. Init => Walk!Init
  BY InVector DEF Init, Walk!Init, Walk!Idle, NoFinder, BitsOf, Bit
<1>2. IInv /\ [Next]_vars => [Walk!Next]_(Walk!vars)
  BY NextHolds
<1> QED BY <1>1, <1>2, Invariant, PTL DEF Spec, Walk!Spec, ImplementsBitScan
=============================================================================
