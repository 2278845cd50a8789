----------------------------- MODULE BitVector -----------------------------
(***************************************************************************)
(* CBitVector and TBitExtentFinder (utils.cpp, utils.inl, utils.h): an     *)
(* array of bits kept in words, the bulk operations on it, the searches    *)
(* the bitmaps of blocks are walked with.                                  *)
(*                                                                         *)
(* A word is the set of the positions of its '1' bits.  The last word may  *)
(* have padding bits behind the end of the vector; they are part of the    *)
(* state, for operations on whole words change and copy them.              *)
(***************************************************************************)
EXTENDS Integers, FiniteSets, FiniteSetsExt

CONSTANTS
  WordBits,   \* bits in a word, 32 in the code
  ByteBits,   \* bits in a byte, 8 in the code
  NumBits,    \* size of the vector
  Operands,   \* other vectors, for the operations on two
  Streams     \* data to import

ASSUME SizesAssumption ==
  /\ ByteBits \in Nat \ {0}
  /\ WordBits \in Nat \ {0} /\ WordBits % ByteBits = 0
  /\ NumBits \in Nat \ {0}

Positions == 0 .. NumBits - 1
InWord == 0 .. WordBits - 1
WordNum(p) == p \div WordBits
BitInWord(p) == p % WordBits
LastWord == WordNum(NumBits - 1)
Words == 0 .. LastWord
Vectors == [Words -> SUBSET InWord]

ASSUME OperandsAssumption == Operands \subseteq Vectors /\ Streams \subseteq SUBSET Nat

VARIABLES data,   \* ipData
          finder  \* the TBitExtentFinder of the scan in progress

vars == <<data, finder>>

NotFound == -1
NoFinder == [iState |-> "None", iCurrPos |-> 0, iSeqLen |-> 0, iLastPos |-> 0, iVal |-> FALSE]
Idle == finder = NoFinder

-----------------------------------------------------------------------------
(* Bits and masks *)

Bit(d, p) == BitInWord(p) \in d[WordNum(p)]
BitsOf(d) == {p \in Positions : Bit(d, p)}

(* (K_FFFF >> shift) << shift; the processor shifts by the low bits of shift *)
HighBits(shift) == {i \in InWord : i >= shift % WordBits}

LowBits_NoGuard(shift) == InWord \ HighBits(shift)

(* ~((K_FFFF >> shift) << shift), unless the shift is the width of a word *)
LowBits(shift) == IF shift < WordBits THEN InWord \ HighBits(shift) ELSE InWord

MaskLastWord(word) ==
  LET shift == (WordBits - (NumBits % WordBits)) % WordBits
  IN  {i \in word : i + shift < WordBits}

(* The bits of word w in the range from lo to hi, by mask1 and mask2 *)
RangeMask(lo, hi, w) ==
  LET first == WordNum(lo)
      last == WordNum(hi)
      mask1 == HighBits(BitInWord(lo))
      mask2 == LowBits(1 + BitInWord(hi))
  IN  IF w < first \/ w > last THEN {}
      ELSE (IF w = first THEN mask1 ELSE InWord) \cap (IF w = last THEN mask2 ELSE InWord)

Lower(i, j) == IF i > j THEN j ELSE i
Higher(i, j) == IF i > j THEN i ELSE j

-----------------------------------------------------------------------------
(* What the const operations compute *)

IsFilledWith(d, val) ==
  /\ \A w \in Words \ {LastWord} : d[w] = IF val THEN InWord ELSE {}
  /\ MaskLastWord(d[LastWord]) = IF val THEN MaskLastWord(InWord) ELSE {}

(* A range of one bit: the bit is returned, whatever value was asked for. *)
RangeIsFilledWith(d, from, to, val) ==
  IF from = to THEN Bit(d, from)
  ELSE \A w \in Words :
         LET mask == RangeMask(Lower(from, to), Higher(from, to), w)
         IN  d[w] \cap mask = IF val THEN mask ELSE {}

Equal_WholeWords(d, e) == d = e

(* operator==: whole words, then the rest of the last one under a mask *)
Equal(d, e) ==
  /\ \A w \in 0 .. (NumBits \div WordBits) - 1 : d[w] = e[w]
  /\ NumBits % WordBits # 0 =>
       LET mask == 0 .. (NumBits % WordBits) - 1
       IN  d[LastWord] \cap mask = e[LastWord] \cap mask

(* What is looked for in word w; a search to the right masks the last word. *)
Hits(d, w, val) == IF val THEN d[w] ELSE InWord \ d[w]

HitsRight_NoMask(d, w, val) == Hits(d, w, val)

HitsRight(d, w, val) ==
  IF w = LastWord THEN MaskLastWord(Hits(d, w, val)) ELSE Hits(d, w, val)

FindToRight_NextWordOnly(d, start, val) ==
  LET from == start + 1
      here == HitsRight(d, WordNum(from), val) \cap HighBits(BitInWord(from))
      next == IF WordNum(from) < LastWord THEN HitsRight(d, WordNum(from) + 1, val) ELSE {}
      At(w, hits) == w * WordBits + Min(hits)
  IN  IF start >= NumBits - 1 THEN NotFound
      ELSE IF here # {} THEN At(WordNum(from), here)
      ELSE IF next # {} THEN At(WordNum(from) + 1, next)
      ELSE NotFound

FindToRight(d, start, val) ==
  LET from == start + 1
      here == HitsRight(d, WordNum(from), val) \cap HighBits(BitInWord(from))
      higher == {w \in WordNum(from) + 1 .. LastWord : HitsRight(d, w, val) # {}}
      At(w, hits) == w * WordBits + Min(hits)
  IN  IF start >= NumBits - 1 THEN NotFound
      ELSE IF here # {} THEN At(WordNum(from), here)
      ELSE IF higher # {} THEN At(Min(higher), HitsRight(d, Min(higher), val))
      ELSE NotFound

FindToLeft(d, start, val) ==
  LET from == start - 1
      here == Hits(d, WordNum(from), val) \cap LowBits(1 + BitInWord(from))
      lower == {w \in 0 .. WordNum(from) - 1 : Hits(d, w, val) # {}}
      At(w, hits) == w * WordBits + Max(hits)
  IN  IF start = 0 THEN NotFound
      ELSE IF here # {} THEN At(WordNum(from), here)
      ELSE IF lower # {} THEN At(Max(lower), Hits(d, Max(lower), val))
      ELSE NotFound

-----------------------------------------------------------------------------
(* What the other operations make of the words *)

WithBit(d, p, val) ==
  [d EXCEPT ![WordNum(p)] = IF val THEN @ \cup {BitInWord(p)} ELSE @ \ {BitInWord(p)}]

Filled(d, from, to, val) ==
  IF from = to THEN WithBit(d, from, val)
  ELSE [w \in Words |->
          LET mask == RangeMask(Lower(from, to), Higher(from, to), w)
          IN  IF val THEN d[w] \cup mask ELSE d[w] \ mask]

Imported_NoTail(d, start, n, stream) ==
  LET whole == (n \div ByteBits) * ByteBits
      Value(p) == IF p \in start .. start + whole - 1 THEN p - start \in stream
                  ELSE BitInWord(p) \in d[WordNum(p)]
  IN  [w \in Words |-> {i \in InWord : Value(w * WordBits + i)}]

(* Whole bytes go to their place; the trailing bits of the stream go to the *)
(* byte with the number of the whole bytes, counted from the vector's start. *)
Imported(d, start, n, stream) ==
  LET whole == (n \div ByteBits) * ByteBits
      Value(p) == IF p \in whole .. n - 1 THEN p \in stream
                  ELSE IF p \in start .. start + whole - 1 THEN p - start \in stream
                  ELSE BitInWord(p) \in d[WordNum(p)]
  IN  [w \in Words |-> {i \in InWord : Value(w * WordBits + i)}]

Inverted(d) == [w \in Words |-> InWord \ d[w]]
Anded(d, e) == [w \in Words |-> d[w] \cap e[w]]
Ored(d, e) == [w \in Words |-> d[w] \cup e[w]]
Xored(d, e) == [w \in Words |-> (d[w] \ e[w]) \cup (e[w] \ d[w])]

-----------------------------------------------------------------------------
(* Actions: the operations that change the vector, and the scan *)

Init == data = [w \in Words |-> {}] /\ finder = NoFinder

Becomes(d) == Idle /\ data' = d /\ UNCHANGED finder

SetBitVal(p, val) == Becomes(WithBit(data, p, val))
InvertBit(p) == Becomes(WithBit(data, p, ~Bit(data, p)))
FillAll(val) == Becomes([w \in Words |-> IF val THEN InWord ELSE {}])
FillRange(from, to, val) == Becomes(Filled(data, from, to, val))
Invert == Becomes(Inverted(data))

Assign(rhs) == Becomes(rhs)
And(rhs) == Becomes(Anded(data, rhs))
Or(rhs) == Becomes(Ored(data, rhs))
Xor(rhs) == Becomes(Xored(data, rhs))

ImportData(start, n, stream) ==
  /\ start % ByteBits = 0
  /\ start + n <= NumBits
  /\ Becomes(Imported(data, start, n, stream))

InitFinder(start, n) ==
  /\ Idle
  /\ start + n <= NumBits
  /\ finder' = [iState |-> "EInit", iCurrPos |-> start, iSeqLen |-> 0,
                iLastPos |-> start + n, iVal |-> FALSE]
  /\ UNCHANGED data

Extent_NoClip(pos) ==
  LET val == Bit(data, pos)
      other == FindToRight(data, pos, ~val)
      end == IF other = NotFound THEN NumBits ELSE other
  IN  [iState |-> IF other = NotFound \/ end >= finder.iLastPos THEN "EFinished" ELSE "EFound",
       iCurrPos |-> pos, iSeqLen |-> end - pos, iLastPos |-> finder.iLastPos, iVal |-> val]

Extent_NotFinished(pos) ==
  LET val == Bit(data, pos)
      other == FindToRight(data, pos, ~val)
      end == IF other = NotFound THEN finder.iLastPos ELSE Lower(other, finder.iLastPos)
  IN  [iState |-> "EFound", iCurrPos |-> pos, iSeqLen |-> end - pos - 1,
       iLastPos |-> finder.iLastPos, iVal |-> val]

(* The run that begins at pos, by a search for the first other bit *)
Extent(pos) ==
  LET val == Bit(data, pos)
      other == FindToRight(data, pos, ~val)
      end == IF other = NotFound THEN NumBits ELSE other
  IN  [iState |-> IF other = NotFound \/ end >= finder.iLastPos THEN "EFinished" ELSE "EFound",
       iCurrPos |-> pos,
       iSeqLen |-> Lower(end, finder.iLastPos) - pos,
       iLastPos |-> finder.iLastPos,
       iVal |-> val]

FindExtent ==
  /\ finder.iState \in {"EInit", "EFound"}
  /\ finder' = Extent(finder.iCurrPos + finder.iSeqLen)
  /\ UNCHANGED data

(* FindExtent returns false, the loop that called it ends. *)
FindsNoExtent ==
  /\ finder.iState = "EFinished"
  /\ finder' = NoFinder
  /\ UNCHANGED data

Scan == FindExtent \/ FindsNoExtent

(* What ImportData is for: its callers import from the first bit on, and     *)
(* anywhere else only whole bytes get where they belong.                     *)
Importable(start, n) == start = 0 \/ n % ByteBits = 0

Next ==
  \/ \E p \in Positions : InvertBit(p) \/ \E val \in BOOLEAN : SetBitVal(p, val)
  \/ \E val \in BOOLEAN : FillAll(val)
  \/ \E from, to \in Positions, val \in BOOLEAN : FillRange(from, to, val)
  \/ Invert
  \/ \E rhs \in Operands : Assign(rhs) \/ And(rhs) \/ Or(rhs) \/ Xor(rhs)
  \/ \E start \in Positions, n \in 1 .. NumBits, stream \in Streams :
       Importable(start, n) /\ ImportData(start, n, stream)
  \/ \E start \in Positions, n \in 1 .. NumBits : InitFinder(start, n)
  \/ Scan

Spec == Init /\ [][Next]_vars
FairSpec == Spec /\ WF_vars(Scan)

-----------------------------------------------------------------------------
(* Properties *)

(* The words hold bits, and a finder never looks past the end of its range,  *)
(* also when the run it found goes on behind it (FindExtent, utils.cpp:1095). *)
TypeOK ==
  /\ data \in Vectors
  /\ finder \in [iState : {"None", "EInit", "EFound", "EFinished"}, iVal : BOOLEAN,
                 iCurrPos : 0 .. NumBits, iSeqLen : 0 .. NumBits, iLastPos : 0 .. NumBits]
  /\ finder.iCurrPos + finder.iSeqLen <= finder.iLastPos
  /\ finder.iState = "EFinished" => finder.iCurrPos + finder.iSeqLen = finder.iLastPos

(* What the const operations compute depends on the words only, which no scan  *)
(* changes, and is checked where there is none.                                *)
(*                                                                             *)
(* The tests on whole words see bits and no padding, which Fill and Invert set *)
(* and assignments copy: IsFilledWith (utils.cpp:570, 610) says whether all    *)
(* bits of the vector, or of a range of two bits or more, have the value;      *)
(* operator== (utils.cpp:783) compares the bits of two vectors.                *)
TestsAreOfBits ==
  Idle =>
    /\ \A val \in BOOLEAN :
         /\ IsFilledWith(data, val) <=> \A p \in Positions : Bit(data, p) = val
         /\ \A from, to \in Positions :
              from # to =>
                (RangeIsFilledWith(data, from, to, val) <=>
                   \A p \in Lower(from, to) .. Higher(from, to) : Bit(data, p) = val)
    /\ \A e \in Operands : Equal(data, e) <=> \A p \in Positions : Bit(data, p) = Bit(e, p)

(* Find (utils.cpp:884) finds the nearest bit of the value on its side of the *)
(* start, across words, and never a padding bit.                              *)
FindsNearest ==
  Idle => \A start \in Positions, val \in BOOLEAN :
    LET right == {p \in Positions : p > start /\ Bit(data, p) = val}
        left == {p \in Positions : p < start /\ Bit(data, p) = val}
    IN  /\ FindToRight(data, start, val) = IF right = {} THEN NotFound ELSE Min(right)
        /\ FindToLeft(data, start, val) = IF left = {} THEN NotFound ELSE Max(left)

(* Every operation on words changes the bits it is asked to, and no other:    *)
(* fills of ranges in one word, two words or more (Fill, utils.cpp:477),      *)
(* imports that end inside a byte (ImportData, utils.cpp:704), combinations   *)
(* with vectors whose padding differs.                                        *)
UpdatesExact ==
  LET bits == BitsOf(data)
      Span(from, to) == Lower(from, to) .. Higher(from, to)
  IN  Idle =>
        /\ \A from, to \in Positions :
             /\ BitsOf(Filled(data, from, to, TRUE)) = bits \cup Span(from, to)
             /\ BitsOf(Filled(data, from, to, FALSE)) = bits \ Span(from, to)
        /\ \A start \in Positions, n \in 1 .. NumBits, s \in Streams :
             Importable(start, n) /\ start + n <= NumBits =>
               BitsOf(Imported(data, start, n, s)) =
                 (bits \ (start .. start + n - 1)) \cup
                   {p \in start .. start + n - 1 : p - start \in s}
        /\ BitsOf(Inverted(data)) = Positions \ bits
        /\ \A e \in Operands :
             /\ BitsOf(Anded(data, e)) = bits \cap BitsOf(e)
             /\ BitsOf(Ored(data, e)) = bits \cup BitsOf(e)
             /\ BitsOf(Xored(data, e)) = (bits \ BitsOf(e)) \cup (BitsOf(e) \ bits)

(* A scan implements the walk: it meets every bit of its range in exactly one *)
(* run of equal bits, in order (FindExtent, utils.cpp:1076).                  *)
Walk == INSTANCE BitScan WITH
  bits <- BitsOf(data),
  scan <- [next |-> finder.iCurrPos + finder.iSeqLen, last |-> finder.iLastPos],
  extent <- [start |-> finder.iCurrPos, len |-> finder.iSeqLen, val |-> finder.iVal]

ImplementsBitScan == Walk!Spec

(* A loop over FindExtent ends. *)
ScanEnds == ~Idle ~> Idle
=============================================================================
