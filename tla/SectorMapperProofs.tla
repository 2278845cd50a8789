------------------------- MODULE SectorMapperProofs -------------------------
(***************************************************************************)
(* Proofs that the bitmap cache of SectorMapper is coherent and implements *)
(* AllocBitmaps, for any set of blocks, any number of bits, any capacity   *)
(* of the cache, with and without TRIM and input/output failures.          *)
(***************************************************************************)
EXTENDS SectorMapper, SequenceTheorems, TLAPS

\* The inductive invariant: the types, and what makes the cache coherent.
IInv == TypeOK /\ CacheCoherent /\ DirtyTracked /\ ValidPagesListed

-----------------------------------------------------------------------------
(***************************************************************************)
(* The list                                                                *)
(***************************************************************************)

\* Removing an element leaves a sequence with the elements at the other
\* positions.
LEMMA WithoutProperties ==
    ASSUME NEW T, NEW s \in Seq(T), NEW i \in 1 .. Len(s)
    PROVE  /\ Without(s, i) \in Seq(T)
           /\ Len(Without(s, i)) = Len(s) - 1
           /\ \A j \in 1 .. Len(s) - 1 :
                Without(s, i)[j] = IF j < i THEN s[j] ELSE s[j + 1]
<1> DEFINE front == SubSeq(s, 1, i - 1)
           back == SubSeq(s, i + 1, Len(s))
<1>1. /\ front \in Seq(T)
      /\ Len(front) = i - 1
      /\ \A j \in 1 .. i - 1 : front[j] = s[j]
  BY SubSeqProperties
<1>2. /\ back \in Seq(T)
      /\ Len(back) = Len(s) - i
      /\ \A j \in 1 .. Len(s) - i : back[j] = s[i + j]
  BY SubSeqProperties
<1> HIDE DEF front, back
<1>3. /\ front \o back \in Seq(T)
      /\ Len(front \o back) = Len(s) - 1
      /\ \A j \in 1 .. Len(s) - 1 :
           (front \o back)[j] = IF j < i THEN s[j] ELSE s[j + 1]
  <2>1. /\ front \o back \in Seq(T)
        /\ Len(front \o back) = (i - 1) + (Len(s) - i)
        /\ \A j \in 1 .. (i - 1) + (Len(s) - i) :
             (front \o back)[j] = IF j <= i - 1 THEN front[j] ELSE back[j - (i - 1)]
    <3>1. /\ front \o back \in Seq(T)
          /\ Len(front \o back) = Len(front) + Len(back)
          /\ \A j \in 1 .. Len(front) + Len(back) :
               (front \o back)[j] = IF j <= Len(front) THEN front[j] ELSE back[j - Len(front)]
      BY <1>1, <1>2, ConcatProperties, Zenon
    <3>2. QED
      BY <3>1, <1>1, <1>2, Zenon
  <2>2. /\ i \in Nat /\ Len(s) \in Nat
        /\ (i - 1) + (Len(s) - i) = Len(s) - 1
    OBVIOUS
  <2>3. ASSUME NEW j \in 1 .. Len(s) - 1, j < i
        PROVE  (front \o back)[j] = s[j]
    BY <1>1, <2>1, <2>2, <2>3
  <2>4. ASSUME NEW j \in 1 .. Len(s) - 1, ~(j < i)
        PROVE  (front \o back)[j] = s[j + 1]
    <3>1. (front \o back)[j] = back[j - (i - 1)]
      BY <2>1, <2>2, <2>4
    <3>2. j - (i - 1) \in 1 .. Len(s) - i /\ i + (j - (i - 1)) = j + 1
      BY <2>2, <2>4
    <3>3. QED
      BY <1>2, <3>1, <3>2
  <2>5. QED
    BY <2>1, <2>2, <2>3, <2>4
<1>4. QED
  BY <1>3 DEF Without, front, back

\* Putting an element in front of a sequence.
LEMMA PushFrontProperties ==
    ASSUME NEW T, NEW s \in Seq(T), NEW e \in T
    PROVE  /\ <<e>> \o s \in Seq(T)
           /\ Len(<<e>> \o s) = Len(s) + 1
           /\ (<<e>> \o s)[1] = e
           /\ \A j \in 1 .. Len(s) : (<<e>> \o s)[j + 1] = s[j]
<1>1. <<e>> \in Seq(T) /\ Len(<<e>>) = 1 /\ <<e>>[1] = e /\ Len(s) \in Nat
  OBVIOUS
<1>2. /\ <<e>> \o s \in Seq(T)
      /\ Len(<<e>> \o s) = 1 + Len(s)
      /\ \A j \in 1 .. 1 + Len(s) :
           (<<e>> \o s)[j] = IF j <= 1 THEN <<e>>[j] ELSE s[j - 1]
  <2>1. /\ <<e>> \o s \in Seq(T)
        /\ Len(<<e>> \o s) = Len(<<e>>) + Len(s)
        /\ \A j \in 1 .. Len(<<e>>) + Len(s) :
             (<<e>> \o s)[j] = IF j <= Len(<<e>>) THEN <<e>>[j] ELSE s[j - Len(<<e>>)]
    BY <1>1, ConcatProperties, Zenon
  <2>2. QED
    BY <2>1, <1>1, Zenon
<1>3. ASSUME NEW j \in 1 .. Len(s)
      PROVE  (<<e>> \o s)[j + 1] = s[j]
  <2>1. j + 1 \in 1 .. 1 + Len(s) /\ ~(j + 1 <= 1) /\ (j + 1) - 1 = j
    BY <1>1
  <2>2. QED
    BY <1>2, <2>1
<1>4. QED
  BY <1>1, <1>2, <1>3

\* The list after a populate: b is in it, and nobody but the victim left.
LEMMA ListWithProperties ==
    ASSUME iPages \in Seq(Blocks), NEW b \in Blocks
    PROVE  /\ ListWith(b) \in Seq(Blocks)
           /\ \E i \in 1 .. Len(ListWith(b)) : ListWith(b)[i] = b
           /\ \A x \in Blocks : Cached(x) /\ ~Victim(b, x) =>
                \E i \in 1 .. Len(ListWith(b)) : ListWith(b)[i] = x
<1>1. Len(iPages) \in Nat
  OBVIOUS
<1>2. ASSUME NEW s \in Seq(Blocks), ListWith(b) = <<b>> \o s
      PROVE  /\ ListWith(b) \in Seq(Blocks)
             /\ \E i \in 1 .. Len(ListWith(b)) : ListWith(b)[i] = b
             /\ \A j \in 1 .. Len(s) :
                  \E i \in 1 .. Len(ListWith(b)) : ListWith(b)[i] = s[j]
  <2>1. /\ <<b>> \o s \in Seq(Blocks)
        /\ Len(<<b>> \o s) = Len(s) + 1
        /\ (<<b>> \o s)[1] = b
        /\ \A j \in 1 .. Len(s) : (<<b>> \o s)[j + 1] = s[j]
    BY PushFrontProperties
  <2>2. Len(s) \in Nat
    OBVIOUS
  <2>3. 1 \in 1 .. Len(<<b>> \o s)
    BY <2>1, <2>2
  <2>4. ASSUME NEW j \in 1 .. Len(s)
        PROVE  \E i \in 1 .. Len(<<b>> \o s) : (<<b>> \o s)[i] = s[j]
    <3>1. j + 1 \in 1 .. Len(<<b>> \o s)
      BY <2>1, <2>2
    <3>2. QED
      BY <2>1, <3>1
  <2>5. QED
    BY <1>2, <2>1, <2>3, <2>4
<1>3. CASE Cached(b)
  <2>1. Position(b) \in 1 .. Len(iPages) /\ iPages[Position(b)] = b
    BY <1>3 DEF Cached, Position
  <2>2. PICK k \in 1 .. Len(iPages) : k = Position(b) /\ iPages[k] = b
    BY <2>1
  <2>3. /\ Without(iPages, k) \in Seq(Blocks)
        /\ Len(Without(iPages, k)) = Len(iPages) - 1
        /\ \A j \in 1 .. Len(iPages) - 1 :
             Without(iPages, k)[j] = IF j < k THEN iPages[j] ELSE iPages[j + 1]
    BY WithoutProperties, Zenon
  <2>4. ListWith(b) = <<b>> \o Without(iPages, k)
    BY <1>3, <2>2 DEF ListWith
  <2>5. ASSUME NEW x \in Blocks, Cached(x), x # b
        PROVE  \E j \in 1 .. Len(Without(iPages, k)) : Without(iPages, k)[j] = x
    <3>1. PICK i \in 1 .. Len(iPages) : iPages[i] = x
      BY <2>5 DEF Cached
    <3>2. CASE i < k
      BY <1>1, <2>3, <3>1, <3>2
    <3>3. CASE i > k
      <4>1. i - 1 \in 1 .. Len(iPages) - 1 /\ ~(i - 1 < k) /\ (i - 1) + 1 = i
        BY <1>1, <3>3
      <4>2. QED
        BY <2>3, <3>1, <4>1
    <3>4. QED
      BY <1>1, <2>2, <2>5, <3>1, <3>2, <3>3
  <2>6. QED
    BY <1>2, <2>3, <2>4, <2>5
<1>4. CASE MustEvict(b)
  <2>1. Len(iPages) \in 1 .. Len(iPages)
    BY <1>1, <1>4, MaxPagesAssumption DEF MustEvict
  <2>2. /\ Without(iPages, Len(iPages)) \in Seq(Blocks)
        /\ Len(Without(iPages, Len(iPages))) = Len(iPages) - 1
        /\ \A j \in 1 .. Len(iPages) - 1 :
             Without(iPages, Len(iPages))[j] =
               IF j < Len(iPages) THEN iPages[j] ELSE iPages[j + 1]
    BY <2>1, WithoutProperties, Zenon
  <2>3. ListWith(b) = <<b>> \o Without(iPages, Len(iPages))
    BY <1>4 DEF ListWith, MustEvict
  <2>4. ASSUME NEW x \in Blocks, Cached(x), ~Victim(b, x)
        PROVE  \E j \in 1 .. Len(Without(iPages, Len(iPages))) :
                 Without(iPages, Len(iPages))[j] = x
    <3>1. PICK i \in 1 .. Len(iPages) : iPages[i] = x
      BY <2>4 DEF Cached
    <3>2. i # Len(iPages)
      BY <1>4, <2>4, <3>1 DEF Victim
    <3>3. i \in 1 .. Len(iPages) - 1 /\ i < Len(iPages)
      BY <1>1, <3>2
    <3>4. QED
      BY <2>2, <3>1, <3>3
  <2>5. QED
    BY <1>2, <2>2, <2>3, <2>4
<1>5. CASE ~Cached(b) /\ ~MustEvict(b)
  <2>1. ListWith(b) = <<b>> \o iPages
    BY <1>5 DEF ListWith
  <2>2. QED
    BY <1>2, <2>1 DEF Cached
<1>6. QED
  BY <1>3, <1>4, <1>5

\* The list after a populate has one page per block still, and no more pages
\* than the cache has room for.
LEMMA ListWithWellFormed ==
    ASSUME iPages \in Seq(Blocks), ListWellFormed, NEW b \in Blocks
    PROVE  /\ Len(ListWith(b)) <= MaxPages
           /\ \A i, j \in 1 .. Len(ListWith(b)) : ListWith(b)[i] = ListWith(b)[j] => i = j
<1>1. /\ Len(iPages) \in Nat /\ MaxPages \in Nat \ {0} /\ Len(iPages) <= MaxPages
      /\ \A i, j \in 1 .. Len(iPages) : iPages[i] = iPages[j] => i = j
  BY MaxPagesAssumption DEF ListWellFormed
<1>2. ASSUME NEW s \in Seq(Blocks), ListWith(b) = <<b>> \o s, Len(s) < MaxPages,
             \A i \in 1 .. Len(s) : s[i] # b,
             \A i, j \in 1 .. Len(s) : s[i] = s[j] => i = j
      PROVE  /\ Len(ListWith(b)) <= MaxPages
             /\ \A i, j \in 1 .. Len(ListWith(b)) :
                  ListWith(b)[i] = ListWith(b)[j] => i = j
  <2> DEFINE t == <<b>> \o s
  <2>1. /\ Len(t) = Len(s) + 1 /\ t[1] = b
        /\ \A j \in 1 .. Len(s) : t[j + 1] = s[j]
    BY PushFrontProperties
  <2>2. Len(s) \in Nat
    OBVIOUS
  <2> HIDE DEF t
  <2>3. ASSUME NEW i \in 1 .. Len(t), i # 1
        PROVE  i - 1 \in 1 .. Len(s) /\ t[i] = s[i - 1]
    <3>1. i - 1 \in 1 .. Len(s) /\ (i - 1) + 1 = i
      BY <2>1, <2>2, <2>3
    <3>2. QED
      BY <2>1, <3>1
  <2>4. ASSUME NEW i \in 1 .. Len(t), NEW j \in 1 .. Len(t), t[i] = t[j]
        PROVE  i = j
    <3>1. CASE i = 1 \/ j = 1
      BY <1>2, <2>1, <2>3, <2>4, <3>1
    <3>2. CASE i # 1 /\ j # 1
      <4>1. i - 1 = j - 1
        BY <1>2, <2>3, <2>4, <3>2
      <4>2. QED
        BY <2>1, <2>2, <4>1
    <3>3. QED
      BY <3>1, <3>2
  <2>5. Len(t) <= MaxPages
    BY <1>1, <1>2, <2>1, <2>2
  <2>6. QED
    BY <1>2, <2>4, <2>5 DEF t
<1>3. ASSUME NEW k \in 1 .. Len(iPages), ListWith(b) = <<b>> \o Without(iPages, k),
             \A i \in 1 .. Len(iPages) : iPages[i] = b => i = k
      PROVE  /\ Len(ListWith(b)) <= MaxPages
             /\ \A i, j \in 1 .. Len(ListWith(b)) :
                  ListWith(b)[i] = ListWith(b)[j] => i = j
  <2> DEFINE s == Without(iPages, k)
             from(j) == IF j < k THEN j ELSE j + 1
  <2>1. /\ s \in Seq(Blocks) /\ Len(s) = Len(iPages) - 1
        /\ \A j \in 1 .. Len(iPages) - 1 : s[j] = IF j < k THEN iPages[j] ELSE iPages[j + 1]
    BY WithoutProperties, Zenon
  <2> HIDE DEF s
  <2>2. \A j \in 1 .. Len(s) : /\ from(j) \in 1 .. Len(iPages) /\ from(j) # k
                               /\ s[j] = iPages[from(j)]
    BY <1>1, <2>1
  <2>3. \A i, j \in 1 .. Len(s) : from(i) = from(j) => i = j
    BY <1>1, <2>1
  <2> HIDE DEF from
  <2>4. Len(s) < MaxPages
    BY <1>1, <2>1
  <2>5. \A i, j \in 1 .. Len(s) : s[i] = s[j] => i = j
    BY <1>1, <2>2, <2>3
  <2>6. \A i \in 1 .. Len(s) : s[i] # b
    BY <1>3, <2>2
  <2>7. ListWith(b) = <<b>> \o s
    BY <1>3 DEF s
  <2>8. QED
    BY <1>2, <2>1, <2>4, <2>5, <2>6, <2>7
<1>4. CASE Cached(b)
  <2>1. Position(b) \in 1 .. Len(iPages) /\ iPages[Position(b)] = b
    BY <1>4 DEF Cached, Position
  <2>2. ListWith(b) = <<b>> \o Without(iPages, Position(b))
    BY <1>4 DEF ListWith
  <2>3. QED
    BY <1>1, <1>3, <2>1, <2>2
<1>5. CASE MustEvict(b)
  <2>1. Len(iPages) \in 1 .. Len(iPages)
    BY <1>1, <1>5 DEF MustEvict
  <2>2. ListWith(b) = <<b>> \o Without(iPages, Len(iPages))
    BY <1>5 DEF ListWith, MustEvict
  <2>3. \A i \in 1 .. Len(iPages) : iPages[i] # b
    BY <1>5 DEF MustEvict, Cached
  <2>4. QED
    BY <1>3, <2>1, <2>2, <2>3
<1>6. CASE ~Cached(b) /\ ~MustEvict(b)
  <2>1. ListWith(b) = <<b>> \o iPages
    BY <1>6 DEF ListWith
  <2>2. Len(iPages) < MaxPages
    BY <1>1, <1>6 DEF MustEvict
  <2>3. \A i \in 1 .. Len(iPages) : iPages[i] # b
    BY <1>6 DEF Cached
  <2>4. QED
    BY <1>1, <1>2, <2>1, <2>2, <2>3
<1>7. QED
  BY <1>4, <1>5, <1>6

-----------------------------------------------------------------------------
(***************************************************************************)
(* Pages                                                                   *)
(***************************************************************************)

ValidStates == {"ESB_Clean", "ESB_Dirty", "ESB_FullyMapped", "ESB_FullyUnmapped"}

\* There is at least one bit, so no bitmap is both empty and full.
LEMMA BitsNotEmpty == Bits # {}
  BY NumBitsAssumption DEF Bits

\* A bitmap read from the file gives a page that is not dirty and tells it.
LEMMA ImportDataProperties ==
    ASSUME NEW m \in SUBSET Bits
    PROVE  /\ ImportData(m) \in PageRecords
           /\ ImportData(m).state \in ValidStates \ {"ESB_Dirty"}
           /\ Coherent(ImportData(m), m)
           /\ PageValue(ImportData(m), m) = m
  BY BitsNotEmpty
     DEF ImportData, DoProcessDataBuffer, Page, PageRecords, PageStates, ValidStates,
         Coherent, PageValue, GetAllocBmpBits

\* A dirty page that was written agrees with what was written.
LEMMA CleanPageProperties ==
    ASSUME NEW p \in PageRecords, p.state = "ESB_Dirty"
    PROVE  /\ CleanPage(p) \in PageRecords
           /\ CleanPage(p).state \in ValidStates \ {"ESB_Dirty"}
           /\ Coherent(CleanPage(p), p.bits)
           /\ PageValue(CleanPage(p), p.bits) = PageValue(p, p.bits)
  BY BitsNotEmpty
     DEF CleanPage, DoProcessDataBuffer, Page, PageRecords, PageStates, ValidStates,
         Coherent, PageValue, GetAllocBmpBits

\* Setting bits adds exactly these bits to the bitmap of a page, and a page
\* that is not dirty after it still agrees with the file.
LEMMA SetAllocBmpBitsProperties ==
    ASSUME NEW p \in PageRecords, NEW m \in SUBSET Bits, NEW S \in SUBSET Bits,
           p.state \in ValidStates, Coherent(p, m)
    PROVE  /\ SetAllocBmpBits(p, S) \in PageRecords
           /\ SetAllocBmpBits(p, S).state \in ValidStates
           /\ Coherent(SetAllocBmpBits(p, S), m)
           /\ PageValue(SetAllocBmpBits(p, S), m) = PageValue(p, m) \cup S
  BY BitsNotEmpty
     DEF SetAllocBmpBits, Page, PageRecords, PageStates, ValidStates, Coherent,
         PageValue, GetAllocBmpBits

\* Resetting bits removes exactly these bits, except from a full bitmap, of
\* which it may remove all, and except a single bit, which may stay.
LEMMA ResetAllocBmpBitsProperties ==
    ASSUME NEW p \in PageRecords, NEW m \in SUBSET Bits, NEW S \in SUBSET Bits,
           p.state \in ValidStates, Coherent(p, m)
    PROVE  /\ ResetAllocBmpBits(p, S) \in PageRecords
           /\ ResetAllocBmpBits(p, S).state \in ValidStates
           /\ Coherent(ResetAllocBmpBits(p, S), m)
           /\ \/ PageValue(ResetAllocBmpBits(p, S), m) = PageValue(p, m) \ S
              \/ /\ PageValue(p, m) = Bits
                 /\ PageValue(ResetAllocBmpBits(p, S), m) = {}
              \/ /\ \E x \in S : S = {x}
                 /\ PageValue(ResetAllocBmpBits(p, S), m) = PageValue(p, m)
<1>1. CASE p.state = "ESB_Clean"
  <2>1. p.bits = m /\ PageValue(p, m) = p.bits
    BY <1>1 DEF Coherent, PageValue, GetAllocBmpBits
  <2>2. CASE ResetAllocBmpBits(p, S) = p
    <3>1. \/ \E x \in S : S = {x}
          \/ S \cap p.bits = {}
          \/ p = Page("ESB_Dirty", p.bits \ S)
      BY <1>1, <2>2 DEF ResetAllocBmpBits, IsFilledWithZeros
    <3>2. p # Page("ESB_Dirty", p.bits \ S)
      BY <1>1 DEF Page
    <3>3. S \cap p.bits = {} => PageValue(p, m) = PageValue(p, m) \ S
      BY <2>1
    <3>4. QED
      BY <2>2, <3>1, <3>2, <3>3
  <2>3. CASE ResetAllocBmpBits(p, S) = Page("ESB_Dirty", p.bits \ S)
    BY <2>1, <2>3 DEF Page, PageRecords, PageStates, ValidStates, Coherent, PageValue, GetAllocBmpBits
  <2>4. QED
    BY <2>2, <2>3 DEF ResetAllocBmpBits
<1>2. CASE p.state # "ESB_Clean"
  BY <1>2, BitsNotEmpty
     DEF ResetAllocBmpBits, Page, PageRecords, PageStates, ValidStates, Coherent,
         PageValue, GetAllocBmpBits
<1>3. QED
  BY <1>1, <1>2

\* The page DoGetPopulatedPage hands out is valid, agrees with the file, and
\* has the bitmap the previous call left.
LEMMA PageOfProperties ==
    ASSUME IInv, NEW b \in Blocks, ListUsable
    PROVE  /\ PageOf(b) \in PageRecords
           /\ PageOf(b).state \in ValidStates
           /\ Coherent(PageOf(b), media[b])
           /\ PageValue(PageOf(b), media[b]) = Current(b)
           /\ PageOf(b).state = "ESB_Dirty" => pages[b].state = "ESB_Dirty"
<1>1. /\ media[b] \in SUBSET Bits
      /\ pages[b] \in PageRecords
      /\ Coherent(pages[b], media[b])
      /\ pages[b].state # "Freed"
  BY DEF IInv, TypeOK, CacheCoherent, ListUsable
<1>2. CASE MustRead(b)
  <2>1. PageOf(b) = ImportData(media[b]) /\ Current(b) = media[b]
    BY <1>2 DEF PageOf, MustRead, Current, PageValue
  <2>2. QED
    BY <1>1, <2>1, ImportDataProperties
<1>3. CASE ~MustRead(b)
  BY <1>1, <1>3 DEF PageOf, MustRead, Current, PageRecords, PageStates, ValidStates
<1>4. QED
  BY <1>2, <1>3

\* What populating the page of b does to the other blocks: the victim's page is
\* invalid and its bitmap in the file, the others are as they were.
LEMMA PopulateOthers ==
    ASSUME IInv, NEW b \in Blocks, NEW p, Populate(b, p),
           NEW x \in Blocks, x # b
    PROVE  /\ pages'[x] \in {pages[x], InvalidPage}
           /\ media'[x] \in SUBSET Bits
           /\ Coherent(pages'[x], media'[x])
           /\ PageValue(pages'[x], media'[x]) = Current(x)
           /\ media'[x] \in {media[x], Current(x)}
<1>1. /\ media[x] \in SUBSET Bits
      /\ pages[x] \in PageRecords
      /\ Coherent(pages[x], media[x])
  BY DEF IInv, TypeOK, CacheCoherent
<1>2. /\ pages'[x] = IF Victim(b, x) THEN InvalidPage ELSE pages[x]
      /\ media'[x] = IF Victim(b, x) /\ pages[x].state = "ESB_Dirty"
                     THEN pages[x].bits ELSE media[x]
  BY DEF Populate, MediaWith
<1>3. CASE Victim(b, x)
  <2>1. media'[x] = Current(x)
    BY <1>1, <1>2, <1>3
       DEF Current, PageValue, GetAllocBmpBits, Coherent, PageRecords, PageStates
  <2>2. media'[x] \in SUBSET Bits
    BY <1>1, <1>2 DEF PageRecords
  <2>3. pages'[x] = InvalidPage
    BY <1>2, <1>3
  <2>4. QED
    BY <2>1, <2>2, <2>3 DEF InvalidPage, Page, Coherent, PageValue
<1>4. CASE ~Victim(b, x)
  BY <1>1, <1>2, <1>4 DEF Current
<1>5. QED
  BY <1>3, <1>4

\* The block that is populated is not the victim: its bitmap in the file stays.
LEMMA PopulateSelf ==
    ASSUME IInv, NEW b \in Blocks, NEW p, Populate(b, p)
    PROVE  pages'[b] = p /\ media'[b] = media[b]
<1>1. ~Victim(b, b)
  <2>1. SUFFICES ASSUME Victim(b, b) PROVE FALSE
    OBVIOUS
  <2>2. Len(iPages) \in 1 .. Len(iPages)
    BY <2>1, MaxPagesAssumption DEF Victim, MustEvict, IInv, TypeOK
  <2>3. QED
    BY <2>1, <2>2 DEF Victim, MustEvict, Cached
<1>2. QED
  BY <1>1 DEF Populate, MediaWith

\* Populating with a coherent page keeps the invariant, whatever the new state
\* of the mapper is, as long as that state is right about dirty pages.
LEMMA PopulateInvariant ==
    ASSUME IInv, NEW b \in Blocks, NEW p \in PageRecords, Populate(b, p),
           Coherent(p, media[b]),
           iState' \in {"EInvalid", "EClean", "EDirty"},
           p.state = "ESB_Dirty" => iState' = "EDirty",
           iState = "EDirty" => iState' = "EDirty",
           reply' \in Replies
    PROVE  IInv'
<1>1. pages'[b] = p /\ media'[b] = media[b]
  BY PopulateSelf
<1>2. TypeOK'
  <2>1. media' \in [Blocks -> SUBSET Bits]
    <3>1. media' = MediaWith(b)
      BY DEF Populate
    <3>2. \A x \in Blocks : pages[x].bits \in SUBSET Bits /\ media[x] \in SUBSET Bits
      BY DEF IInv, TypeOK, PageRecords
    <3>3. QED
      BY <3>1, <3>2 DEF MediaWith
  <2>2. pages' \in [Blocks -> PageRecords]
    <3>1. InvalidPage \in PageRecords
      BY DEF InvalidPage, Page, PageRecords, PageStates
    <3>2. QED
      BY <3>1 DEF Populate, IInv, TypeOK
  <2>3. iPages' \in Seq(Blocks)
    <3>1. iPages \in Seq(Blocks)
      BY DEF IInv, TypeOK
    <3>2. QED
      BY <3>1, ListWithProperties DEF Populate
  <2>4. QED
    BY <2>1, <2>2, <2>3 DEF TypeOK
<1>3. CacheCoherent'
  BY <1>1, PopulateOthers DEF CacheCoherent
<1>4. DirtyTracked'
  <2>1. ASSUME NEW x \in Blocks, pages'[x].state = "ESB_Dirty"
        PROVE  iState' = "EDirty"
    <3>1. CASE x = b
      BY <1>1, <2>1, <3>1
    <3>2. CASE x # b
      <4>1. pages'[x] \in {pages[x], InvalidPage}
        BY <3>2, PopulateOthers
      <4>2. pages[x].state = "ESB_Dirty"
        BY <2>1, <4>1 DEF InvalidPage, Page
      <4>3. QED
        BY <4>2 DEF IInv, DirtyTracked
    <3>3. QED
      BY <3>1, <3>2
  <2>2. QED
    BY <2>1 DEF DirtyTracked
<1>5. ValidPagesListed'
  <2>1. iPages' = ListWith(b) /\ iPages \in Seq(Blocks)
    BY DEF Populate, IInv, TypeOK
  <2>2. /\ \E i \in 1 .. Len(ListWith(b)) : ListWith(b)[i] = b
        /\ \A x \in Blocks : Cached(x) /\ ~Victim(b, x) =>
             \E i \in 1 .. Len(ListWith(b)) : ListWith(b)[i] = x
    BY <2>1, ListWithProperties
  <2>3. ASSUME NEW x \in Blocks, x # b, pages'[x].state # "ESB_Invalid"
        PROVE  Cached(x) /\ ~Victim(b, x)
    <3>1. ~Victim(b, x) /\ pages'[x] = pages[x]
      BY <2>3 DEF Populate, InvalidPage, Page
    <3>2. QED
      BY <2>3, <3>1 DEF IInv, ValidPagesListed
  <2>4. QED
    BY <2>1, <2>2, <2>3 DEF ValidPagesListed, Cached
<1>6. QED
  BY <1>2, <1>3, <1>4, <1>5 DEF IInv

-----------------------------------------------------------------------------
(***************************************************************************)
(* The invariant                                                           *)
(***************************************************************************)

\* The state of the mapper after a populate.
LEMMA StateWithProperties ==
    ASSUME IInv, NEW b \in Blocks
    PROVE  /\ StateWith(b) \in {"EInvalid", "EClean", "EDirty"}
           /\ iState = "EDirty" => StateWith(b) = "EDirty"
  BY DEF StateWith, IInv, TypeOK

\* An update of the page of b, as SetSectorAllocBits and ResetSectorAllocBits
\* make it, keeps the invariant.
LEMMA UpdateInvariant ==
    ASSUME IInv, NEW b \in Blocks, NEW p \in PageRecords, Update(b, p),
           Coherent(p, media[b]), reply' \in Replies
    PROVE  IInv'
<1>1. /\ Populate(b, p)
      /\ iState' = IF p.state = "ESB_Dirty" THEN "EDirty" ELSE StateWith(b)
  BY DEF Update
<1>2. QED
  BY <1>1, StateWithProperties, PopulateInvariant

\* A read through the page of b keeps the invariant.
LEMMA ReadInvariant ==
    ASSUME IInv, ListUsable, NEW b \in Blocks, Populate(b, PageOf(b)),
           iState' = StateWith(b),
           reply' \in Replies
    PROVE  IInv'
<1>1. /\ PageOf(b) \in PageRecords
      /\ Coherent(PageOf(b), media[b])
      /\ PageOf(b).state = "ESB_Dirty" => pages[b].state = "ESB_Dirty"
  BY PageOfProperties
<1>2. PageOf(b).state = "ESB_Dirty" => iState = "EDirty"
  BY <1>1 DEF IInv, DirtyTracked
<1>3. QED
  BY <1>1, <1>2, StateWithProperties, PopulateInvariant

\* The bitmap a page shows is a set of bits.
LEMMA GetAllocBmpBitsType ==
    ASSUME NEW p \in PageRecords
    PROVE  GetAllocBmpBits(p) \in SUBSET Bits
  BY DEF GetAllocBmpBits, PageRecords

\* What the end of the process leaves satisfies the invariant, whatever is in
\* the file.
LEMMA DieInvariant ==
    ASSUME Die, media' \in [Blocks -> SUBSET Bits]
    PROVE  IInv'
<1>1. InvalidPage \in PageRecords /\ InvalidPage.state = "ESB_Invalid"
  BY DEF InvalidPage, Page, PageRecords, PageStates
<1>2. /\ iPages' = <<>>
      /\ \A x \in Blocks : pages'[x] = InvalidPage
      /\ pages' \in [Blocks -> PageRecords]
      /\ iState' = "EInvalid"
      /\ reply' \in Replies
  BY <1>1 DEF Die, Reply, Replies
<1>3. QED
  BY <1>1, <1>2 DEF IInv, TypeOK, CacheCoherent, Coherent, DirtyTracked, ValidPagesListed

\* A written page keeps the types of the file.
LEMMA MediaWithType ==
    ASSUME IInv, NEW b \in Blocks
    PROVE  MediaWith(b) \in [Blocks -> SUBSET Bits]
<1>1. \A x \in Blocks : pages[x].bits \in SUBSET Bits /\ media[x] \in SUBSET Bits
  BY DEF IInv, TypeOK, PageRecords
<1>2. QED
  BY <1>1 DEF MediaWith

\* Invalidating every page keeps the invariant, with or without the list.
LEMMA InvalidateInvariant ==
    ASSUME IInv, pages' = [x \in Blocks |-> InvalidPage], UNCHANGED media,
           iPages' \in Seq(Blocks), iState' \in {"EInvalid", "EClean", "EDirty"},
           reply' \in {Done, Reply("lost", {}, {})}
    PROVE  IInv'
<1>1. InvalidPage \in PageRecords /\ InvalidPage.state = "ESB_Invalid"
  BY DEF InvalidPage, Page, PageRecords, PageStates
<1>2. reply' \in Replies
  BY DEF Done, Reply, Replies
<1>3. QED
  BY <1>1, <1>2
     DEF IInv, TypeOK, CacheCoherent, Coherent, DirtyTracked, ValidPagesListed

\* What a Flush leaves of the page and the bitmap in the file of one block.
LEMMA FlushBlock ==
    ASSUME IInv, NEW failed \in SUBSET Blocks, Flush(failed), NEW x \in Blocks
    PROVE  /\ pages'[x] \in PageRecords
           /\ media'[x] \in SUBSET Bits
           /\ Coherent(pages'[x], media'[x])
           /\ PageValue(pages'[x], media'[x]) = Current(x)
           /\ media'[x] \in {media[x], Current(x)}
           /\ pages'[x].state = "ESB_Dirty" =>
                pages[x].state = "ESB_Dirty" /\ (iState # "EDirty" \/ x \in failed)
           /\ pages'[x].state # "ESB_Invalid" => pages[x].state # "ESB_Invalid"
<1> DEFINE dirty == {y \in Blocks : Cached(y) /\ pages[y].state = "ESB_Dirty"}
           todo == IF iState = "EDirty" THEN dirty ELSE {}
<1>1. PICK torn \in SUBSET failed :
        media' = [y \in Blocks |->
                    IF y \in (todo \ failed) \cup torn THEN pages[y].bits ELSE media[y]]
  BY DEF Flush
<1>2. /\ failed \subseteq todo
      /\ pages' = [y \in Blocks |->
                     IF y \in todo \ failed THEN CleanPage(pages[y]) ELSE pages[y]]
  BY DEF Flush
<1>3. /\ media[x] \in SUBSET Bits
      /\ pages[x] \in PageRecords
      /\ pages[x].bits \in SUBSET Bits
      /\ Coherent(pages[x], media[x])
      /\ pages[x].state = "ESB_Dirty" => Cached(x) /\ iState = "EDirty"
  BY DEF IInv, TypeOK, CacheCoherent, DirtyTracked, ValidPagesListed, PageRecords
<1>4. x \in todo <=> pages[x].state = "ESB_Dirty"
  BY <1>3
<1> HIDE DEF todo
<1>5. pages[x].state = "ESB_Dirty" => Current(x) = pages[x].bits
  BY DEF Current, PageValue, GetAllocBmpBits
<1>6. CASE x \in todo \ failed
  <2>1. pages'[x] = CleanPage(pages[x]) /\ media'[x] = pages[x].bits
    BY <1>1, <1>2, <1>6
  <2>2. pages[x].state = "ESB_Dirty"
    BY <1>4, <1>6
  <2>3. /\ CleanPage(pages[x]) \in PageRecords
        /\ CleanPage(pages[x]).state # "ESB_Dirty"
        /\ Coherent(CleanPage(pages[x]), pages[x].bits)
        /\ PageValue(CleanPage(pages[x]), pages[x].bits) = pages[x].bits
    BY <1>3, <2>2, CleanPageProperties DEF PageValue, GetAllocBmpBits
  <2>4. QED
    BY <1>3, <1>5, <2>1, <2>2, <2>3
<1>7. CASE x \notin todo
  <2>1. pages'[x] = pages[x] /\ media'[x] = media[x]
    BY <1>1, <1>2, <1>7
  <2>2. QED
    BY <1>3, <1>4, <1>7, <2>1 DEF Current
<1>8. CASE x \in todo /\ x \in failed
  <2>1. pages'[x] = pages[x] /\ media'[x] \in {media[x], pages[x].bits}
    BY <1>1, <1>2, <1>8
  <2>2. pages[x].state = "ESB_Dirty"
    BY <1>4, <1>8
  <2>3. Coherent(pages[x], media'[x])
    BY <2>2 DEF Coherent
  <2>4. PageValue(pages[x], media'[x]) = Current(x)
    BY <2>2 DEF Current, PageValue, GetAllocBmpBits
  <2>5. QED
    BY <1>3, <1>5, <1>8, <2>1, <2>2, <2>3, <2>4
<1>9. QED
  BY <1>6, <1>7, <1>8

\* A Flush keeps the invariant.
LEMMA FlushInvariant ==
    ASSUME IInv, NEW failed \in SUBSET Blocks, Flush(failed)
    PROVE  IInv'
<1>1. /\ iPages' = iPages
      /\ iState' = IF iState = "EDirty" /\ failed = {} THEN "EClean" ELSE iState
      /\ reply' \in Replies
      /\ pages' = [x \in Blocks |-> pages'[x]]
      /\ media' = [x \in Blocks |-> media'[x]]
  BY DEF Flush, Reply, Replies
<1>2. TypeOK'
  <2>1. pages' \in [Blocks -> PageRecords] /\ media' \in [Blocks -> SUBSET Bits]
    BY <1>1, FlushBlock
  <2>2. QED
    BY <1>1, <2>1 DEF IInv, TypeOK
<1>3. CacheCoherent'
  BY FlushBlock DEF CacheCoherent
<1>4. DirtyTracked'
  BY <1>1, FlushBlock DEF IInv, DirtyTracked
<1>5. ValidPagesListed'
  BY <1>1, FlushBlock DEF IInv, ValidPagesListed, Cached
<1>6. QED
  BY <1>2, <1>3, <1>4, <1>5 DEF IInv

\* What is asked of a bitmap are bits of it.
LEMMA ExtentsAreBits == Extents \subseteq SUBSET Bits
  BY NumBitsAssumption DEF Extents, Bits

\* Every step of the cache keeps the invariant.
LEMMA NextInvariant == IInv /\ [Next]_vars => IInv'
<1> SUFFICES ASSUME IInv, [Next]_vars PROVE IInv'
  OBVIOUS
<1>1. ASSUME NEW b \in Blocks, NEW S \in Extents, SetSectorAllocBits(b, S)
      PROVE  IInv'
  BY <1>1, PageOfProperties, SetAllocBmpBitsProperties, UpdateInvariant, ExtentsAreBits
     DEF SetSectorAllocBits, IInv, TypeOK, Reply, Replies
<1>2. ASSUME NEW b \in Blocks, NEW S \in Extents, ResetSectorAllocBits(b, S)
      PROVE  IInv'
  BY <1>2, PageOfProperties, ResetAllocBmpBitsProperties, UpdateInvariant, ExtentsAreBits
     DEF ResetSectorAllocBits, IInv, TypeOK, Reply, Replies
<1>3. ASSUME NEW b \in Blocks, UpdateOfNull(b)
      PROVE  IInv'
  <2>1. media' \in [Blocks -> SUBSET Bits]
    BY <1>3, MediaWithType DEF UpdateOfNull, IInv, TypeOK
  <2>2. QED
    BY <1>3, <2>1, DieInvariant DEF UpdateOfNull
<1>4. ASSUME NEW b \in Blocks, GetSectorAllocBitmap(b)
      PROVE  IInv'
  <2>1. GetAllocBmpBits(PageOf(b)) \in SUBSET Bits
    BY <1>4, PageOfProperties, GetAllocBmpBitsType DEF GetSectorAllocBitmap
  <2>2. QED
    BY <1>4, <2>1, ReadInvariant DEF GetSectorAllocBitmap, Reply, Replies
<1>5. ASSUME NEW b \in Blocks, GetAllocBitmap(b)
      PROVE  IInv'
  <2>1. GetAllocBmpBits(PageOf(b)) \in SUBSET Bits
    BY <1>5, PageOfProperties, GetAllocBmpBitsType DEF GetAllocBitmap
  <2>2. QED
    BY <1>5, <2>1, ReadInvariant DEF GetAllocBitmap, Reply, Replies
<1>6. ASSUME NEW b \in Blocks, GetSectorAllocBitmapFails(b)
      PROVE  IInv'
  <2>1. reply' \in Replies
    BY <1>6 DEF GetSectorAllocBitmapFails, Reply, Replies
  <2>2. CASE EvictionFails(b)
    <3>1. /\ media' \in [Blocks -> SUBSET Bits]
          /\ UNCHANGED <<iPages, pages, iState>>
      BY <2>2, MediaWithType DEF EvictionFails, IInv, TypeOK
    <3>2. CacheCoherent'
      <4>1. ASSUME NEW x \in Blocks
            PROVE  Coherent(pages[x], media'[x])
        <5>1. Coherent(pages[x], media[x])
          BY DEF IInv, CacheCoherent
        <5>2. media'[x] = media[x] \/ pages[x].state = "ESB_Dirty"
          BY <2>2 DEF EvictionFails, MediaWith
        <5>3. QED
          BY <5>1, <5>2 DEF Coherent
      <4>2. QED
        BY <3>1, <4>1 DEF CacheCoherent
    <3>3. QED
      BY <2>1, <3>1, <3>2 DEF IInv, TypeOK, DirtyTracked, ValidPagesListed, Cached
  <2>3. CASE ImportFails(b)
    <3>1. /\ Page("Freed", {}) \in PageRecords
          /\ Coherent(Page("Freed", {}), media[b])
          /\ Page("Freed", {}).state # "ESB_Dirty"
      BY DEF Page, PageRecords, PageStates, Coherent
    <3>2. Populate(b, Page("Freed", {})) /\ iState' = iState
      BY <2>3 DEF ImportFails
    <3>3. QED
      BY <2>1, <3>1, <3>2, PopulateInvariant DEF IInv, TypeOK
  <2>4. QED
    BY <1>6, <2>2, <2>3 DEF GetSectorAllocBitmapFails
<1>7. ASSUME NEW failed \in SUBSET Blocks, Flush(failed)
      PROVE  IInv'
  BY <1>7, FlushInvariant
<1>8. ASSUME NEW force \in BOOLEAN, InvalidateCache(force)
      PROVE  IInv'
  <2>1. CASE iState = "EDirty" /\ ~force
    BY <1>8, <2>1, DieInvariant DEF InvalidateCache, IInv, TypeOK
  <2>2. CASE ~(iState = "EDirty" /\ ~force)
    BY <1>8, <2>2, InvalidateInvariant DEF InvalidateCache, IInv, TypeOK
  <2>3. QED
    BY <2>1, <2>2
<1>9. ASSUME NEW force \in BOOLEAN, Close(force)
      PROVE  IInv'
  <2>1. CASE iState = "EDirty" /\ ~force
    BY <1>9, <2>1, DieInvariant DEF Close, IInv, TypeOK
  <2>2. CASE ~(iState = "EDirty" /\ ~force)
    <3>1. /\ pages' = [x \in Blocks |-> InvalidPage]
          /\ iPages' = <<>>
          /\ iState' = "EInvalid"
          /\ reply' \in {Done, Reply("lost", {}, {})}
          /\ UNCHANGED media
      BY <1>9, <2>2 DEF Close
    <3>2. iPages' \in Seq(Blocks)
      BY <3>1
    <3>3. QED
      BY <3>1, <3>2, InvalidateInvariant
  <2>3. QED
    BY <2>1, <2>2
<1>10. ASSUME NEW b \in Blocks, NEW bits \in {{}, Bits}, AppendBlock(b, bits)
       PROVE  IInv'
  <2>1. pages[b].state = "ESB_Invalid"
    BY <1>10 DEF AppendBlock, IInv, ValidPagesListed
  <2>2. ASSUME NEW x \in Blocks
        PROVE  Coherent(pages'[x], media'[x])
    <3>1. Coherent(pages[x], media[x])
      BY DEF IInv, CacheCoherent
    <3>2. CASE x = b
      BY <1>10, <2>1, <3>2 DEF AppendBlock, Coherent
    <3>3. CASE x # b
      BY <1>10, <3>1, <3>3 DEF AppendBlock, IInv, TypeOK
    <3>4. QED
      BY <3>2, <3>3
  <2>3. TypeOK'
    BY <1>10 DEF AppendBlock, IInv, TypeOK, Reply, Replies
  <2>4. QED
    BY <1>10, <2>2, <2>3
       DEF AppendBlock, IInv, CacheCoherent, DirtyTracked, ValidPagesListed, Cached
<1>11. CASE ProcessDies
  BY <1>11, DieInvariant DEF ProcessDies, IInv, TypeOK
<1>12. CASE UNCHANGED vars
  BY <1>12
     DEF vars, IInv, TypeOK, CacheCoherent, DirtyTracked, ValidPagesListed, Cached
<1>13. QED
  BY <1>1, <1>2, <1>3, <1>4, <1>5, <1>6, <1>7, <1>8, <1>9, <1>10, <1>11, <1>12 DEF Next

\* So does the empty cache.
LEMMA InitInvariant == Init => IInv
<1> SUFFICES ASSUME Init PROVE IInv
  OBVIOUS
<1>1. InvalidPage \in PageRecords /\ InvalidPage.state = "ESB_Invalid"
  BY DEF InvalidPage, Page, PageRecords, PageStates
<1>2. QED
  BY <1>1
     DEF Init, Done, Reply, Replies, IInv, TypeOK, CacheCoherent, Coherent, DirtyTracked,
         ValidPagesListed

\* The invariant holds in every state of the cache.
THEOREM Invariance == Spec => []IInv
  BY InitInvariant, NextInvariant, PTL DEF Spec

\* The variables of the cache have their types: TypeOK.
THEOREM TypeCorrectness == Spec => []TypeOK
<1>1. IInv => TypeOK
  BY DEF IInv
<1>2. QED
  BY <1>1, Invariance, PTL

\* Every page that is not dirty agrees with the file: CacheCoherent.
THEOREM Coherence == Spec => []CacheCoherent
<1>1. IInv => CacheCoherent
  BY DEF IInv
<1>2. QED
  BY <1>1, Invariance, PTL

\* A Flush that finds the mapper clean misses no dirty page: DirtyTracked.
THEOREM DirtyPagesTracked == Spec => []DirtyTracked
<1>1. IInv => DirtyTracked
  BY DEF IInv
<1>2. QED
  BY <1>1, Invariance, PTL

\* A page that holds data can be reached through the list: ValidPagesListed.
THEOREM NoLostPages == Spec => []ValidPagesListed
<1>1. IInv => ValidPagesListed
  BY DEF IInv
<1>2. QED
  BY <1>1, Invariance, PTL

\* The list holds one page per block and never more pages than the cache has
\* room for, whatever calls fail: an eviction makes room before a page is added,
\* and a page that could not be read, whose pointer stays in the list, takes one
\* place like any other.
THEOREM CacheBounded == Spec => []ListWellFormed
<1>1. Init => ListWellFormed
  BY MaxPagesAssumption DEF Init, ListWellFormed
<1>2. ASSUME IInv, ListWellFormed, [Next]_vars PROVE ListWellFormed'
  <2>1. iPages' \in {iPages, <<>>} \/ \E b \in Blocks : iPages' = ListWith(b)
    BY <1>2 DEF Next, vars, SetSectorAllocBits, ResetSectorAllocBits, UpdateOfNull, Die,
           GetSectorAllocBitmap, GetSectorAllocBitmapFails, EvictionFails, ImportFails,
           GetAllocBitmap, AppendBlock, Flush, InvalidateCache, Close, ProcessDies,
           Update, Populate
  <2>2. iPages \in Seq(Blocks)
    BY <1>2 DEF IInv, TypeOK
  <2>3. CASE iPages' = iPages
    BY <1>2, <2>3 DEF ListWellFormed
  <2>4. CASE iPages' = <<>>
    BY <2>4, MaxPagesAssumption DEF ListWellFormed
  <2>5. ASSUME NEW b \in Blocks, iPages' = ListWith(b) PROVE ListWellFormed'
    BY <1>2, <2>2, <2>5, ListWithWellFormed DEF ListWellFormed
  <2>6. QED
    BY <2>1, <2>3, <2>4, <2>5
<1>3. QED
  BY <1>1, <1>2, Invariance, PTL DEF Spec

-----------------------------------------------------------------------------
(***************************************************************************)
(* The refinement                                                          *)
(***************************************************************************)

\* The file after any set of its bitmaps was written back, seen as a step of
\* the abstract store.
LEMMA WriteBackStep ==
    ASSUME IInv, IInv',
           \A x \in Blocks : media'[x] \in {media[x], Current(x)}
    PROVE  Abstract!WriteBack
<1> DEFINE W == {x \in Blocks : media'[x] = Current(x)}
<1>1. media' = [x \in Blocks |->
                  IF x \in W THEN [y \in Blocks |-> Current(y)][x] ELSE media[x]]
  BY DEF IInv, TypeOK
<1>2. W \in SUBSET Blocks
  OBVIOUS
<1>3. QED
  BY <1>1, <1>2, Zenon DEF Abstract!WriteBack

\* A populate is a write-back of at most one bitmap.
LEMMA PopulateWritesBack ==
    ASSUME IInv, NEW b \in Blocks, NEW p, Populate(b, p)
    PROVE  \A x \in Blocks : media'[x] \in {media[x], Current(x)}
  BY PopulateSelf, PopulateOthers

\* So is the write of one page.
LEMMA MediaWithWritesBack ==
    ASSUME IInv, NEW b \in Blocks, NEW x \in Blocks
    PROVE  MediaWith(b)[x] \in {media[x], Current(x)}
  BY DEF MediaWith, Current, PageValue, GetAllocBmpBits

\* The bitmaps after a populate: only that of b may have changed.
LEMMA PopulateCurrent ==
    ASSUME IInv, NEW b \in Blocks, NEW p, Populate(b, p)
    PROVE  \A x \in Blocks : Current(x)' = IF x = b THEN PageValue(p, media[b]) ELSE Current(x)
<1>1. ASSUME NEW x \in Blocks
      PROVE  Current(x)' = IF x = b THEN PageValue(p, media[b]) ELSE Current(x)
  <2>1. Current(x)' = PageValue(pages'[x], media'[x])
    BY DEF Current, PageValue, GetAllocBmpBits
  <2>2. CASE x = b
    BY <2>1, <2>2, PopulateSelf
  <2>3. CASE x # b
    BY <2>1, <2>3, PopulateOthers
  <2>4. QED
    BY <2>2, <2>3
<1>2. QED
  BY <1>1

\* Once every page is invalid the current bitmaps are those of the file.
LEMMA InvalidCurrent ==
    ASSUME pages' = [x \in Blocks |-> InvalidPage]
    PROVE  \A x \in Blocks : Current(x)' = media'[x]
<1>1. \A x \in Blocks : Current(x)' = PageValue(pages'[x], media'[x])
  BY DEF Current, PageValue, GetAllocBmpBits
<1>2. \A m : PageValue(InvalidPage, m) = m
  BY DEF PageValue, InvalidPage, Page
<1>3. QED
  BY <1>1, <1>2

\* The death of the process is the loss of what was not written back.
LEMMA DieStep ==
    ASSUME IInv, IInv', Die, \A x \in Blocks : media'[x] \in {media[x], Current(x)}
    PROVE  Abstract!Lose
<1>1. [x \in Blocks |-> Current(x)'] = media'
  BY InvalidCurrent DEF Die, IInv, TypeOK
<1>2. QED
  BY <1>1, WriteBackStep DEF Abstract!Lose, Abstract!LoseBits, Die, Reply, Abstract!Reply

\* Dropping the pages is either harmless or, when told to ignore dirty data, a
\* loss.
LEMMA InvalidateStep ==
    ASSUME IInv, IInv', UNCHANGED media, pages' = [x \in Blocks |-> InvalidPage],
           \/ reply' = Reply("lost", {}, {})
           \/ reply' = Done /\ iState # "EDirty"
    PROVE  Abstract!Lose \/ Abstract!Drop
<1>1. [x \in Blocks |-> Current(x)'] = media'
  BY InvalidCurrent DEF IInv, TypeOK
<1>2. CASE reply' = Reply("lost", {}, {})
  BY <1>1, <1>2, WriteBackStep DEF Abstract!Lose, Abstract!LoseBits, Reply, Abstract!Reply
<1>3. CASE reply' = Done /\ iState # "EDirty"
  <2>1. ASSUME NEW x \in Blocks
        PROVE  Current(x) = media[x]
    BY <1>3
       DEF IInv, TypeOK, DirtyTracked, CacheCoherent, Coherent, Current, PageValue,
           GetAllocBmpBits, PageRecords, PageStates
  <2>2. [x \in Blocks |-> Current(x)] = [x \in Blocks |-> Current(x)']
    BY <1>1, <2>1 DEF IInv, TypeOK
  <2>3. QED
    BY <1>3, <2>2 DEF Abstract!Drop, Abstract!Done, Abstract!Reply, Done, Reply
<1>4. QED
  BY <1>2, <1>3

\* A Flush writes some bitmaps back, and all of them when it reports success.
LEMMA FlushStep ==
    ASSUME IInv, IInv', NEW failed \in SUBSET Blocks, Flush(failed)
    PROVE  Abstract!FlushOk \/ Abstract!Fail
<1>1. \A x \in Blocks : /\ Current(x)' = Current(x)
                        /\ media'[x] \in {media[x], Current(x)}
  <2>1. \A x \in Blocks : Current(x)' = PageValue(pages'[x], media'[x])
    BY DEF Current, PageValue, GetAllocBmpBits
  <2>2. QED
    BY <2>1, FlushBlock
<1>2. [x \in Blocks |-> Current(x)'] = [x \in Blocks |-> Current(x)]
  BY <1>1
<1>3. reply' = Reply(IF failed = {} THEN "flushed" ELSE "error", {}, {})
  BY DEF Flush
<1>4. CASE failed = {}
  <2>1. ASSUME NEW x \in Blocks
        PROVE  media'[x] = Current(x)
    <3>1. pages'[x].state # "ESB_Dirty"
      <4>1. pages'[x].state = "ESB_Dirty" => pages[x].state = "ESB_Dirty" /\ iState # "EDirty"
        BY <1>4, FlushBlock
      <4>2. QED
        BY <4>1 DEF IInv, DirtyTracked
    <3>2. Coherent(pages'[x], media'[x]) /\ PageValue(pages'[x], media'[x]) = Current(x)
      BY FlushBlock
    <3>3. pages'[x] \in PageRecords
      BY FlushBlock
    <3>4. QED
      BY <3>1, <3>2, <3>3 DEF Coherent, PageValue, GetAllocBmpBits, PageRecords, PageStates
  <2>2. media' = [x \in Blocks |-> Current(x)]
    BY <2>1 DEF IInv, TypeOK
  <2>3. QED
    BY <1>2, <1>3, <1>4, <2>2 DEF Abstract!FlushOk, Abstract!FlushBits, Abstract!Reply, Reply
<1>5. CASE failed # {}
  <2>1. Abstract!WriteBack
    BY <1>1, WriteBackStep
  <2>2. QED
    BY <1>2, <1>3, <1>5, <2>1 DEF Abstract!Fail, Abstract!KeepBits, Abstract!Reply, Reply
<1>6. QED
  BY <1>4, <1>5

\* Every step of the cache is a step of the abstract store, or changes nothing
\* in it.
LEMMA NextRefines == IInv /\ IInv' /\ [Next]_vars => [Abstract!Next]_(Abstract!vars)
<1> SUFFICES ASSUME IInv, IInv', [Next]_vars
             PROVE  [Abstract!Next]_(Abstract!vars)
  OBVIOUS
<1> DEFINE cur == [x \in Blocks |-> Current(x)]
           cur2 == [x \in Blocks |-> Current(x)']
<1>1. ASSUME NEW b \in Blocks, NEW S \in Extents, SetSectorAllocBits(b, S)
      PROVE  Abstract!Set(b, S)
  <2> DEFINE p == SetAllocBmpBits(PageOf(b), S)
  <2>1. Populate(b, p) /\ reply' = Reply("set", {b}, S)
    BY <1>1 DEF SetSectorAllocBits, Update
  <2>2. PageValue(p, media[b]) = Current(b) \cup S
    BY <1>1, PageOfProperties, SetAllocBmpBitsProperties, ExtentsAreBits
       DEF SetSectorAllocBits, IInv, TypeOK
  <2>3. cur2 = [cur EXCEPT ![b] = @ \cup S]
    BY <2>1, <2>2, PopulateCurrent
  <2>4. Abstract!WriteBack
    BY <2>1, PopulateWritesBack, WriteBackStep
  <2>5. QED
    BY <2>1, <2>3, <2>4
       DEF Abstract!Set, Abstract!SetBits, Abstract!Reply, Reply
<1>2. ASSUME NEW b \in Blocks, NEW S \in Extents, ResetSectorAllocBits(b, S)
      PROVE  Abstract!Reset(b, S)
  <2> DEFINE p == ResetAllocBmpBits(PageOf(b), S)
  <2>1. Populate(b, p) /\ reply' = Reply("reset", {b}, S) /\ TrimEnabled
    BY <1>2 DEF ResetSectorAllocBits, Update
  <2>2. \/ PageValue(p, media[b]) = Current(b) \ S
        \/ Current(b) = Bits /\ PageValue(p, media[b]) = {}
        \/ (\E x \in S : S = {x}) /\ PageValue(p, media[b]) = Current(b)
    BY <1>2, PageOfProperties, ResetAllocBmpBitsProperties, ExtentsAreBits
       DEF ResetSectorAllocBits, IInv, TypeOK
  <2>3. \/ cur2 = [cur EXCEPT ![b] = @ \ S]
        \/ cur[b] = Bits /\ cur2 = [cur EXCEPT ![b] = {}]
        \/ (\E x \in S : S = {x}) /\ cur2 = [cur EXCEPT ![b] = cur[b]]
    BY <2>1, <2>2, PopulateCurrent
  <2>4. Abstract!WriteBack
    BY <2>1, PopulateWritesBack, WriteBackStep
  <2>5. QED
    BY <2>1, <2>3, <2>4
       DEF Abstract!Reset, Abstract!ResetBits, Abstract!Reply, Reply
<1>3. ASSUME NEW b \in Blocks, UpdateOfNull(b)
      PROVE  Abstract!Lose
  BY <1>3, MediaWithWritesBack, DieStep DEF UpdateOfNull
<1>4. ASSUME NEW b \in Blocks, ListUsable, Populate(b, PageOf(b)),
             reply' = Reply("bitmap", {b}, GetAllocBmpBits(PageOf(b)))
      PROVE  Abstract!Read(b)
  <2>1. PageValue(PageOf(b), media[b]) = Current(b)
    BY <1>4, PageOfProperties
  <2>2. GetAllocBmpBits(PageOf(b)) = Current(b)
    BY <1>4, <2>1, PageOfProperties DEF PageValue, ValidStates
  <2>3. cur2 = cur
    BY <1>4, <2>1, PopulateCurrent
  <2>4. Abstract!WriteBack
    BY <1>4, PopulateWritesBack, WriteBackStep
  <2>5. QED
    BY <1>4, <2>2, <2>3, <2>4 DEF Abstract!Read, Abstract!KeepBits, Abstract!Reply, Reply
<1>5. ASSUME NEW b \in Blocks, GetSectorAllocBitmap(b)
      PROVE  Abstract!Read(b)
  BY <1>4, <1>5 DEF GetSectorAllocBitmap
<1>6. ASSUME NEW b \in Blocks, GetAllocBitmap(b)
      PROVE  Abstract!Read(b) \/ Abstract!Fail
  <2>1. CASE PageOf(b).state = "ESB_Dirty"
    <3>1. PageValue(PageOf(b), media[b]) = Current(b)
      BY <1>6, PageOfProperties DEF GetAllocBitmap
    <3>2. cur2 = cur
      BY <1>6, <3>1, PopulateCurrent DEF GetAllocBitmap
    <3>3. Abstract!WriteBack
      BY <1>6, PopulateWritesBack, WriteBackStep DEF GetAllocBitmap
    <3>4. QED
      BY <1>6, <2>1, <3>2, <3>3
         DEF GetAllocBitmap, Abstract!Fail, Abstract!KeepBits, Abstract!Reply, Reply
  <2>2. CASE PageOf(b).state # "ESB_Dirty"
    BY <1>4, <1>6, <2>2 DEF GetAllocBitmap
  <2>3. QED
    BY <2>1, <2>2
<1>7. ASSUME NEW b \in Blocks, GetSectorAllocBitmapFails(b)
      PROVE  Abstract!Fail
  <2>1. reply' = Reply("null", {}, {})
    BY <1>7 DEF GetSectorAllocBitmapFails
  <2>2. CASE EvictionFails(b)
    <3>1. media' \in {media, MediaWith(b)} /\ UNCHANGED pages
      BY <2>2 DEF EvictionFails
    <3>2. ASSUME NEW x \in Blocks
          PROVE  Current(x)' = Current(x) /\ media'[x] \in {media[x], Current(x)}
      <4>1. media'[x] = media[x] \/ pages[x].state = "ESB_Dirty"
        BY <3>1 DEF MediaWith
      <4>2. Current(x)' = PageValue(pages[x], media'[x])
        BY <3>1 DEF Current, PageValue, GetAllocBmpBits
      <4>3. QED
        BY <3>1, <4>1, <4>2, MediaWithWritesBack DEF Current, PageValue, GetAllocBmpBits
    <3>3. QED
      BY <2>1, <3>2, WriteBackStep DEF Abstract!Fail, Abstract!KeepBits, Abstract!Reply, Reply
  <2>3. CASE ImportFails(b)
    <3>1. Populate(b, Page("Freed", {})) /\ pages[b].state = "ESB_Invalid"
      BY <2>3 DEF ImportFails, MustRead
    <3>2. PageValue(Page("Freed", {}), media[b]) = Current(b)
      BY <3>1 DEF PageValue, Page, Current
    <3>3. cur2 = cur
      BY <3>1, <3>2, PopulateCurrent
    <3>4. Abstract!WriteBack
      BY <3>1, PopulateWritesBack, WriteBackStep
    <3>5. QED
      BY <2>1, <3>3, <3>4 DEF Abstract!Fail, Abstract!KeepBits, Abstract!Reply, Reply
  <2>4. QED
    BY <1>7, <2>2, <2>3 DEF GetSectorAllocBitmapFails
<1>8. ASSUME NEW failed \in SUBSET Blocks, Flush(failed)
      PROVE  Abstract!FlushOk \/ Abstract!Fail
  BY <1>8, FlushStep
<1>9. ASSUME NEW force \in BOOLEAN, InvalidateCache(force) \/ Close(force)
      PROVE  Abstract!Lose \/ Abstract!Drop
  <2>1. media' = media
    BY <1>9 DEF InvalidateCache, Close
  <2>2. CASE iState = "EDirty" /\ ~force
    BY <1>9, <2>1, <2>2, DieStep DEF InvalidateCache, Close
  <2>3. CASE ~(iState = "EDirty" /\ ~force)
    BY <1>9, <2>1, <2>3, InvalidateStep DEF InvalidateCache, Close
  <2>4. QED
    BY <2>2, <2>3
<1>10. ASSUME NEW b \in Blocks, NEW bits \in {{}, Bits}, AppendBlock(b, bits)
       PROVE  Abstract!Append(b, bits)
  <2>1. pages[b].state = "ESB_Invalid" /\ UNCHANGED pages
    BY <1>10 DEF AppendBlock, IInv, ValidPagesListed
  <2>2. media' = [media EXCEPT ![b] = bits] /\ reply' = Reply("append", {b}, bits)
    BY <1>10 DEF AppendBlock
  <2>3. ASSUME NEW x \in Blocks
        PROVE  Current(x)' = IF x = b THEN bits ELSE Current(x)
    <3>1. Current(x)' = PageValue(pages[x], media'[x])
      BY <2>1 DEF Current, PageValue, GetAllocBmpBits
    <3>2. CASE x = b
      BY <2>1, <2>2, <3>1, <3>2 DEF PageValue, IInv, TypeOK
    <3>3. CASE x # b
      BY <2>2, <3>1, <3>3 DEF Current, IInv, TypeOK
    <3>4. QED
      BY <3>2, <3>3
  <2>4. cur2 = [cur EXCEPT ![b] = bits]
    BY <2>3
  <2>5. QED
    BY <2>2, <2>4
       DEF Abstract!Append, Abstract!CreateBits, Abstract!Reply, Reply
<1>11. CASE ProcessDies
  BY <1>11, DieStep DEF ProcessDies, Abstract!Next
<1>12. CASE UNCHANGED vars
  BY <1>12 DEF vars, Abstract!vars, Current, PageValue, GetAllocBmpBits
<1>13. QED
  BY <1>1, <1>2, <1>3, <1>5, <1>6, <1>7, <1>8, <1>9, <1>10, <1>11, <1>12, ExtentsAreBits
     DEF Next, Abstract!Next

\* The empty cache shows what is in the file.
LEMMA InitRefines == Init => Abstract!Init
<1> SUFFICES ASSUME Init PROVE Abstract!Init
  OBVIOUS
<1>1. [x \in Blocks |-> Current(x)] = media
  BY DEF Init, Current, PageValue, InvalidPage, Page
<1>2. QED
  BY <1>1
     DEF Init, Done, Reply, Abstract!Init, Abstract!Bitmaps, Abstract!Done, Abstract!Reply

\* The cache keeps the promises of AllocBitmaps: no call, eviction, failed write
\* or partial Flush loses or invents a bit, what a read returns is what the
\* earlier calls left, and a Flush that reports success has put every bitmap
\* in the file.
THEOREM Refinement == Spec => ImplementsAllocBitmaps
<1>1. Init => Abstract!Init
  BY InitRefines
<1>2. IInv /\ IInv' /\ [Next]_vars => [Abstract!Next]_(Abstract!vars)
  BY NextRefines
<1>3. QED
  BY <1>1, <1>2, Invariance, PTL DEF Spec, Abstract!Spec, ImplementsAllocBitmaps

=============================================================================
