---------------------------- MODULE VhdFileProofs ----------------------------
(***************************************************************************)
(* What VhdGeometry computes, for every size of a disk: the geometry keeps *)
(* the size, and the table has an entry for every sector.                  *)
(*                                                                         *)
(* And what VhdFile promises, for every request: a VHD that was made and   *)
(* synced can be opened ever after, its blocks are apart, and what was in  *)
(* its table at a flush stays there.  The invariant has five parts: Shape, *)
(* the types and what each call knows; MadeInv, the footers, the header    *)
(* and the table of a file that was made; StartInv, that nothing is synced *)
(* of a file that is not; BlocksInv, the blocks while the power holds; and *)
(* FirmInv, what is left of them after it failed.                          *)
(***************************************************************************)
EXTENDS VhdFile, FiniteSetTheorems, TLAPS

-----------------------------------------------------------------------------
(* The geometry *)

(* The disk has at most size sectors, and less than a cylinder is lost; the   *)
(* numbers fit the fields of the footer.                                      *)
Keeps(chs, size) ==
  /\ chs.cylinders < 2^16 /\ chs.heads \in 4 .. 16 /\ chs.spt < 2^8
  /\ ChsToSectors(chs) <= size
  /\ size - ChsToSectors(chs) < chs.heads * chs.spt

(* What a division leaves. *)
LEMMA Division ==
  ASSUME NEW a \in Nat, NEW b \in Nat \ {0}
  PROVE  /\ a \div b \in Nat
         /\ (a \div b) * b <= a
         /\ a - (a \div b) * b < b
  BY SMT

(* Less than 1024 cylinders fit their field. *)
LEMMA Quotient ==
  ASSUME NEW a \in Nat, NEW b \in 4 .. 16, a < b * 1024
  PROVE  a \div b < 2^16
<1>1. a \div b < 1024
  BY SMT
<1> QED BY <1>1, Division

(* A division by the sectors of a track and one by the heads lose less than a *)
(* cylinder together.                                                         *)
LEMMA CylindersKeep ==
  ASSUME NEW secs \in Nat, NEW spt \in 1 .. 255, NEW heads \in 4 .. 16,
         NEW tracks \in Nat, tracks * spt <= secs, secs - tracks * spt < spt,
         NEW cylinders \in Nat, cylinders * heads <= tracks, tracks - cylinders * heads < heads,
         cylinders < 2^16
  PROVE  Keeps([cylinders |-> cylinders, heads |-> heads, spt |-> spt], secs)
<1> DEFINE rest == tracks - cylinders * heads
<1>1. ChsToSectors([cylinders |-> cylinders, heads |-> heads, spt |-> spt])
        = (cylinders * heads) * spt
  BY DEF ChsToSectors
<1>2. rest \in 0 .. heads - 1 /\ tracks = cylinders * heads + rest /\ cylinders * heads \in Nat
  OBVIOUS
<1> HIDE DEF rest
<1>3. tracks * spt = (cylinders * heads) * spt + rest * spt
  BY <1>2
<1>4. rest * spt <= heads * spt - spt /\ rest * spt \in Nat
  BY <1>2
<1>5. (cylinders * heads) * spt <= secs
  BY <1>2, <1>3, <1>4
<1>6. secs - (cylinders * heads) * spt < heads * spt
  BY <1>2, <1>3, <1>4
<1>7. spt < 2^8
  OBVIOUS
<1> QED
  BY <1>1, <1>5, <1>6, <1>7 DEF Keeps

(* The same for the two quotients that the code computes. *)
LEMMA DivisionsKeep ==
  ASSUME NEW secs \in Nat, NEW spt \in 1 .. 255, NEW heads \in 4 .. 16,
         (secs \div spt) \div heads < 2^16
  PROVE  Keeps([cylinders |-> (secs \div spt) \div heads, heads |-> heads, spt |-> spt], secs)
<1> DEFINE tracks == secs \div spt
           cylinders == tracks \div heads
<1>1. tracks \in Nat /\ tracks * spt <= secs /\ secs - tracks * spt < spt
  BY Division
<1>2. cylinders \in Nat /\ cylinders * heads <= tracks /\ tracks - cylinders * heads < heads
  BY <1>1, Division
<1>3. cylinders < 2^16
  OBVIOUS
<1> HIDE DEF tracks, cylinders
<1>4. Keeps([cylinders |-> cylinders, heads |-> heads, spt |-> spt], secs)
  BY <1>1, <1>2, <1>3, CylindersKeep
<1> QED BY <1>4 DEF tracks, cylinders

(* The same for the four divisions of SectorsToCHS.                           *)
LEMMA ChoicesKeep ==
  ASSUME NEW secs \in Nat
  PROVE  /\ \A heads \in 4 .. 16 :
              (secs \div 17) \div heads < 2^16 =>
                Keeps([cylinders |-> (secs \div 17) \div heads, heads |-> heads, spt |-> 17], secs)
         /\ (secs \div 31) \div 16 < 2^16 =>
              Keeps([cylinders |-> (secs \div 31) \div 16, heads |-> 16, spt |-> 31], secs)
         /\ (secs \div 63) \div 16 < 2^16 =>
              Keeps([cylinders |-> (secs \div 63) \div 16, heads |-> 16, spt |-> 63], secs)
         /\ (secs \div 255) \div 16 < 2^16 =>
              Keeps([cylinders |-> (secs \div 255) \div 16, heads |-> 16, spt |-> 255], secs)
<1>1. 17 \in 1 .. 255 /\ 31 \in 1 .. 255 /\ 63 \in 1 .. 255 /\ 255 \in 1 .. 255 /\ 16 \in 4 .. 16
  OBVIOUS
<1>2. ASSUME NEW heads \in 4 .. 16, (secs \div 17) \div heads < 2^16
      PROVE  Keeps([cylinders |-> (secs \div 17) \div heads, heads |-> heads, spt |-> 17], secs)
  BY <1>1, <1>2, DivisionsKeep, Zenon
<1>3. ASSUME (secs \div 31) \div 16 < 2^16
      PROVE  Keeps([cylinders |-> (secs \div 31) \div 16, heads |-> 16, spt |-> 31], secs)
  BY <1>1, <1>3, DivisionsKeep, Zenon
<1>4. ASSUME (secs \div 63) \div 16 < 2^16
      PROVE  Keeps([cylinders |-> (secs \div 63) \div 16, heads |-> 16, spt |-> 63], secs)
  BY <1>1, <1>4, DivisionsKeep, Zenon
<1>5. ASSUME (secs \div 255) \div 16 < 2^16
      PROVE  Keeps([cylinders |-> (secs \div 255) \div 16, heads |-> 16, spt |-> 255], secs)
  BY <1>1, <1>5, DivisionsKeep, Zenon
<1> QED BY <1>2, <1>3, <1>4, <1>5

(* The ways to choose heads and sectors per track.                           *)
LEMMA GeometryOfKeeps ==
  ASSUME NEW secs \in Nat
  PROVE  secs <= 65535 * 16 * 255 => Keeps(GeometryOf(secs), secs)
<1>0. SUFFICES ASSUME secs <= 65535 * 16 * 255
               PROVE  Keeps(GeometryOf(secs), secs)
  OBVIOUS
<1> DEFINE cth17 == secs \div 17
           h == (cth17 + 1023) \div 1024
           heads17 == IF h < 4 THEN 4 ELSE h
<1>1. cth17 \in Nat /\ h \in Nat
  OBVIOUS
<1>2. CASE secs >= 65535 * 16 * 63
  <2>1. (secs \div 255) \div 16 < 2^16
    BY <1>0, <1>2
  <2>2. Keeps([cylinders |-> (secs \div 255) \div 16, heads |-> 16, spt |-> 255], secs)
    BY <2>1, ChoicesKeep, Zenon
  <2>3. GeometryOf(secs) = [cylinders |-> (secs \div 255) \div 16, heads |-> 16, spt |-> 255]
    BY <1>2 DEF GeometryOf
  <2> QED BY <2>2, <2>3, Zenon
<1>3. CASE secs < 65535 * 16 * 63 /\ cth17 < heads17 * 1024 /\ heads17 <= 16
  <2>1. heads17 \in 4 .. 16
    BY <1>1, <1>3
  <2>2. cth17 \div heads17 < 2^16
    BY <1>1, <1>3, <2>1, Quotient
  <2>3. GeometryOf(secs) = [cylinders |-> (secs \div 17) \div heads17, heads |-> heads17, spt |-> 17]
    BY <1>3 DEF GeometryOf
  <2> HIDE DEF heads17
  <2>4. Keeps([cylinders |-> (secs \div 17) \div heads17, heads |-> heads17, spt |-> 17], secs)
    BY <2>1, <2>2, ChoicesKeep, Zenon
  <2> QED BY <2>3, <2>4, Zenon
<1>4. CASE secs < 65535 * 16 * 63 /\ ~(cth17 < heads17 * 1024 /\ heads17 <= 16)
           /\ secs \div 31 < 16 * 1024
  <2>1. (secs \div 31) \div 16 < 2^16
    BY <1>0, <1>4
  <2>2. Keeps([cylinders |-> (secs \div 31) \div 16, heads |-> 16, spt |-> 31], secs)
    BY <2>1, ChoicesKeep, Zenon
  <2>3. GeometryOf(secs) = [cylinders |-> (secs \div 31) \div 16, heads |-> 16, spt |-> 31]
    BY <1>4 DEF GeometryOf
  <2> QED BY <2>2, <2>3, Zenon
<1>5. CASE secs < 65535 * 16 * 63 /\ ~(cth17 < heads17 * 1024 /\ heads17 <= 16)
           /\ ~(secs \div 31 < 16 * 1024)
  <2>1. (secs \div 63) \div 16 < 2^16
    BY <1>0, <1>5
  <2>2. Keeps([cylinders |-> (secs \div 63) \div 16, heads |-> 16, spt |-> 63], secs)
    BY <2>1, ChoicesKeep, Zenon
  <2>3. GeometryOf(secs) = [cylinders |-> (secs \div 63) \div 16, heads |-> 16, spt |-> 63]
    BY <1>5 DEF GeometryOf
  <2> QED BY <2>2, <2>3, Zenon
<1> QED BY <1>2, <1>3, <1>4, <1>5

(* The geometry of the footer, for every size that VHD_Create can be asked for. *)
LEMMA GeometryKeeps ==
  ASSUME NEW n \in Nat
  PROVE  Keeps(SectorsToCHS(n), LimitedSize(n))
<1>1. LimitedSize(n) \in Nat /\ LimitedSize(n) <= 65535 * 16 * 255
  BY DEF LimitedSize, MaxSectors
<1> QED BY <1>1, GeometryOfKeeps DEF SectorsToCHS

-----------------------------------------------------------------------------
(* The table *)

(* The sizes of blocks that GenerateFile accepts. *)
LEMMA BlockSizes ==
  ASSUME NEW r, r.secPerBlockLog2 \in 8 .. 19
  PROVE  SectorsPerBlock(r) \in {256, 512, 1024, 2048, 4096, 8192, 16384, 32768, 65536, 131072, 262144, 524288}
<1>1. CASE r.secPerBlockLog2 = 8
  BY <1>1, 2^8 = 256 DEF SectorsPerBlock
<1>2. CASE r.secPerBlockLog2 = 9
  BY <1>2, 2^9 = 512 DEF SectorsPerBlock
<1>3. CASE r.secPerBlockLog2 = 10
  BY <1>3, 2^10 = 1024 DEF SectorsPerBlock
<1>4. CASE r.secPerBlockLog2 = 11
  BY <1>4, 2^11 = 2048 DEF SectorsPerBlock
<1>5. CASE r.secPerBlockLog2 = 12
  BY <1>5, 2^12 = 4096 DEF SectorsPerBlock
<1>6. CASE r.secPerBlockLog2 = 13
  BY <1>6, 2^13 = 8192 DEF SectorsPerBlock
<1>7. CASE r.secPerBlockLog2 = 14
  BY <1>7, 2^14 = 16384 DEF SectorsPerBlock
<1>8. CASE r.secPerBlockLog2 = 15
  BY <1>8, 2^15 = 32768 DEF SectorsPerBlock
<1>9. CASE r.secPerBlockLog2 = 16
  BY <1>9, 2^16 = 65536 DEF SectorsPerBlock
<1>10. CASE r.secPerBlockLog2 = 17
  BY <1>10, 2^17 = 131072 DEF SectorsPerBlock
<1>11. CASE r.secPerBlockLog2 = 18
  BY <1>11, 2^18 = 262144 DEF SectorsPerBlock
<1>12. CASE r.secPerBlockLog2 = 19
  BY <1>12, 2^19 = 524288 DEF SectorsPerBlock
<1> QED BY <1>1, <1>2, <1>3, <1>4, <1>5, <1>6, <1>7, <1>8, <1>9, <1>10, <1>11, <1>12

(* For the sizes of blocks that GenerateFile accepts, the number of entries is *)
(* the size of the disk in blocks, rounded up.                                 *)
LEMMA RoundUpBlocks ==
  ASSUME NEW n \in Nat \ {0}, NEW log2 \in 8 .. 19
  PROVE  /\ 2^log2 \in Nat \ {0}
         /\ RoundUp(n, log2) = (1 + (n - 1) \div 2^log2) * 2^log2
<1>1. \A B \in {256, 512, 1024, 2048, 4096, 8192, 16384, 32768, 65536, 131072, 262144, 524288} :
        (n + B - 1) \div B = 1 + (n - 1) \div B
  BY SMT
<1>2. 2^log2 \in {256, 512, 1024, 2048, 4096, 8192, 16384, 32768, 65536, 131072, 262144, 524288}
  <2> DEFINE r == [secPerBlockLog2 |-> log2]
  <2>1. r.secPerBlockLog2 \in 8 .. 19 /\ SectorsPerBlock(r) = 2^log2
    BY DEF SectorsPerBlock
  <2> HIDE DEF r
  <2>2. SectorsPerBlock(r) \in {256, 512, 1024, 2048, 4096, 8192, 16384, 32768, 65536, 131072, 262144, 524288}
    BY <2>1, BlockSizes
  <2> QED BY <2>1, <2>2
<1> QED BY <1>1, <1>2 DEF RoundUp

(* Every sector of the disk that a session has belongs to a block with an     *)
(* entry in the table, though Open rounds the size up to blocks of 2MB and    *)
(* the table was made for the size before that: Open refuses the file when    *)
(* the two differ too much (data_structures.cpp:164, 771, vhd_file.cpp:311).  *)
THEOREM EverySectorHasAnEntry ==
  ASSUME NEW r, r.secPerBlockLog2 \in 8 .. 19, ChsSectors(r) \in Nat \ {0},
         SizeAccepted(r),
         NEW s \in 0 .. CHS_DiskSzInSectors(r) - 1
  PROVE  s \div SectorsPerBlock(r) \in Blocks(r)
<1> DEFINE B == 2^r.secPerBlockLog2
           entries == MaxBatEntries(r)
<1>1. B \in Nat \ {0} /\ CurrSize(r) = entries * B
  BY RoundUpBlocks DEF CurrSize, MaxBatEntries
<1>2. entries \in Nat \ {0}
  <2>1. (ChsSectors(r) - 1) \div B \in Nat
    BY <1>1, Division
  <2> QED BY <2>1 DEF MaxBatEntries
<1>3. s \in Nat /\ s < entries * B
  <2>1. CHS_DiskSzInSectors(r) <= entries * B
    BY <1>1 DEF SizeAccepted
  <2>2. CHS_DiskSzInSectors(r) \in Nat
    <3>1. RoundUp(ChsSectors(r), KDefSecPerBlockLog2) \in Nat
      BY RoundUpBlocks DEF RoundUp, KDefSecPerBlockLog2
    <3> QED BY <3>1 DEF CHS_DiskSzInSectors
  <2>3. entries * B \in Nat
    BY <1>1, <1>2
  <2> HIDE DEF B, entries
  <2> QED BY <2>1, <2>2, <2>3
<1> HIDE DEF B, entries
<1>4. s \div B < entries /\ s \div B \in Nat
  BY <1>1, <1>2, <1>3, Division
<1> QED BY <1>2, <1>4 DEF Blocks, SectorsPerBlock, B, entries

-----------------------------------------------------------------------------
(* Created VHDs *)

(* What the structures of the file are made from stays what was asked for.    *)
LEMMA AskedInvariance == Spec => [](asked \in Requests \cup {NoRequest})
<1>1. Init => asked \in Requests \cup {NoRequest}
  BY DEF Init
<1>2. asked \in Requests \cup {NoRequest} /\ [Next]_vars => (asked \in Requests \cup {NoRequest})'
  <2> SUFFICES ASSUME asked \in Requests \cup {NoRequest}, [Next]_vars
               PROVE  (asked \in Requests \cup {NoRequest})'
    OBVIOUS
  <2>1. CASE Client
    <3>1. CASE \E r \in Requests : VHD_Create(r)
      BY <3>1 DEF VHD_Create
    <3>2. CASE ~\E r \in Requests : VHD_Create(r)
      BY <2>1, <3>2 DEF Client, VHD_Open, VHD_Flush, WriteBlock, fileVars
    <3> QED BY <3>1, <3>2
  <2>2. CASE Step
    BY <2>2 DEF Step, OpenParent, Generate, Generated, Open, AppendBlock, AppendFooter,
                AppendBitmap, WriteData, FlushBat, FlushBits, Sync, Unlink, Written,
                NotWritten, OnlyFile, fileVars
  <2>3. CASE ProcessDies \/ PowerFails \/ UNCHANGED vars
    BY <2>3 DEF ProcessDies, PowerFails, OnlyFile, vars, fileVars
  <2> QED BY <2>1, <2>2, <2>3 DEF Next
<1> QED BY <1>1, <1>2, PTL DEF Spec

(* Whatever VHD_Create is asked for, the disk is not larger, and loses less   *)
(* than a cylinder.                                                           *)
THEOREM SizeKept == Spec => []GeometryKeepsSize
<1>1. asked \in Requests \cup {NoRequest} => GeometryKeepsSize
  BY GeometryKeeps, RequestsAssumption DEF GeometryKeepsSize, Keeps, LimitedSize
<1> QED BY <1>1, AskedInvariance, PTL

-----------------------------------------------------------------------------
(* Sizes and places in a file *)

(* The sectors of a block in the file: its bitmap and its data *)
BlockLen(r) == SBmp_SizeInSectors(r) + SectorsPerBlock(r)

(* The first sector behind the table *)
TableEnd(r) == KBatStartSec + BatSectors(r)

(* The table does not reach what the file has behind the place for it. *)
TableFits(r) ==
  TableEnd(r) <= (IF r.type = "Diff" THEN KLocatorsStartSec(r) ELSE KFooterSec(r))

LEMMA ChsNatural == ASSUME NEW n \in Nat PROVE ChsToSectors(SectorsToCHS(n)) \in Nat
<1>1. LimitedSize(n) \in Nat
  BY DEF LimitedSize, MaxSectors
<1>2. \A secs \in Nat : GeometryOf(secs).cylinders \in Nat /\ GeometryOf(secs).heads \in Nat
                         /\ GeometryOf(secs).spt \in Nat
  <2> TAKE secs \in Nat
  <2> DEFINE cth17 == secs \div 17
             h == (cth17 + 1023) \div 1024
             heads17 == IF h < 4 THEN 4 ELSE h
  <2>1. cth17 \in Nat /\ h \in Nat /\ heads17 \in Nat \ {0} /\ cth17 \div heads17 \in Nat
    <3>1. cth17 \in Nat /\ h \in Nat
      OBVIOUS
    <3> HIDE DEF cth17, h
    <3>2. heads17 \in Nat \ {0}
      BY <3>1
    <3> QED BY <3>1, <3>2, Division
  <2>2. (secs \div 31) \div 16 \in Nat /\ (secs \div 63) \div 16 \in Nat /\ (secs \div 255) \div 16 \in Nat
    OBVIOUS
  <2>3. GeometryOf(secs) \in {[cylinders |-> cth17 \div heads17, heads |-> heads17, spt |-> 17],
                              [cylinders |-> (secs \div 31) \div 16, heads |-> 16, spt |-> 31],
                              [cylinders |-> (secs \div 63) \div 16, heads |-> 16, spt |-> 63],
                              [cylinders |-> (secs \div 255) \div 16, heads |-> 16, spt |-> 255]}
    BY DEF GeometryOf
  <2> QED BY <2>1, <2>2, <2>3
<1> QED BY <1>1, <1>2 DEF SectorsToCHS, ChsToSectors

(* What the proofs need to know of the numbers of a request that GenerateFile *)
(* accepts.                                                                   *)
LEMMA Numbers ==
  ASSUME NEW r \in Requests, RequestValid(r)
  PROVE  /\ r.type \in {"Fixed", "Dynamic", "Diff"}
         /\ MaxBatEntries(r) \in Nat /\ BatSectors(r) \in Nat /\ KBatSizeInSectors(r) \in Nat
         /\ SectorsPerBlock(r) \in Nat \ {0} /\ SBmp_SizeInSectors(r) \in Nat \ {0}
         /\ CurrSize(r) \in Nat /\ (r.type = "Fixed" => CurrSize(r) > 0)
         /\ SizeAccepted(r) => MaxBatEntries(r) > 0
         /\ SizeAccepted(r) => BatSectors(r) > 0
         /\ BatSectors(r) = (MaxBatEntries(r) + 127) \div 128
<1> DEFINE n == ChsSectors(r)
           B == 2^r.secPerBlockLog2
<1>1. r.type \in {"Fixed", "Dynamic", "Diff"} /\ n \in Nat /\ r.secPerBlockLog2 \in 8 .. 19
  BY RequestsAssumption, ChsNatural DEF RequestValid, ChsSectors
<1>2. B \in {256, 512, 1024, 2048, 4096, 8192, 16384, 32768, 65536, 131072, 262144, 524288}
  <2>1. B = SectorsPerBlock(r)
    BY DEF SectorsPerBlock
  <2> HIDE DEF B
  <2> QED BY <1>1, <2>1, BlockSizes
<1>3. r.type = "Fixed" => n > 0
  BY <1>1 DEF RequestValid
<1>4. MaxBatEntries(r) = 1 + (n - 1) \div B /\ CurrSize(r) = ((n + B - 1) \div B) * B
  BY DEF MaxBatEntries, CurrSize, RoundUp
<1>5. SectorsPerBlock(r) = B
  BY DEF SectorsPerBlock
<1>6. SBmp_SizeInSectors(r) = (((B \div 8 + 511) \div 512) * 512) \div 512
  BY 2^9 = 512 DEF SBmp_SizeInSectors, RoundUp, SectorsPerBlock, KDefSecSize
<1>7. SizeAccepted(r) => n > 0
  <2>1. SUFFICES ASSUME SizeAccepted(r), n = 0 PROVE FALSE
    BY <1>1
  <2>2. CurrSize(r) = 0
    <3>1. (B - 1) \div B = 0
      BY <1>2
    <3>2. 0 + B - 1 = B - 1 /\ 0 * B = 0
      BY <1>2
    <3> HIDE DEF B
    <3> QED BY <3>1, <3>2, <1>4, <2>1
  <2>3. CHS_DiskSzInSectors(r) >= 2 /\ CHS_DiskSzInSectors(r) <= 0
    BY <2>1, <2>2 DEF SizeAccepted
  <2>4. CHS_DiskSzInSectors(r) = 0
    BY <2>1, <2>2 DEF CHS_DiskSzInSectors
  <2> QED BY <2>3, <2>4
<1>8. 1 + (n - 1) \div B \in Nat /\ (n > 0 => 1 + (n - 1) \div B > 0)
  BY <1>1, <1>2
<1>9. ((n + B - 1) \div B) * B \in Nat /\ (n > 0 => ((n + B - 1) \div B) * B > 0)
  BY <1>1, <1>2
<1>10. SBmp_SizeInSectors(r) \in Nat \ {0} /\ SectorsPerBlock(r) \in Nat \ {0}
  <2>1. \A b \in {256, 512, 1024, 2048, 4096, 8192, 16384, 32768, 65536, 131072, 262144, 524288} :
          (((b \div 8 + 511) \div 512) * 512) \div 512 \in Nat \ {0}
    OBVIOUS
  <2> HIDE DEF B
  <2> QED BY <1>2, <1>5, <1>6, <2>1
<1>11. BatSectors(r) = (MaxBatEntries(r) + 127) \div 128
  BY DEF BatSectors, EntriesPerSector, KDefSecSize
<1>12. KBatSizeInSectors(r) = 1 + (MaxBatEntries(r) - 1) \div 512
  BY DEF KBatSizeInSectors, KDefSecSize
<1> HIDE DEF n, B
<1> QED BY <1>1, <1>3, <1>4, <1>7, <1>8, <1>9, <1>10, <1>11, <1>12

-----------------------------------------------------------------------------
(* Writes *)

SectorShape(x) ==
  /\ x = [kind |-> x.kind, ones |-> x.ones, places |-> x.places]
  /\ x.kind \in Kinds /\ x.ones \in Nat
  /\ \A i \in DOMAIN x.places : x.places[i] \in Nat

FileShape(f) ==
  /\ f = [exists |-> f.exists, size |-> f.size, ragged |-> f.ragged, at |-> f.at]
  /\ f.exists \in BOOLEAN /\ f.size \in Nat /\ f.ragged \in BOOLEAN
  /\ \A s \in DOMAIN f.at :
       s \in 0 .. f.size /\ (s = f.size => f.ragged) /\ SectorShape(f.at[s])

(* What is written at once is a run of sectors. *)
IsRun(c, a, e) ==
  a \in Nat /\ e \in Nat /\ a <= e /\ DOMAIN c = a .. e /\ \A s \in DOMAIN c : SectorShape(c[s])

IsContent(c) == c = <<>> \/ \E a, e : IsRun(c, a, e)

(* Where the file ends, with a sector that it has in part *)
End(f) == f.size + (IF f.ragged THEN 1 ELSE 0)

LEMMA Ends ==
  ASSUME NEW f, f.size \in Nat
  PROVE  (f.ragged => End(f) = f.size + 1) /\ (~f.ragged => End(f) = f.size)
<1>1. CASE f.ragged
  BY <1>1 DEF End
<1>2. CASE ~f.ragged
  <2>1. f.size + 0 = f.size
    OBVIOUS
  <2> QED BY <1>2, <2>1, Zenon DEF End
<1> QED BY <1>1, <1>2, Zenon

Junk == Plain("Junk")

(* What a write of c leaves of the file f, finished or not *)
Wrote(f, g, c) ==
  /\ FileShape(g) /\ g.exists = f.exists
  /\ f.size <= g.size /\ End(f) <= End(g)
  /\ DOMAIN f.at \subseteq DOMAIN g.at
  /\ \A s : s \notin DOMAIN c => At(g, s) = At(f, s)
  /\ \A s \in DOMAIN c :
       At(g, s) = At(f, s) \/ At(g, s) = c[s] \/ (s >= f.size /\ At(g, s) = Junk)
  /\ (\A s \in DOMAIN c : s < f.size) => g.size = f.size /\ g.ragged = f.ragged

(* What it leaves when it is finished *)
WroteAll(f, g, c) ==
  /\ Wrote(f, g, c)
  /\ \A s \in DOMAIN c : s \in DOMAIN g.at /\ s < End(g) /\ At(g, s) = c[s]

LEMMA PlainShape == ASSUME NEW kind \in Kinds, NEW n \in Nat PROVE SectorShape(Sector(kind, n))
<1>1. DOMAIN <<>> = {}
  OBVIOUS
<1> QED BY <1>1 DEF SectorShape, Sector

LEMMA AtShape == ASSUME NEW f, FileShape(f), NEW s PROVE SectorShape(At(f, s))
<1>1. CASE s \in DOMAIN f.at
  BY <1>1 DEF At, FileShape
<1>2. CASE s \notin DOMAIN f.at
  <2>1. "Zero" \in Kinds /\ 0 \in Nat
    BY DEF Kinds
  <2> QED BY <1>2, <2>1, PlainShape DEF At, Plain
<1> QED BY <1>1, <1>2

LEMMA LastOfRun ==
  ASSUME NEW c, NEW a, NEW e, IsRun(c, a, e)
  PROVE  EndOf(c) = e /\ c # <<>> /\ a \in Nat /\ e \in Nat
<1>1. e \in DOMAIN c /\ e + 1 \notin DOMAIN c
  BY DEF IsRun
<1>2. \A s \in DOMAIN c : s + 1 \notin DOMAIN c => s = e
  BY DEF IsRun
<1>3. EndOf(c) = e
  BY <1>1, <1>2 DEF EndOf
<1>4. c # <<>>
  <2>1. DOMAIN <<>> = {}
    OBVIOUS
  <2> QED BY <1>1, <2>1
<1> QED BY <1>3, <1>4 DEF IsRun

(* The size of a file when sectors up to e were written, the last one whole or *)
(* in part, and whether its end is ragged                                      *)
Resized(f, e, n, b) ==
  \/ e < f.size /\ n = f.size /\ b = f.ragged
  \/ e >= f.size /\ n = e + 1 /\ b = FALSE
  \/ e >= f.size /\ n = e /\ b = TRUE

WithSectors(f, c, n, b) == [exists |-> f.exists, size |-> n, ragged |-> b, at |-> Over(c, f.at)]

(* A write of a run of sectors that is finished. *)
LEMMA WriteDoes ==
  ASSUME NEW f, FileShape(f), NEW c, NEW a, NEW e, IsRun(c, a, e), NEW n, NEW b,
         Resized(f, e, n, b), NEW g, g = WithSectors(f, c, n, b)
  PROVE  WroteAll(f, g, c)
<1>5. f = [exists |-> f.exists, size |-> f.size, ragged |-> f.ragged, at |-> f.at]
      /\ f.exists \in BOOLEAN /\ f.size \in Nat /\ f.ragged \in BOOLEAN
  BY DEF FileShape
<1>7. g.exists = f.exists /\ g.at = Over(c, f.at)
      /\ g = [exists |-> g.exists, size |-> g.size, ragged |-> g.ragged, at |-> g.at]
  BY DEF WithSectors
<1>8. e \in Nat /\ a \in Nat /\ a <= e /\ DOMAIN c = a .. e /\ \A s \in DOMAIN c : SectorShape(c[s])
  BY DEF IsRun
<1>9. /\ g.size = n /\ g.ragged = b
      /\ e < f.size => g.size = f.size /\ g.ragged = f.ragged
      /\ e >= f.size => (g.size = e + 1 /\ g.ragged = FALSE) \/ (g.size = e /\ g.ragged = TRUE)
      /\ g.ragged \in BOOLEAN
  <2>1. g.size = n /\ g.ragged = b
    BY DEF WithSectors
  <2>2. e < f.size \/ e >= f.size
    BY <1>5, <1>8
  <2>3. ~(e < f.size /\ e >= f.size)
    BY <1>5, <1>8
  <2>4. b \in BOOLEAN
    BY <1>5, Zenon DEF Resized
  <2> QED BY <2>1, <2>2, <2>3, <2>4, Zenon DEF Resized
<1>10. DOMAIN g.at = DOMAIN c \cup DOMAIN f.at
       /\ \A s \in DOMAIN g.at : g.at[s] = IF s \in DOMAIN c THEN c[s] ELSE f.at[s]
  BY <1>7 DEF Over
<1>11. \A s : At(g, s) = (IF s \in DOMAIN c THEN c[s] ELSE At(f, s))
  BY <1>10 DEF At
<1>12. g.size \in Nat /\ f.size <= g.size /\ End(f) <= End(g) /\ e < End(g)
  <2>1. (f.ragged => End(f) = f.size + 1) /\ (~f.ragged => End(f) = f.size)
    BY <1>5, <1>8, Ends
  <2>2. (g.ragged => End(g) = g.size + 1) /\ (~g.ragged => End(g) = g.size)
    <3>1. g.size \in Nat
      BY <1>5, <1>8, <1>9
    <3> QED BY <3>1, <1>9, Ends
  <2>3. CASE e < f.size
    <3>1. End(g) = End(f) /\ g.size = f.size
      BY <1>9, <2>3 DEF End
    <3> QED BY <3>1, <1>5, <1>8, <2>1, <2>3
  <2>4. CASE e >= f.size /\ g.size = e + 1 /\ g.ragged = FALSE
    <3>1. End(g) = e + 1
      BY <2>2, <2>4, Zenon
    <3> QED BY <3>1, <1>5, <1>8, <2>1, <2>4
  <2>5. CASE e >= f.size /\ g.size = e /\ g.ragged = TRUE
    <3>1. End(g) = e + 1
      BY <2>2, <2>5, Zenon
    <3> QED BY <3>1, <1>5, <1>8, <2>1, <2>5
  <2>6. e < f.size \/ e >= f.size
    BY <1>5, <1>8
  <2> QED BY <1>9, <2>3, <2>4, <2>5, <2>6, Zenon
<1>13. \A s \in DOMAIN g.at : s \in 0 .. g.size /\ (s = g.size => g.ragged) /\ SectorShape(g.at[s])
  <2> SUFFICES ASSUME NEW s \in DOMAIN g.at
               PROVE  s \in 0 .. g.size /\ (s = g.size => g.ragged) /\ SectorShape(g.at[s])
    OBVIOUS
  <2>1. CASE s \in DOMAIN c
    <3>1. s \in Nat /\ s <= e
      BY <1>8, <2>1
    <3> QED BY <3>1, <1>5, <1>8, <1>9, <1>10, <1>12, <2>1
  <2>2. CASE s \notin DOMAIN c
    <3>1. s \in DOMAIN f.at /\ g.at[s] = f.at[s]
      BY <1>10, <2>2
    <3>2. s \in 0 .. f.size /\ (s = f.size => f.ragged) /\ SectorShape(f.at[s])
      BY <3>1 DEF FileShape
    <3>3. s # e
      BY <1>8, <2>2
    <3> QED BY <3>1, <3>2, <3>3, <1>5, <1>8, <1>9, <1>12
  <2> QED BY <2>1, <2>2
<1>14. FileShape(g)
  BY <1>5, <1>7, <1>9, <1>12, <1>13 DEF FileShape
<1>15. (\A s \in DOMAIN c : s < f.size) => g.size = f.size /\ g.ragged = f.ragged
  <2>1. e \in DOMAIN c
    BY <1>8
  <2> QED BY <2>1, <1>9
<1>16. Wrote(f, g, c)
  BY <1>7, <1>10, <1>11, <1>12, <1>14, <1>15 DEF Wrote
<1>17. \A s \in DOMAIN c : s \in DOMAIN g.at /\ s < End(g) /\ At(g, s) = c[s]
  <2> SUFFICES ASSUME NEW s \in DOMAIN c PROVE s \in DOMAIN g.at /\ s < End(g) /\ At(g, s) = c[s]
    OBVIOUS
  <2>1. s \in Nat /\ s <= e
    BY <1>8
  <2>2. s < End(g)
    <3>1. End(g) \in Nat
      BY <1>12 DEF End
    <3> QED BY <3>1, <2>1, <1>8, <1>12
  <2> QED BY <2>2, <1>10, <1>11
<1>18. WroteAll(f, g, c)
  BY <1>16, <1>17 DEF WroteAll
<1> QED BY <1>18

(* The size of the file g when the sectors up to e of f were written *)
Grown(f, g, e) ==
  /\ e < f.size => g.size = f.size /\ g.ragged = f.ragged
  /\ e >= f.size => g.size = e + 1 /\ g.ragged = FALSE

LEMMA WholeWrite ==
  ASSUME NEW f, FileShape(f), NEW c, NEW a, NEW e, IsRun(c, a, e), NEW g, g = Write(f, c, FALSE)
  PROVE  WroteAll(f, g, c) /\ Grown(f, g, e)
<1>1. EndOf(c) = e /\ c # <<>> /\ e \in Nat
  BY LastOfRun
<1>2. f = [exists |-> f.exists, size |-> f.size, ragged |-> f.ragged, at |-> f.at]
      /\ f.size \in Nat /\ f.ragged \in BOOLEAN
  BY DEF FileShape
<1>3. PICK n, b : /\ n = IF e + 1 > f.size THEN e + 1 ELSE f.size
                  /\ b = (f.ragged /\ e < f.size)
  OBVIOUS
<1>4. g = [f EXCEPT !.at = Over(c, @), !.size = n, !.ragged = b]
  <2>1. g = [f EXCEPT !.at = Over(c, @), !.size = IF e + 1 > @ THEN e + 1 ELSE @,
                      !.ragged = @ /\ e < f.size]
    BY <1>1 DEF Write
  <2> QED BY <1>2, <1>3, <2>1, Zenon
<1>5. g = WithSectors(f, c, n, b)
  BY <1>2, <1>4 DEF WithSectors
<1>6. (e < f.size => n = f.size) /\ (e >= f.size => n = e + 1 /\ ~(e < f.size))
      /\ (e < f.size \/ e >= f.size)
  BY <1>1, <1>2, <1>3
<1>7. /\ e < f.size => n = f.size /\ b = f.ragged
      /\ e >= f.size => n = e + 1 /\ b = FALSE
  BY <1>2, <1>3, <1>6, Zenon
<1>8. Resized(f, e, n, b)
  BY <1>6, <1>7, Zenon DEF Resized
<1>9. WroteAll(f, g, c) /\ g.size = n /\ g.ragged = b
  <2>1. WroteAll(f, g, c)
    BY <1>5, <1>8, WriteDoes, Zenon
  <2>2. g.size = n /\ g.ragged = b
    BY ONLY <1>5 DEF WithSectors
  <2> QED BY <2>1, <2>2, Zenon
<1>10. Grown(f, g, e)
  BY <1>7, <1>9, Zenon DEF Grown
<1> QED BY <1>9, <1>10, Zenon

LEMMA PartWrite ==
  ASSUME NEW f, FileShape(f), NEW c, NEW a, NEW e, IsRun(c, a, e), NEW g, g = Write(f, c, TRUE),
         e >= f.size
  PROVE  WroteAll(f, g, c) /\ g.size = e /\ g.ragged = TRUE
<1>1. EndOf(c) = e /\ c # <<>> /\ e \in Nat
  BY LastOfRun
<1>2. f = [exists |-> f.exists, size |-> f.size, ragged |-> f.ragged, at |-> f.at]
      /\ f.size \in Nat /\ f.ragged \in BOOLEAN
  BY DEF FileShape
<1>3. PICK n, b : /\ n = IF e > f.size THEN e ELSE f.size
                  /\ b = (f.ragged \/ e >= f.size)
  OBVIOUS
<1>4. g = [f EXCEPT !.at = Over(c, @), !.size = n, !.ragged = b]
  <2>1. g = [f EXCEPT !.at = Over(c, @), !.size = IF e > @ THEN e ELSE @,
                      !.ragged = @ \/ e >= f.size]
    BY <1>1 DEF Write
  <2> QED BY <1>2, <1>3, <2>1, Zenon
<1>5. g = WithSectors(f, c, n, b)
  BY <1>2, <1>4 DEF WithSectors
<1>6. n = e /\ b = TRUE
  <2>1. n = e
    BY <1>1, <1>2, <1>3
  <2>2. b = TRUE
    BY <1>3, Zenon
  <2> QED BY <2>1, <2>2
<1>7. Resized(f, e, n, b)
  BY <1>6, Zenon DEF Resized
<1>8. WroteAll(f, g, c) /\ g.size = n /\ g.ragged = b
  <2>1. WroteAll(f, g, c)
    BY <1>5, <1>7, WriteDoes, Zenon
  <2>2. g.size = n /\ g.ragged = b
    BY ONLY <1>5 DEF WithSectors
  <2> QED BY <2>1, <2>2, Zenon
<1> QED BY <1>6, <1>8, Zenon

LEMMA NothingWritten == ASSUME NEW f, FileShape(f), NEW c PROVE Wrote(f, f, c)
BY DEF Wrote, FileShape, End

(* Beginnings of what is written *)
Before(c, s) == [t \in {u \in DOMAIN c : u < s} |-> c[t]]

(* What a write that fails, or is not finished, may leave. *)
LEMMA FailedWriteDoes ==
  ASSUME NEW f, FileShape(f), NEW c, IsContent(c), NEW g \in FailedWrites(f, c)
  PROVE  Wrote(f, g, c) /\ c # <<>>
<1>1. \/ \E s \in DOMAIN c : g = Write(f, Before(c, s), FALSE)
      \/ \E s \in DOMAIN c : s >= f.size /\ g = Write(f, Over(One(s, Junk), Before(c, s)), TRUE)
  BY DEF FailedWrites, Before, Junk
<1>2. PICK z \in DOMAIN c : \/ g = Write(f, Before(c, z), FALSE)
                            \/ z >= f.size /\ g = Write(f, Over(One(z, Junk), Before(c, z)), TRUE)
  BY <1>1
<1>3. c # <<>>
  <2>1. DOMAIN <<>> = {}
    OBVIOUS
  <2> QED BY <1>2, <2>1
<1>4. PICK a, e : IsRun(c, a, e)
  BY <1>3 DEF IsContent
<1>5. a \in Nat /\ e \in Nat /\ a <= e /\ DOMAIN c = a .. e /\ z \in Nat /\ a <= z /\ z <= e
      /\ \A s \in DOMAIN c : SectorShape(c[s])
  BY <1>2, <1>4 DEF IsRun
<1>6. DOMAIN Before(c, z) = a .. z - 1 /\ \A s \in a .. z - 1 : Before(c, z)[s] = c[s] /\ s \in DOMAIN c
  BY <1>5 DEF Before
<1>7. CASE g = Write(f, Before(c, z), FALSE)
  <2>1. CASE a = z
    <3>1. Before(c, z) = <<>>
      <4>1. {u \in DOMAIN c : u < z} = {}
        BY <1>5, <2>1
      <4> QED BY <4>1 DEF Before
    <3>2. g = f
      BY <1>7, <3>1 DEF Write
    <3> QED BY <1>3, <3>2, NothingWritten
  <2>2. CASE a < z
    <3>1. IsRun(Before(c, z), a, z - 1)
      BY <1>5, <1>6, <2>2 DEF IsRun
    <3>2. /\ Wrote(f, g, Before(c, z))
          /\ \A s : At(g, s) = IF s \in DOMAIN Before(c, z) THEN Before(c, z)[s] ELSE At(f, s)
      <4>1. WroteAll(f, g, Before(c, z))
        BY <3>1, <1>7, WholeWrite, Zenon
      <4> QED BY <4>1 DEF WroteAll, Wrote
    <3>3. DOMAIN Before(c, z) \subseteq DOMAIN c
      BY <1>5, <1>6
    <3>4. \A s : s \notin DOMAIN c => At(g, s) = At(f, s)
      BY <3>2, <3>3
    <3>5. \A s \in DOMAIN c : At(g, s) = At(f, s) \/ At(g, s) = c[s]
      BY <3>2, <1>6
    <3>6. (\A s \in DOMAIN c : s < f.size) => g.size = f.size /\ g.ragged = f.ragged
      BY <3>2, <3>3 DEF Wrote
    <3> QED BY <1>3, <3>2, <3>4, <3>5, <3>6 DEF Wrote
  <2> QED BY <1>5, <2>1, <2>2
<1>8. CASE z >= f.size /\ g = Write(f, Over(One(z, Junk), Before(c, z)), TRUE)
  <2>1. PICK d : d = Over(One(z, Junk), Before(c, z))
    OBVIOUS
  <2>2. DOMAIN One(z, Junk) = {z} /\ One(z, Junk)[z] = Junk
    BY DEF One
  <2>3. DOMAIN d = a .. z
    <3>1. DOMAIN d = {z} \cup a .. z - 1
      BY <2>1, <2>2, <1>6 DEF Over
    <3> QED BY <3>1, <1>5
  <2>4. \A s \in DOMAIN d : d[s] = IF s = z THEN Junk ELSE c[s]
    <3>1. \A s \in DOMAIN d : d[s] = IF s \in {z} THEN One(z, Junk)[s] ELSE Before(c, z)[s]
      BY <2>1, <2>2 DEF Over
    <3> QED BY <3>1, <2>2, <2>3, <1>5, <1>6
  <2>5. SectorShape(Junk)
    <3>1. "Junk" \in Kinds /\ 0 \in Nat
      BY DEF Kinds
    <3> QED BY <3>1, PlainShape DEF Junk, Plain
  <2>6. IsRun(d, a, z)
    <3>1. \A s \in DOMAIN d : s \in DOMAIN c
      BY <2>3, <1>5
    <3> QED BY <3>1, <2>3, <2>4, <2>5, <1>5 DEF IsRun
  <2>7. Wrote(f, g, d) /\ \A s : At(g, s) = IF s \in DOMAIN d THEN d[s] ELSE At(f, s)
    <3>1. WroteAll(f, g, d)
      BY <2>1, <2>6, <1>8, PartWrite, Zenon
    <3> QED BY <3>1 DEF WroteAll, Wrote
  <2>8. \A s : s \notin DOMAIN c => At(g, s) = At(f, s)
    BY <2>7, <2>3, <1>5
  <2>9. \A s \in DOMAIN c : At(g, s) = At(f, s) \/ At(g, s) = c[s] \/ (s >= f.size /\ At(g, s) = Junk)
    <3> SUFFICES ASSUME NEW s \in DOMAIN c
                 PROVE  At(g, s) = At(f, s) \/ At(g, s) = c[s] \/ (s >= f.size /\ At(g, s) = Junk)
      OBVIOUS
    <3>1. CASE s = z
      <4>1. At(g, s) = Junk
        BY <3>1, <2>3, <2>4, <2>7, <1>5
      <4> QED BY <4>1, <3>1, <1>8
    <3>2. CASE s # z
      BY <3>2, <2>4, <2>7
    <3> QED BY <3>1, <3>2
  <2>10. ~(\A s \in DOMAIN c : s < f.size)
    <3>1. f.size \in Nat
      BY DEF FileShape
    <3> QED BY <3>1, <1>5, <1>8
  <2> QED BY <1>3, <2>7, <2>8, <2>9, <2>10 DEF Wrote
<1> QED BY <1>2, <1>7, <1>8

-----------------------------------------------------------------------------
(* Tables *)

TableShape(t, r) ==
  DOMAIN t = 0 .. BatSectors(r) - 1 /\ \A k \in 0 .. BatSectors(r) - 1 : SectorShape(t[k])

LEMMA Constants ==
  EntriesPerSector = 128 /\ KBatStartSec = 3 /\ KHdrStartSec = 1 /\ Unused = -1 /\ NoPlace = -2
BY DEF EntriesPerSector, KDefSecSize, KBatStartSec, KHdrStartSec, Unused, NoPlace

(* The word of the table that a block has. *)
LEMMA WordOf ==
  ASSUME NEW r \in Requests, RequestValid(r), NEW b \in Blocks(r)
  PROVE  /\ b \in Nat /\ b \div EntriesPerSector \in 0 .. BatSectors(r) - 1
         /\ b % EntriesPerSector \in 0 .. EntriesPerSector - 1
         /\ (b \div EntriesPerSector) * EntriesPerSector + (b % EntriesPerSector) = b
<1>1. MaxBatEntries(r) \in Nat /\ BatSectors(r) = (MaxBatEntries(r) + 127) \div 128
  BY Numbers
<1>2. b \in Nat /\ b < MaxBatEntries(r)
  BY <1>1 DEF Blocks
<1>3. b \div 128 \in Nat /\ b % 128 \in 0 .. 127 /\ (b \div 128) * 128 + (b % 128) = b
  BY <1>2
<1>4. b \div 128 < (MaxBatEntries(r) + 127) \div 128
  BY <1>1, <1>2
<1> QED BY <1>1, <1>2, <1>3, <1>4, Constants

(* A sector of the table has words of blocks. *)
LEMMA SectorHasBlocks ==
  ASSUME NEW r \in Requests, RequestValid(r), NEW k \in 0 .. BatSectors(r) - 1
  PROVE  k \in Nat /\ k * EntriesPerSector < MaxBatEntries(r)
<1>1. MaxBatEntries(r) \in Nat /\ BatSectors(r) = (MaxBatEntries(r) + 127) \div 128
  BY Numbers
<1> QED BY <1>1, Constants

LEMMA EntryInIs ==
  ASSUME NEW x, SectorShape(x), NEW i
  PROVE  /\ EntryIn(x, i) \in Nat \cup {Unused, NoPlace}
         /\ EntryIn(x, i) = NoPlace <=> x.kind \notin {"Zero", "Table"}
<1>1. x.kind \in {"Zero", "Table"} => EntryIn(x, i) \in Nat \cup {Unused}
  BY DEF EntryIn, SectorShape
<1>2. x.kind \notin {"Zero", "Table"} => EntryIn(x, i) = NoPlace
  BY DEF EntryIn
<1> QED BY <1>1, <1>2, Constants

LEMMA EntryIs ==
  ASSUME NEW r \in Requests, RequestValid(r), NEW t, TableShape(t, r), NEW b \in Blocks(r)
  PROVE  Entry(t, b) \in Nat \cup {Unused, NoPlace}
<1>1. b \div EntriesPerSector \in 0 .. BatSectors(r) - 1
  BY WordOf
<1>2. SectorShape(t[b \div EntriesPerSector])
  BY <1>1 DEF TableShape
<1> QED BY <1>2, EntryInIs DEF Entry

LEMMA TableOfIs ==
  ASSUME NEW f, FileShape(f), NEW r
  PROVE  /\ TableShape(TableOf(f, r), r)
         /\ \A k \in 0 .. BatSectors(r) - 1 : TableOf(f, r)[k] = At(f, KBatStartSec + k)
BY AtShape DEF TableOf, TableShape

(* The table u is t, but for the entry of the block b, or for p. *)
Others(t, u, r, b) == \A c \in Blocks(r) : c # b => Entry(u, c) = Entry(t, c)

Words(t, u, r, p) ==
  \A k \in 0 .. BatSectors(r) - 1 : \A i : EntryIn(u[k], i) = EntryIn(t[k], i) \/ EntryIn(u[k], i) = p

(* An entry that is set. *)
LEMMA WithEntryIs ==
  ASSUME NEW r \in Requests, RequestValid(r), NEW t, TableShape(t, r), NEW b \in Blocks(r),
         Entry(t, b) # NoPlace, NEW p \in Nat, NEW u, u = WithEntry(t, b, p)
  PROVE  /\ TableShape(u, r) /\ Entry(u, b) = p
         /\ Others(t, u, r, b) /\ Words(t, u, r, p)
<1>1. PICK kb, ib : kb = b \div EntriesPerSector /\ ib = b % EntriesPerSector
  OBVIOUS
<1>2. kb \in 0 .. BatSectors(r) - 1 /\ ib \in 0 .. EntriesPerSector - 1
  BY <1>1, WordOf
<1>3. SectorShape(t[kb]) /\ t[kb].kind \in {"Zero", "Table"}
  <2>1. SectorShape(t[kb])
    BY <1>2 DEF TableShape
  <2>2. EntryIn(t[kb], ib) # NoPlace
    BY <1>1 DEF Entry
  <2> QED BY <2>1, <2>2, EntryInIs
<1>4. PICK x : x = [t[kb] EXCEPT !.places = Over(One(ib, p), t[kb].places)]
  OBVIOUS
<1>5. u = [t EXCEPT ![kb] = x]
  <2>1. u = [t EXCEPT ![kb] = [t[kb] EXCEPT !.places = Over(One(ib, p), t[kb].places)]]
    BY <1>1 DEF WithEntry
  <2> QED BY <1>4, <2>1, Zenon
<1>6. x = [kind |-> t[kb].kind, ones |-> t[kb].ones, places |-> Over(One(ib, p), t[kb].places)]
  BY <1>3, <1>4 DEF SectorShape
<1>7. x.kind = t[kb].kind /\ x.ones = t[kb].ones /\ x.places = Over(One(ib, p), t[kb].places)
  BY <1>6
<1>8. /\ DOMAIN x.places = {ib} \cup DOMAIN t[kb].places
      /\ \A i \in DOMAIN x.places : x.places[i] = IF i = ib THEN p ELSE t[kb].places[i]
  BY <1>7 DEF Over, One
<1>9. SectorShape(x)
  <2>1. \A i \in DOMAIN x.places : x.places[i] \in Nat
    BY <1>3, <1>8 DEF SectorShape
  <2> QED BY <2>1, <1>3, <1>6, <1>7 DEF SectorShape
<1>10. \A i : EntryIn(x, i) = IF i = ib THEN p ELSE EntryIn(t[kb], i)
  BY <1>3, <1>7, <1>8 DEF EntryIn
<1>11. DOMAIN u = DOMAIN t /\ u[kb] = x /\ \A k \in 0 .. BatSectors(r) - 1 : k # kb => u[k] = t[k]
  BY <1>2, <1>5 DEF TableShape
<1>12. TableShape(u, r)
  BY <1>9, <1>11 DEF TableShape
<1>13. Entry(u, b) = p
  BY <1>1, <1>10, <1>11 DEF Entry
<1>14. ASSUME NEW c \in Blocks(r), c # b PROVE Entry(u, c) = Entry(t, c)
  <2>1. PICK kc, ic : kc = c \div EntriesPerSector /\ ic = c % EntriesPerSector
    OBVIOUS
  <2>2. kc \in 0 .. BatSectors(r) - 1 /\ kc * EntriesPerSector + ic = c
    BY <2>1, WordOf
  <2>3. kb * EntriesPerSector + ib = b
    BY <1>1, WordOf
  <2>4. kc # kb \/ ic # ib
    BY <2>2, <2>3, <1>14
  <2>5. EntryIn(u[kc], ic) = EntryIn(t[kc], ic)
    BY <2>2, <2>4, <1>10, <1>11
  <2> QED BY <2>1, <2>5 DEF Entry
<1>15. ASSUME NEW k \in 0 .. BatSectors(r) - 1, NEW i
       PROVE  EntryIn(u[k], i) = EntryIn(t[k], i) \/ EntryIn(u[k], i) = p
  BY <1>10, <1>11
<1> QED BY <1>12, <1>13, <1>14, <1>15, Zenon DEF Others, Words

-----------------------------------------------------------------------------
(* The shape of the state *)

Writes == [at : Nat, kinds : Seq(Kinds), ones : Nat]

SessionShape ==
  \/ session = Closed
  \/ /\ session = [open |-> TRUE, cached |-> session.cached, table |-> session.table,
                   dirty |-> session.dirty, bits |-> session.bits]
     /\ session.cached \in BOOLEAN /\ session.dirty \in BOOLEAN /\ session.bits \in SUBSET Nat
     /\ session.dirty \/ session.bits # {} => session.cached
     /\ session.cached => asked.type # "Fixed" /\ TableShape(session.table, asked)
     /\ file.exists /\ file.size >= 1 /\ SizeAccepted(asked)

(* A call by itself, and with what it has found. *)
CallRecord ==
  \/ call = NoCall
  \/ call.pc \in {"OpenParent", "Generate"} /\ call = [pc |-> call.pc, todo |-> call.todo]
  \/ call.pc \in {"OpenNew", "Open"} /\ call = [pc |-> call.pc]
  \/ /\ call.pc \in {"FlushBat", "FlushBits"}
     /\ call = [pc |-> call.pc, why |-> call.why, bits |-> call.bits, failed |-> call.failed]
  \/ /\ call.pc \in {"AppendBlock", "AppendFooter", "AppendBitmap", "WriteData"}
     /\ call = [pc |-> call.pc, block |-> call.block, place |-> call.place, new |-> call.new]

CreateShape ==
  call.pc \in {"OpenParent", "Generate"} =>
    call.todo \in Seq(Writes) /\ ~session.open /\ file.exists /\ ~made

OpenShape == call.pc \in {"OpenNew", "Open"} => ~session.open /\ file.exists

FlushShape ==
  call.pc \in {"FlushBat", "FlushBits"} =>
    session.open /\ call.failed \in BOOLEAN /\ call.bits \in SUBSET session.bits

BlockShape ==
  call.pc \in {"AppendBlock", "AppendFooter", "AppendBitmap", "WriteData"} =>
    session.open /\ session.cached /\ call.block \in Blocks(asked) /\ call.new \in BOOLEAN

AppendShape ==
  /\ call.pc \in {"AppendBlock", "AppendFooter", "AppendBitmap"} =>
       Entry(session.table, call.block) = Unused
  /\ call.pc = "AppendFooter" => call.place = file.size - 1 /\ ~file.ragged
  /\ call.pc = "AppendBitmap" =>
       call.place \in Nat /\ call.place + BlockLen(asked) + 1 = file.size /\ ~file.ragged
  /\ call.pc = "WriteData" => call.place \in Nat /\ call.place = Entry(session.table, call.block)

CallShape == CallRecord /\ CreateShape /\ OpenShape /\ FlushShape /\ BlockShape /\ AppendShape

FlagsShape ==
  /\ asked \in Requests \cup {NoRequest}
  /\ file.exists => asked \in Requests /\ RequestValid(asked)
  /\ made \in BOOLEAN /\ sound \in BOOLEAN /\ cut \in BOOLEAN
  /\ made => file.exists
  /\ sound => made /\ durable.exists
  /\ cut => sound

Shape == FileShape(file) /\ FileShape(durable) /\ FlagsShape /\ SessionShape /\ CallShape

LEMMA OpenSession ==
  ASSUME Shape, session.open
  PROVE  /\ session = [open |-> TRUE, cached |-> session.cached, table |-> session.table,
                       dirty |-> session.dirty, bits |-> session.bits]
         /\ session.cached \in BOOLEAN /\ session.dirty \in BOOLEAN /\ session.bits \in SUBSET Nat
         /\ session.dirty => session.cached
         /\ session.bits # {} => session.cached
         /\ session.cached => asked.type # "Fixed" /\ TableShape(session.table, asked)
         /\ file.exists /\ file.size \in Nat /\ file.size >= 1 /\ SizeAccepted(asked)
         /\ asked \in Requests /\ RequestValid(asked)
<1>1. session # Closed
  BY DEF Closed
<1> QED BY <1>1 DEF Shape, SessionShape, FlagsShape, FileShape

(* The contents of the writes *)
LEMMA BitmapRun ==
  ASSUME asked \in Requests, RequestValid(asked), NEW p \in Nat
  PROVE  /\ IsRun(BitmapAt(p), p, p + SBmp_SizeInSectors(asked) - 1)
         /\ DOMAIN BitmapAt(p) = p .. p + SBmp_SizeInSectors(asked) - 1
         /\ \A s \in DOMAIN BitmapAt(p) : BitmapAt(p)[s] = Plain("Bitmap")
<1>1. SBmp_SizeInSectors(asked) \in Nat \ {0}
  BY Numbers
<1>2. "Bitmap" \in Kinds /\ 0 \in Nat
  BY DEF Kinds
<1>3. SectorShape(Plain("Bitmap"))
  BY <1>2, PlainShape DEF Plain
<1>4. /\ DOMAIN BitmapAt(p) = p .. p + SBmp_SizeInSectors(asked) - 1
      /\ \A s \in DOMAIN BitmapAt(p) : BitmapAt(p)[s] = Plain("Bitmap")
  BY DEF BitmapAt
<1>5. p <= p + SBmp_SizeInSectors(asked) - 1 /\ p + SBmp_SizeInSectors(asked) - 1 \in Nat
  BY <1>1
<1> QED BY <1>3, <1>4, <1>5 DEF IsRun

LEMMA OneRun ==
  ASSUME NEW s \in Nat, NEW x, SectorShape(x)
  PROVE  /\ IsRun(One(s, x), s, s) /\ DOMAIN One(s, x) = {s} /\ One(s, x)[s] = x
<1>1. DOMAIN One(s, x) = {s} /\ \A t \in DOMAIN One(s, x) : One(s, x)[t] = x
  BY DEF One
<1>2. {s} = s .. s
  OBVIOUS
<1> QED BY <1>1, <1>2 DEF IsRun

LEMMA FooterPending ==
  ASSUME Shape, call.pc = "AppendFooter"
  PROVE  /\ Pending = One(call.place + BlockLen(asked), At(file, file.size - 1))
         /\ call.place + BlockLen(asked) \in Nat /\ call.place \in Nat
         /\ IsRun(Pending, call.place + BlockLen(asked), call.place + BlockLen(asked))
         /\ DOMAIN Pending = {call.place + BlockLen(asked)}
         /\ Pending[call.place + BlockLen(asked)] = At(file, file.size - 1)
<1>1. session.open /\ call.place = file.size - 1
  BY DEF Shape, CallShape, BlockShape, AppendShape
<1>2. asked \in Requests /\ RequestValid(asked) /\ file.size \in Nat /\ file.size >= 1
  BY <1>1, OpenSession
<1>3. SBmp_SizeInSectors(asked) \in Nat \ {0} /\ SectorsPerBlock(asked) \in Nat \ {0}
  BY <1>2, Numbers
<1>4. NewFooterSec(file, asked) = call.place + BlockLen(asked) /\ call.place + BlockLen(asked) \in Nat
      /\ call.place \in Nat
  BY <1>1, <1>2, <1>3 DEF NewFooterSec, BlockLen
<1>5. Pending = One(NewFooterSec(file, asked), At(file, file.size - 1))
  BY DEF Pending
<1>6. SectorShape(At(file, file.size - 1))
  BY AtShape DEF Shape
<1>7. PICK s, x : s = call.place + BlockLen(asked) /\ x = At(file, file.size - 1)
  OBVIOUS
<1>8. IsRun(One(s, x), s, s) /\ DOMAIN One(s, x) = {s} /\ One(s, x)[s] = x
  <2>1. s \in Nat /\ SectorShape(x)
    BY <1>4, <1>6, <1>7
  <2> QED BY <2>1, OneRun, Zenon
<1>9. Pending = One(s, x)
  BY <1>4, <1>5, <1>7
<1>10. PICK c : c = Pending
  OBVIOUS
<1>11. IsRun(c, s, s) /\ DOMAIN c = {s} /\ c[s] = x
  BY <1>8, <1>9, <1>10, Zenon
<1> QED BY <1>4, <1>5, <1>7, <1>10, <1>11

LEMMA BitmapPending ==
  ASSUME Shape, call.pc = "AppendBitmap"
  PROVE  Pending = BitmapAt(call.place) /\ call.place \in Nat /\ asked \in Requests /\ RequestValid(asked)
<1>1. session.open /\ call.place \in Nat
  BY DEF Shape, CallShape, BlockShape, AppendShape
<1>2. Pending = BitmapAt(call.place)
  BY DEF Pending
<1> QED BY <1>1, <1>2, OpenSession

LEMMA DataPending ==
  ASSUME Shape, call.pc = "WriteData"
  PROVE  /\ call.place + SBmp_SizeInSectors(asked) \in Nat
         /\ IsRun(Pending, call.place + SBmp_SizeInSectors(asked), call.place + SBmp_SizeInSectors(asked))
         /\ DOMAIN Pending = {call.place + SBmp_SizeInSectors(asked)}
         /\ Pending[call.place + SBmp_SizeInSectors(asked)] = Plain("Data")
<1>1. session.open /\ call.place \in Nat
  BY DEF Shape, CallShape, BlockShape, AppendShape
<1>2. asked \in Requests /\ RequestValid(asked)
  BY <1>1, OpenSession
<1>3. call.place + SBmp_SizeInSectors(asked) \in Nat
  BY <1>1, <1>2, Numbers
<1>4. Pending = One(call.place + SBmp_SizeInSectors(asked), Plain("Data"))
  BY DEF Pending
<1>5. SectorShape(Plain("Data"))
  <2>1. "Data" \in Kinds /\ 0 \in Nat
    BY DEF Kinds
  <2> QED BY <2>1, PlainShape DEF Plain
<1> QED BY <1>3, <1>4, <1>5, OneRun

LEMMA TablePending ==
  ASSUME Shape, call.pc = "FlushBat", session.dirty
  PROVE  /\ IsRun(Pending, KBatStartSec, KBatStartSec + BatSectors(asked) - 1)
         /\ DOMAIN Pending = KBatStartSec .. KBatStartSec + BatSectors(asked) - 1
         /\ \A s \in DOMAIN Pending : Pending[s] = session.table[s - KBatStartSec]
         /\ \A k \in 0 .. BatSectors(asked) - 1 :
              KBatStartSec + k \in DOMAIN Pending /\ Pending[KBatStartSec + k] = session.table[k]
<1>1. session.open
  BY DEF Shape, CallShape, FlushShape
<1>2. asked \in Requests /\ RequestValid(asked) /\ SizeAccepted(asked) /\ TableShape(session.table, asked)
  BY <1>1, OpenSession
<1>3. BatSectors(asked) \in Nat /\ BatSectors(asked) > 0
  BY <1>2, Numbers
<1>4. Pending = [s \in KBatStartSec .. KBatStartSec + BatSectors(asked) - 1 |-> session.table[s - KBatStartSec]]
  BY DEF Pending
<1>5. /\ DOMAIN Pending = KBatStartSec .. KBatStartSec + BatSectors(asked) - 1
      /\ \A s \in DOMAIN Pending : Pending[s] = session.table[s - KBatStartSec]
  BY <1>4
<1>6. ASSUME NEW s \in DOMAIN Pending PROVE SectorShape(Pending[s])
  <2>1. s - KBatStartSec \in 0 .. BatSectors(asked) - 1
    BY <1>3, <1>5, Constants
  <2> QED BY <2>1, <1>2, <1>5 DEF TableShape
<1>7. ASSUME NEW k \in 0 .. BatSectors(asked) - 1
      PROVE  KBatStartSec + k \in DOMAIN Pending /\ Pending[KBatStartSec + k] = session.table[k]
  <2>1. KBatStartSec + k \in DOMAIN Pending /\ (KBatStartSec + k) - KBatStartSec = k
    BY <1>3, <1>5, Constants
  <2> QED BY <2>1, <1>5
<1>8. KBatStartSec \in Nat /\ KBatStartSec + BatSectors(asked) - 1 \in Nat
      /\ KBatStartSec <= KBatStartSec + BatSectors(asked) - 1
  BY <1>3, Constants
<1> QED BY <1>5, <1>6, <1>7, <1>8 DEF IsRun

LEMMA BitsPending ==
  ASSUME Shape, call.pc = "FlushBits", call.bits # {}, NEW p, p = CHOOSE q \in call.bits : TRUE
  PROVE  p \in call.bits /\ p \in session.bits /\ p \in Nat /\ Pending = BitmapAt(p)
         /\ asked \in Requests /\ RequestValid(asked)
<1>1. p \in call.bits
  OBVIOUS
<1>2. session.open /\ call.bits \in SUBSET session.bits
  BY DEF Shape, CallShape, FlushShape
<1>3. Pending = BitmapAt(p)
  BY DEF Pending
<1> QED BY <1>1, <1>2, <1>3, OpenSession

-----------------------------------------------------------------------------
(* What GenerateFile writes *)

LEMMA FillShape ==
  ASSUME NEW x, NEW n \in Nat
  PROVE  SectorShape(FillOnes(x, n))
<1>1. SectorShape(Sector("Table", n)) /\ SectorShape(Plain("Junk"))
  <2>1. "Table" \in Kinds /\ "Junk" \in Kinds /\ 0 \in Nat
    BY DEF Kinds
  <2> QED BY <2>1, PlainShape DEF Plain
<1> QED BY <1>1 DEF FillOnes

(* A write of structures, or of zeros *)
LEMMA KindsContent ==
  ASSUME NEW w \in Writes, w.ones = 0, NEW f, NEW c, c = Content(f, w)
  PROVE  /\ Len(w.kinds) = 0 => c = <<>>
         /\ Len(w.kinds) > 0 => IsRun(c, w.at, w.at + Len(w.kinds) - 1)
         /\ DOMAIN c = w.at .. w.at + Len(w.kinds) - 1
         /\ \A s \in DOMAIN c : c[s] = Plain(w.kinds[s - w.at + 1])
<1>1. w.at \in Nat /\ w.kinds \in Seq(Kinds) /\ Len(w.kinds) \in Nat
  BY DEF Writes
<1>2. c = [s \in w.at .. w.at + Len(w.kinds) - 1 |-> Plain(w.kinds[s - w.at + 1])]
  BY DEF Content
<1>3. DOMAIN c = w.at .. w.at + Len(w.kinds) - 1
      /\ \A s \in DOMAIN c : c[s] = Plain(w.kinds[s - w.at + 1])
  BY <1>2
<1>4. ASSUME Len(w.kinds) = 0 PROVE c = <<>>
  <2>1. w.at .. w.at + Len(w.kinds) - 1 = {}
    BY <1>1, <1>4
  <2> QED BY <1>2, <2>1
<1>5. ASSUME Len(w.kinds) > 0 PROVE IsRun(c, w.at, w.at + Len(w.kinds) - 1)
  <2>1. ASSUME NEW s \in DOMAIN c PROVE SectorShape(c[s])
    <3>1. s - w.at + 1 \in 1 .. Len(w.kinds)
      BY <1>1, <1>3, <2>1
    <3>2. w.kinds[s - w.at + 1] \in Kinds /\ 0 \in Nat
      BY <1>1, <3>1
    <3>3. SectorShape(Plain(w.kinds[s - w.at + 1]))
      BY <3>2, PlainShape DEF Plain
    <3> QED BY <1>3, <2>1, <3>3
  <2> QED BY <1>1, <1>3, <1>5, <2>1 DEF IsRun
<1> QED BY <1>3, <1>4, <1>5

(* The sectors that n entries take *)
SectorsOf(n) == (n + 127) \div 128

(* How many of the n entries the sector k of them has *)
WordsIn(n, k) == IF k < SectorsOf(n) - 1 THEN 128 ELSE n - k * 128

(* The write of the entries *)
LEMMA OnesContent ==
  ASSUME NEW w \in Writes, w.ones # 0, NEW f, NEW c, c = Content(f, w)
  PROVE  /\ IsRun(c, w.at, w.at + SectorsOf(w.ones) - 1)
         /\ SectorsOf(w.ones) \in Nat \ {0}
         /\ DOMAIN c = w.at .. w.at + SectorsOf(w.ones) - 1
         /\ \A s \in DOMAIN c : c[s] = FillOnes(At(f, s), WordsIn(w.ones, s - w.at))
<1>1. w.at \in Nat /\ w.ones \in Nat
  BY DEF Writes
<1>2. PICK n : n = SectorsOf(w.ones)
  OBVIOUS
<1>3. n \in Nat /\ n >= 1 /\ 128 * n >= w.ones /\ 128 * (n - 1) < w.ones
  BY <1>1, <1>2 DEF SectorsOf
<1>4. c = [s \in w.at .. w.at + n - 1 |-> FillOnes(At(f, s), WordsIn(w.ones, s - w.at))]
  BY <1>2, Constants DEF Content, WordsIn, SectorsOf
<1>5. DOMAIN c = w.at .. w.at + n - 1
      /\ \A s \in DOMAIN c : c[s] = FillOnes(At(f, s), WordsIn(w.ones, s - w.at))
  BY <1>4
<1>6. ASSUME NEW s \in DOMAIN c PROVE SectorShape(c[s])
  <2>1. WordsIn(w.ones, s - w.at) \in Nat
    BY <1>1, <1>2, <1>3, <1>5 DEF WordsIn
  <2> QED BY <1>5, <2>1, FillShape
<1> QED BY <1>1, <1>2, <1>3, <1>5, <1>6 DEF IsRun

LEMMA ContentIs ==
  ASSUME NEW w \in Writes, NEW f PROVE IsContent(Content(f, w))
<1>1. PICK c : c = Content(f, w)
  OBVIOUS
<1>2. w.ones = 0 /\ Len(w.kinds) = 0 => c = <<>>
  BY <1>1, KindsContent
<1>3. w.ones = 0 /\ Len(w.kinds) > 0 => IsContent(c)
  BY <1>1, KindsContent DEF IsContent
<1>4. w.ones # 0 => IsContent(c)
  BY <1>1, OnesContent DEF IsContent
<1>5. Len(w.kinds) \in Nat
  BY DEF Writes
<1> QED BY <1>1, <1>2, <1>3, <1>4, <1>5 DEF IsContent

LEMMA PutIs ==
  ASSUME NEW a \in Nat, NEW kinds \in Seq(Kinds) PROVE Put(a, kinds) \in Writes
  BY DEF Put, Writes

LEMMA PutOnesIs ==
  ASSUME NEW a \in Nat, NEW n \in Nat PROVE PutOnes(a, n) \in Writes
<1>1. <<>> \in Seq(Kinds)
  OBVIOUS
<1> QED BY <1>1 DEF PutOnes, Writes

(* The places of the structures *)
LEMMA Places ==
  ASSUME NEW r \in Requests, RequestValid(r)
  PROVE  /\ KFooterSec(r) \in Nat /\ KLocatorsStartSec(r) \in Nat
         /\ r.type = "Fixed" => KFooterSec(r) = CurrSize(r) /\ CurrSize(r) > 0
         /\ r.type = "Dynamic" => KFooterSec(r) = 3 + KBatSizeInSectors(r)
         /\ KLocatorsStartSec(r) = 4 + KBatSizeInSectors(r)
         /\ r.type = "Diff" => KFooterSec(r) = KLocatorsStartSec(r) + 4
         /\ TableEnd(r) = 3 + BatSectors(r) /\ TableEnd(r) = 3 + SectorsOf(MaxBatEntries(r))
         /\ KBatSizeInSectors(r) \in Nat /\ BatSectors(r) \in Nat /\ MaxBatEntries(r) \in Nat
<1>1. /\ r.type \in {"Fixed", "Dynamic", "Diff"}
      /\ MaxBatEntries(r) \in Nat /\ BatSectors(r) \in Nat /\ KBatSizeInSectors(r) \in Nat
      /\ CurrSize(r) \in Nat /\ (r.type = "Fixed" => CurrSize(r) > 0)
      /\ BatSectors(r) = (MaxBatEntries(r) + 127) \div 128
  BY Numbers
<1>2. KLocatorsStartSec(r) = 4 + KBatSizeInSectors(r)
  BY <1>1 DEF KLocatorsStartSec, KBatStartSec
<1>3. /\ r.type = "Fixed" => KFooterSec(r) = CurrSize(r)
      /\ r.type = "Dynamic" => KFooterSec(r) = 3 + KBatSizeInSectors(r)
      /\ r.type = "Diff" => KFooterSec(r) = KLocatorsStartSec(r) + 4
  BY <1>1 DEF KFooterSec, KNumLocators, KBatStartSec
<1> QED BY <1>1, <1>2, <1>3 DEF TableEnd, KBatStartSec, SectorsOf

LEMMA ZerosAre == ASSUME NEW n \in Nat PROVE Zeros(n) \in Seq(Kinds) /\ Len(Zeros(n)) = n
<1>1. "Zero" \in Kinds
  BY DEF Kinds
<1> QED BY <1>1 DEF Zeros

IsJoin(u, s, t) ==
  /\ u \in Seq(Writes) /\ Len(u) = Len(s) + Len(t)
  /\ \A i \in 1 .. Len(s) : u[i] = s[i]
  /\ \A i \in Len(s) + 1 .. Len(s) + Len(t) : u[i] = t[i - Len(s)]

LEMMA Joined ==
  ASSUME NEW s \in Seq(Writes), NEW t \in Seq(Writes), NEW u, u = s \o t
  PROVE  IsJoin(u, s, t)
  BY DEF IsJoin

HeaderWrite == Put(1, <<"Header", "Header">>)
FooterWrite(r) == Put(KFooterSec(r), <<"Footer">>)
CopyWrite == Put(0, <<"Footer">>)
ZerosWrite(r) == Put(3, Zeros(KBatSizeInSectors(r)))
OnesWrite(r) == PutOnes(3, MaxBatEntries(r))

LEMMA LayoutWrites ==
  ASSUME NEW r \in Requests, RequestValid(r)
  PROVE  /\ HeaderWrite \in Writes /\ FooterWrite(r) \in Writes /\ CopyWrite \in Writes
         /\ ZerosWrite(r) \in Writes /\ OnesWrite(r) \in Writes
         /\ Put(0, <<"Zero">>) \in Writes
         /\ \A i \in 1 .. 4 : Put(KLocatorsStartSec(r) + i - 1, <<"Locator">>) \in Writes
<1>1. /\ <<"Header", "Header">> \in Seq(Kinds) /\ <<"Footer">> \in Seq(Kinds)
      /\ <<"Zero">> \in Seq(Kinds) /\ <<"Locator">> \in Seq(Kinds)
  BY DEF Kinds
<1>2. KFooterSec(r) \in Nat /\ KLocatorsStartSec(r) \in Nat
      /\ KBatSizeInSectors(r) \in Nat /\ MaxBatEntries(r) \in Nat
  BY Places
<1>3. Zeros(KBatSizeInSectors(r)) \in Seq(Kinds)
  BY <1>2, ZerosAre
<1>4. \A i \in 1 .. 4 : KLocatorsStartSec(r) + i - 1 \in Nat
  BY <1>2
<1>5. 0 \in Nat /\ 1 \in Nat /\ 3 \in Nat
  OBVIOUS
<1> QED BY <1>1, <1>2, <1>3, <1>4, <1>5, PutIs, PutOnesIs
        DEF HeaderWrite, FooterWrite, CopyWrite, ZerosWrite, OnesWrite

LEMMA LayoutOfFixed ==
  ASSUME NEW r \in Requests, RequestValid(r), r.type = "Fixed"
  PROVE  /\ Layout(r) \in Seq(Writes) /\ Len(Layout(r)) = 2
         /\ Layout(r)[1] = FooterWrite(r) /\ Layout(r)[2] = Put(0, <<"Zero">>)
<1>1. Layout(r) = <<FooterWrite(r), Put(0, <<"Zero">>)>>
  BY DEF Layout, FooterWrite
<1> QED BY <1>1, LayoutWrites

LEMMA LayoutOfDynamic ==
  ASSUME NEW r \in Requests, RequestValid(r), r.type = "Dynamic"
  PROVE  /\ Layout(r) \in Seq(Writes) /\ Len(Layout(r)) = 5
         /\ Layout(r)[1] = CopyWrite /\ Layout(r)[2] = FooterWrite(r)
         /\ Layout(r)[3] = HeaderWrite
         /\ Layout(r)[4] = ZerosWrite(r) /\ Layout(r)[5] = OnesWrite(r)
<1>1. Layout(r) = <<CopyWrite, FooterWrite(r), HeaderWrite>> \o <<ZerosWrite(r), OnesWrite(r)>>
  BY DEF Layout, FooterWrite, CopyWrite, HeaderWrite, Header, TableWrites, ZerosWrite, OnesWrite,
         KHdrStartSec, KBatStartSec
<1>2. PICK s, t : s = <<CopyWrite, FooterWrite(r), HeaderWrite>> /\ t = <<ZerosWrite(r), OnesWrite(r)>>
  OBVIOUS
<1>3. s \in Seq(Writes) /\ t \in Seq(Writes)
  BY <1>2, LayoutWrites
<1>4. Len(s) = 3 /\ Len(t) = 2
  BY <1>2
<1>5. s[1] = CopyWrite /\ s[2] = FooterWrite(r) /\ s[3] = HeaderWrite
  BY <1>2
<1>6. t[1] = ZerosWrite(r) /\ t[2] = OnesWrite(r)
  BY <1>2
<1>7. PICK u : u = s \o t /\ u = Layout(r)
  BY <1>1, <1>2
<1>8. /\ u \in Seq(Writes) /\ Len(u) = Len(s) + Len(t)
      /\ \A i \in 1 .. Len(s) : u[i] = s[i]
      /\ \A i \in Len(s) + 1 .. Len(s) + Len(t) : u[i] = t[i - Len(s)]
  <2>1. IsJoin(u, s, t)
    BY <1>3, <1>7, Joined, Zenon
  <2> QED BY <2>1 DEF IsJoin
<1> QED BY <1>4, <1>5, <1>6, <1>7, <1>8

LEMMA LayoutOfDiff ==
  ASSUME NEW r \in Requests, RequestValid(r), r.type = "Diff"
  PROVE  /\ Layout(r) \in Seq(Writes) /\ Len(Layout(r)) = 9
         /\ \A i \in 1 .. 4 : Layout(r)[i] = Put(KLocatorsStartSec(r) + i - 1, <<"Locator">>)
         /\ Layout(r)[5] = FooterWrite(r) /\ Layout(r)[6] = CopyWrite
         /\ Layout(r)[7] = HeaderWrite
         /\ Layout(r)[8] = ZerosWrite(r) /\ Layout(r)[9] = OnesWrite(r)
<1>1. PICK l, s, t :
        /\ l = [i \in 1 .. 4 |-> Put(KLocatorsStartSec(r) + i - 1, <<"Locator">>)]
        /\ s = <<FooterWrite(r), CopyWrite, HeaderWrite>>
        /\ t = <<ZerosWrite(r), OnesWrite(r)>>
  OBVIOUS
<1>2. Layout(r) = l \o s \o t
  BY <1>1 DEF Layout, FooterWrite, CopyWrite, HeaderWrite, Header, TableWrites, ZerosWrite, OnesWrite,
         KHdrStartSec, KBatStartSec, KNumLocators
<1>3. s \in Seq(Writes) /\ t \in Seq(Writes)
  BY <1>1, LayoutWrites
<1>4. l \in Seq(Writes) /\ Len(l) = 4
  BY <1>1, LayoutWrites
<1>5. Len(s) = 3 /\ Len(t) = 2
  BY <1>1
<1>6. s[1] = FooterWrite(r) /\ s[2] = CopyWrite /\ s[3] = HeaderWrite
  BY <1>1
<1>7. t[1] = ZerosWrite(r) /\ t[2] = OnesWrite(r)
  BY <1>1
<1>8. PICK u, v : u = l \o s /\ v = u \o t /\ v = Layout(r)
  BY <1>2
<1>9. /\ u \in Seq(Writes) /\ Len(u) = Len(l) + Len(s)
      /\ \A i \in 1 .. Len(l) : u[i] = l[i]
      /\ \A i \in Len(l) + 1 .. Len(l) + Len(s) : u[i] = s[i - Len(l)]
  <2>1. IsJoin(u, l, s)
    BY <1>3, <1>4, <1>8, Joined, Zenon
  <2> QED BY <2>1 DEF IsJoin
<1>10. /\ v \in Seq(Writes) /\ Len(v) = Len(u) + Len(t)
       /\ \A i \in 1 .. Len(u) : v[i] = u[i]
       /\ \A i \in Len(u) + 1 .. Len(u) + Len(t) : v[i] = t[i - Len(u)]
  <2>1. IsJoin(v, u, t)
    BY <1>3, <1>8, <1>9, Joined, Zenon
  <2> QED BY <2>1 DEF IsJoin
<1>11. Len(u) = 7 /\ Len(v) = 9
  BY <1>4, <1>5, <1>9, <1>10
<1>12. \A i \in 1 .. 4 : v[i] = l[i]
  BY <1>4, <1>9, <1>10, <1>11
<1>13. v[5] = s[1] /\ v[6] = s[2] /\ v[7] = s[3]
  BY <1>4, <1>5, <1>9, <1>10, <1>11
<1>14. v[8] = t[1] /\ v[9] = t[2]
  BY <1>5, <1>10, <1>11
<1> QED BY <1>1, <1>6, <1>7, <1>8, <1>10, <1>11, <1>12, <1>13, <1>14

(* What is left of the writes of a new file *)
Remaining(todo, r) ==
  /\ todo \in Seq(Writes) /\ Len(todo) <= Len(Layout(r))
  /\ \A i \in 1 .. Len(todo) : todo[i] = Layout(r)[Len(Layout(r)) - Len(todo) + i]

LEMMA LayoutRemains ==
  ASSUME NEW r \in Requests, RequestValid(r)
  PROVE  Layout(r) \in Seq(Writes) /\ Remaining(Layout(r), r)
<1>1. Layout(r) \in Seq(Writes)
  BY Places, Numbers, LayoutOfFixed, LayoutOfDynamic, LayoutOfDiff
<1> QED BY <1>1 DEF Remaining

LEMMA NextRemains ==
  ASSUME NEW r, Layout(r) \in Seq(Writes), NEW todo, Remaining(todo, r), todo # <<>>
  PROVE  /\ Remaining(Tail(todo), r) /\ Len(Tail(todo)) = Len(todo) - 1
         /\ Len(todo) \in Nat \ {0} /\ Len(todo) <= Len(Layout(r))
         /\ Head(todo) = Layout(r)[Len(Layout(r)) - Len(todo) + 1]
         /\ Head(todo) \in Writes /\ Tail(todo) \in Seq(Writes)
<1>1. PICK l : l = Layout(r)
  OBVIOUS
<1>2. /\ l \in Seq(Writes) /\ todo \in Seq(Writes) /\ Len(todo) <= Len(l)
      /\ \A i \in 1 .. Len(todo) : todo[i] = l[Len(l) - Len(todo) + i]
  BY <1>1 DEF Remaining
<1>3. Len(todo) \in Nat \ {0} /\ Len(l) \in Nat
  BY <1>2
<1>4. PICK u : u = Tail(todo)
  OBVIOUS
<1>5. u \in Seq(Writes) /\ Len(u) = Len(todo) - 1 /\ \A i \in 1 .. Len(u) : u[i] = todo[i + 1]
  BY <1>2, <1>3, <1>4
<1>6. \A i \in 1 .. Len(u) : u[i] = l[Len(l) - Len(u) + i]
  <2>1. ASSUME NEW i \in 1 .. Len(u) PROVE u[i] = l[Len(l) - Len(u) + i]
    <3>1. i + 1 \in 1 .. Len(todo) /\ Len(l) - Len(u) + i = Len(l) - Len(todo) + (i + 1)
      BY <1>3, <1>5
    <3> QED BY <1>2, <1>5, <3>1
  <2> QED BY <2>1
<1>7. Remaining(u, r)
  BY <1>1, <1>2, <1>3, <1>5, <1>6 DEF Remaining
<1>8. Head(todo) = todo[1] /\ todo[1] \in Writes /\ todo[1] = l[Len(l) - Len(todo) + 1]
  BY <1>2, <1>3
<1> QED BY <1>1, <1>2, <1>3, <1>4, <1>5, <1>7, <1>8

(* What GenerateFile leaves of the file f after the write w *)
Next_(f, w) == Write(f, Content(f, w), LeavesRagged(f, w))

PutDone(f, g, w) ==
  /\ FileShape(g) /\ g.exists = f.exists /\ f.size <= g.size
  /\ \A s \in w.at .. w.at + Len(w.kinds) - 1 : At(g, s) = Plain(w.kinds[s - w.at + 1])
  /\ \A s : s \notin w.at .. w.at + Len(w.kinds) - 1 => At(g, s) = At(f, s)
  /\ w.at + Len(w.kinds) - 1 < f.size => g.size = f.size /\ g.ragged = f.ragged
  /\ Len(w.kinds) > 0 /\ w.at + Len(w.kinds) - 1 >= f.size =>
       g.size = w.at + Len(w.kinds) /\ g.ragged = FALSE

LEMMA PutDoes ==
  ASSUME NEW f, FileShape(f), NEW w \in Writes, w.ones = 0, NEW g, g = Next_(f, w)
  PROVE  PutDone(f, g, w) \/ (Len(w.kinds) = 0 /\ g = f)
<1>1. PICK c : c = Content(f, w)
  OBVIOUS
<1>2. w.at \in Nat /\ Len(w.kinds) \in Nat
  BY DEF Writes
<1>3. LeavesRagged(f, w) = FALSE
  <2>1. ~LeavesRagged(f, w)
    BY Constants DEF LeavesRagged
  <2> QED BY <2>1, Zenon DEF LeavesRagged
<1>4. g = Write(f, c, FALSE)
  BY <1>1, <1>3, Zenon DEF Next_
<1>5. CASE Len(w.kinds) = 0
  <2>1. c = <<>>
    BY <1>1, <1>5, KindsContent
  <2>2. g = f
    BY <1>4, <2>1 DEF Write
  <2> QED BY <1>5, <2>2
<1>6. CASE Len(w.kinds) > 0
  <2>1. /\ IsRun(c, w.at, w.at + Len(w.kinds) - 1)
        /\ DOMAIN c = w.at .. w.at + Len(w.kinds) - 1
        /\ \A s \in DOMAIN c : c[s] = Plain(w.kinds[s - w.at + 1])
    BY <1>1, <1>6, KindsContent
  <2>2. PICK a, e : a = w.at /\ e = w.at + Len(w.kinds) - 1
    OBVIOUS
  <2>3. /\ WroteAll(f, g, c)
        /\ e < f.size => g.size = f.size /\ g.ragged = f.ragged
        /\ e >= f.size => g.size = e + 1 /\ g.ragged = FALSE
    <3>1. IsRun(c, a, e)
      BY <2>1, <2>2
    <3>2. WroteAll(f, g, c) /\ Grown(f, g, e)
      BY <3>1, <1>4, WholeWrite, Zenon
    <3> QED BY <3>2, Zenon DEF Grown
  <2>4. FileShape(g) /\ g.exists = f.exists /\ f.size <= g.size
    BY <2>3 DEF WroteAll, Wrote
  <2>5. \A s \in DOMAIN c : At(g, s) = c[s]
    BY <2>3 DEF WroteAll
  <2>6. \A s : s \notin DOMAIN c => At(g, s) = At(f, s)
    BY <2>3 DEF WroteAll, Wrote
  <2>7. e + 1 = w.at + Len(w.kinds)
    BY <1>2, <2>2
  <2>8. PutDone(f, g, w)
    BY <2>1, <2>2, <2>3, <2>4, <2>5, <2>6, <2>7 DEF PutDone
  <2> QED BY <2>8
<1> QED BY <1>2, <1>5, <1>6

(* One sector is written *)
OneDone(f, g, t, kind) ==
  /\ FileShape(g) /\ g.exists = f.exists /\ f.size <= g.size
  /\ At(g, t) = Plain(kind)
  /\ \A s : s # t => At(g, s) = At(f, s)
  /\ t < f.size => g.size = f.size /\ g.ragged = f.ragged
  /\ t >= f.size => g.size = t + 1 /\ g.ragged = FALSE

LEMMA OneDoes ==
  ASSUME NEW f, FileShape(f), NEW t \in Nat, NEW kind \in Kinds, NEW g, g = Next_(f, Put(t, <<kind>>))
  PROVE  OneDone(f, g, t, kind)
<1>1. PICK w : w = Put(t, <<kind>>)
  OBVIOUS
<1>2. w.at = t /\ w.kinds = <<kind>> /\ w.ones = 0
  BY <1>1 DEF Put
<1>3. w \in Writes
  <2>1. <<kind>> \in Seq(Kinds)
    OBVIOUS
  <2> QED BY <1>1, <2>1, PutIs
<1>4. Len(w.kinds) = 1 /\ w.kinds[1] = kind
  BY <1>2
<1>5. PutDone(f, g, w)
  BY <1>1, <1>2, <1>3, <1>4, PutDoes
<1>6. t .. t + 1 - 1 = {t} /\ t - t + 1 = 1
  OBVIOUS
<1>7. /\ FileShape(g) /\ g.exists = f.exists /\ f.size <= g.size
      /\ \A s \in {t} : At(g, s) = Plain(w.kinds[s - t + 1])
      /\ \A s : s \notin {t} => At(g, s) = At(f, s)
      /\ t + 1 - 1 < f.size => g.size = f.size /\ g.ragged = f.ragged
      /\ t + 1 - 1 >= f.size => g.size = t + 1 /\ g.ragged = FALSE
  <2>1. 1 > 0
    OBVIOUS
  <2> QED BY <1>2, <1>4, <1>5, <1>6, <2>1, Zenon DEF PutDone
<1>8. t + 1 - 1 = t
  OBVIOUS
<1> QED BY <1>4, <1>6, <1>7, <1>8 DEF OneDone

-----------------------------------------------------------------------------
(* What a file that GenerateFile makes holds *)

(* No entry of a table is less, whatever was written over the table that the  *)
(* place for it was too small for.                                            *)
Low(r) == IF TableFits(r) THEN KFooterSec(r) ELSE 3

GoodEntry(e, r) ==
  \/ e = Unused
  \/ e = NoPlace /\ ~TableFits(r)
  \/ e \in Nat /\ e >= Low(r)

(* The sector k of the table *)
GoodSector(x, k, r) ==
  \A i \in 0 .. EntriesPerSector - 1 :
    k * EntriesPerSector + i < MaxBatEntries(r) => GoodEntry(EntryIn(x, i), r)

CopyThere(f) == At(f, 0).kind = "Footer"

HeaderThere(f) == f.size >= 3 /\ At(f, 1).kind = "Header" /\ At(f, 2).kind = "Header"

FooterThere(f, r) ==
  f.size = KFooterSec(r) + 1 /\ ~f.ragged /\ At(f, KFooterSec(r)).kind = "Footer"

Blank(f, s) == At(f, s).kind \in {"Zero", "Table"} /\ At(f, s).places = <<>>

TableBlank(f, r) == TableFits(r) => \A s \in 3 .. TableEnd(r) - 1 : Blank(f, s)

TableThere(f, r) ==
  /\ TableEnd(r) <= End(f)
  /\ \A k \in 0 .. BatSectors(r) - 1 : GoodSector(At(f, KBatStartSec + k), k, r)

NoBlocks(f, r) == \A b \in Blocks(r) : Entry(TableOf(f, r), b) = Unused

(* How many writes are left when the footer at the end, or its copy, is there *)
FooterLeft(r) == IF r.type = "Fixed" THEN 1 ELSE IF r.type = "Dynamic" THEN 3 ELSE 4
CopyLeft(r) == IF r.type = "Dynamic" THEN 4 ELSE 3

(* The file when n writes are left *)
Progress(f, r, n) ==
  /\ n <= FooterLeft(r) /\ (n > 0 \/ TableFits(r) \/ r.type = "Fixed") => FooterThere(f, r)
  /\ n > FooterLeft(r) => f.size <= KFooterSec(r)
  /\ r.type # "Fixed" =>
       /\ n <= CopyLeft(r) => CopyThere(f)
       /\ n <= 2 => HeaderThere(f)
       /\ n > 0 => TableBlank(f, r)
       /\ n = 0 => TableThere(f, r)
       /\ n = 0 /\ TableFits(r) => NoBlocks(f, r)

LEMMA KindOfPlain ==
  ASSUME NEW kind PROVE Plain(kind).kind = kind /\ Plain(kind).places = <<>>
BY DEF Plain, Sector

LEMMA BlankKept ==
  ASSUME NEW f, NEW g, NEW r, TableBlank(f, r),
         TableFits(r) => \A s \in 3 .. TableEnd(r) - 1 : At(g, s) = At(f, s)
  PROVE  TableBlank(g, r)
BY DEF TableBlank, Blank

LEMMA FixedProgress ==
  ASSUME NEW r \in Requests, RequestValid(r), r.type = "Fixed",
         NEW f, FileShape(f), NEW n \in 1 .. 2, Progress(f, r, n),
         NEW w, w = Layout(r)[2 - n + 1], NEW g, g = Next_(f, w)
  PROVE  Progress(g, r, n - 1)
<1>1. KFooterSec(r) \in Nat /\ KFooterSec(r) > 0 /\ f.size \in Nat
  BY Places DEF FileShape
<1>2. CASE n = 2
  <2>1. w = Put(KFooterSec(r), <<"Footer">>)
    BY <1>2, LayoutOfFixed DEF FooterWrite
  <2>2. OneDone(f, g, KFooterSec(r), "Footer")
    BY <1>1, <2>1, OneDoes DEF Kinds
  <2>3. f.size <= KFooterSec(r)
    BY <1>2 DEF Progress, FooterLeft
  <2>4. FooterThere(g, r)
    BY <1>1, <2>2, <2>3, KindOfPlain DEF OneDone, FooterThere
  <2> QED BY <1>2, <2>4 DEF Progress, FooterLeft
<1>3. CASE n = 1
  <2>1. w = Put(0, <<"Zero">>)
    BY <1>3, LayoutOfFixed
  <2>2. OneDone(f, g, 0, "Zero")
    BY <2>1, OneDoes DEF Kinds
  <2>3. FooterThere(f, r)
    BY <1>3 DEF Progress, FooterLeft
  <2>4. FooterThere(g, r)
    <3>1. f.size = KFooterSec(r) + 1 /\ ~f.ragged /\ At(f, KFooterSec(r)).kind = "Footer"
      BY <2>3 DEF FooterThere
    <3>2. g.size = f.size /\ g.ragged = f.ragged /\ At(g, KFooterSec(r)) = At(f, KFooterSec(r))
      BY <1>1, <2>2, <3>1 DEF OneDone
    <3> QED BY <3>1, <3>2, Zenon DEF FooterThere
  <2> QED BY <1>3, <2>4 DEF Progress, FooterLeft
<1> QED BY <1>2, <1>3

(* What the writes of the other types leave of what is there already *)
Kept(f, g, r) ==
  /\ FooterThere(f, r) => FooterThere(g, r)
  /\ f.size <= KFooterSec(r) => g.size <= KFooterSec(r)
  /\ CopyThere(f) => CopyThere(g)
  /\ HeaderThere(f) => HeaderThere(g)
  /\ TableBlank(f, r) => TableBlank(g, r)

LEMMA FooterStep ==
  ASSUME NEW r \in Requests, RequestValid(r), r.type # "Fixed", NEW f, FileShape(f), f.size <= KFooterSec(r),
         NEW g, g = Next_(f, FooterWrite(r))
  PROVE  /\ FooterThere(g, r) /\ (CopyThere(f) => CopyThere(g))
         /\ TableBlank(f, r) => TableBlank(g, r)
<1>1. KFooterSec(r) \in Nat /\ KFooterSec(r) >= 3 /\ f.size \in Nat
  BY Places, Numbers DEF FileShape
<1>2. OneDone(f, g, KFooterSec(r), "Footer")
  BY <1>1, OneDoes DEF Kinds, FooterWrite
<1>3. FooterThere(g, r)
  BY <1>1, <1>2, KindOfPlain DEF OneDone, FooterThere
<1>4. At(g, 0) = At(f, 0)
  BY <1>1, <1>2 DEF OneDone
<1>5. TableFits(r) => \A s \in 3 .. TableEnd(r) - 1 : At(g, s) = At(f, s)
  <2>1. TableFits(r) => TableEnd(r) <= KFooterSec(r)
    BY Places, Numbers DEF TableFits
  <2>2. TableEnd(r) \in Nat
    BY Places
  <2> QED BY <1>1, <1>2, <2>1, <2>2 DEF OneDone
<1> QED BY <1>3, <1>4, <1>5, BlankKept DEF CopyThere

LEMMA CopyStep ==
  ASSUME NEW r \in Requests, RequestValid(r), r.type # "Fixed", NEW f, FileShape(f),
         NEW g, g = Next_(f, CopyWrite)
  PROVE  CopyThere(g) /\ Kept(f, g, r)
<1>1. KFooterSec(r) \in Nat /\ KFooterSec(r) >= 3 /\ f.size \in Nat /\ TableEnd(r) \in Nat
  BY Places, Numbers DEF FileShape
<1>2. OneDone(f, g, 0, "Footer")
  BY OneDoes DEF Kinds, CopyWrite
<1>3. CopyThere(g)
  BY <1>2, KindOfPlain DEF OneDone, CopyThere
<1>4. \A s : s # 0 => At(g, s) = At(f, s)
  BY <1>2 DEF OneDone
<1>5. f.size > 0 => g.size = f.size /\ g.ragged = f.ragged
  BY <1>1, <1>2 DEF OneDone
<1>6. FooterThere(f, r) => FooterThere(g, r)
  <2>1. SUFFICES ASSUME FooterThere(f, r) PROVE FooterThere(g, r)
    OBVIOUS
  <2>2. g.size = f.size /\ g.ragged = f.ragged /\ At(g, KFooterSec(r)) = At(f, KFooterSec(r))
    BY <1>1, <1>4, <1>5, <2>1 DEF FooterThere
  <2> QED BY <2>1, <2>2, Zenon DEF FooterThere
<1>7. f.size <= KFooterSec(r) => g.size <= KFooterSec(r)
  BY <1>1, <1>2 DEF OneDone
<1>8. HeaderThere(f) => HeaderThere(g)
  BY <1>1, <1>4, <1>5 DEF HeaderThere
<1>9. TableBlank(f, r) => TableBlank(g, r)
  <2>1. \A s \in 3 .. TableEnd(r) - 1 : At(g, s) = At(f, s)
    BY <1>1, <1>4
  <2> QED BY <2>1, BlankKept
<1> QED BY <1>3, <1>6, <1>7, <1>8, <1>9 DEF Kept

LEMMA LocatorStep ==
  ASSUME NEW r \in Requests, RequestValid(r), r.type = "Diff", NEW f, FileShape(f), NEW i \in 1 .. 4,
         f.size <= KFooterSec(r),
         NEW g, g = Next_(f, Put(KLocatorsStartSec(r) + i - 1, <<"Locator">>))
  PROVE  g.size <= KFooterSec(r) /\ (TableBlank(f, r) => TableBlank(g, r))
<1>1. /\ KFooterSec(r) = KLocatorsStartSec(r) + 4 /\ KLocatorsStartSec(r) \in Nat
      /\ f.size \in Nat /\ TableEnd(r) \in Nat
  BY Places, Numbers DEF FileShape
<1>2. PICK t : t = KLocatorsStartSec(r) + i - 1
  OBVIOUS
<1>3. t \in Nat /\ t < KFooterSec(r) /\ t >= KLocatorsStartSec(r)
  BY <1>1, <1>2
<1>4. OneDone(f, g, t, "Locator")
  BY <1>2, <1>3, OneDoes DEF Kinds
<1>5. g.size <= KFooterSec(r)
  BY <1>1, <1>3, <1>4 DEF OneDone
<1>6. TableFits(r) => \A s \in 3 .. TableEnd(r) - 1 : At(g, s) = At(f, s)
  BY <1>1, <1>3, <1>4 DEF OneDone, TableFits
<1> QED BY <1>5, <1>6, BlankKept

LEMMA HeaderStep ==
  ASSUME NEW r \in Requests, RequestValid(r), r.type # "Fixed", NEW f, FileShape(f), FooterThere(f, r),
         NEW g, g = Next_(f, HeaderWrite)
  PROVE  HeaderThere(g) /\ Kept(f, g, r)
<1>1. KFooterSec(r) \in Nat /\ KFooterSec(r) >= 3 /\ f.size = KFooterSec(r) + 1 /\ TableEnd(r) \in Nat
  BY Places, Numbers DEF FooterThere
<1>2. PICK w : w = HeaderWrite
  OBVIOUS
<1>3. w \in Writes /\ w.at = 1 /\ w.ones = 0 /\ w.kinds = <<"Header", "Header">>
  BY <1>2, LayoutWrites DEF HeaderWrite, Put
<1>4. Len(w.kinds) = 2 /\ w.kinds[1] = "Header" /\ w.kinds[2] = "Header"
  BY <1>3
<1>5. PutDone(f, g, w)
  BY <1>2, <1>3, <1>4, PutDoes
<1>6. /\ \A s \in 1 .. 2 : At(g, s) = Plain(w.kinds[s])
      /\ \A s : s \notin 1 .. 2 => At(g, s) = At(f, s)
      /\ g.size = f.size /\ g.ragged = f.ragged
  BY <1>1, <1>3, <1>4, <1>5 DEF PutDone
<1>7. HeaderThere(g)
  <2>1. At(g, 1) = Plain("Header") /\ At(g, 2) = Plain("Header")
    BY <1>4, <1>6
  <2> QED BY <1>1, <1>6, <2>1, KindOfPlain DEF HeaderThere
<1>8. FooterThere(g, r)
  <2>1. At(g, KFooterSec(r)) = At(f, KFooterSec(r))
    BY <1>1, <1>6
  <2> QED BY <1>6, <2>1, Zenon DEF FooterThere
<1>9. CopyThere(f) => CopyThere(g)
  BY <1>6 DEF CopyThere
<1>10. TableBlank(f, r) => TableBlank(g, r)
  BY <1>1, <1>6, BlankKept
<1> QED BY <1>1, <1>7, <1>8, <1>9, <1>10 DEF Kept

LEMMA ZerosStep ==
  ASSUME NEW r \in Requests, RequestValid(r), r.type # "Fixed", NEW f, FileShape(f), FooterThere(f, r),
         NEW g, g = Next_(f, ZerosWrite(r))
  PROVE  Kept(f, g, r)
<1>1. PICK n : n = KBatSizeInSectors(r)
  OBVIOUS
<1>2. /\ KFooterSec(r) \in Nat /\ n \in Nat /\ KFooterSec(r) >= 3 + n
      /\ f.size = KFooterSec(r) + 1 /\ TableEnd(r) \in Nat
  BY <1>1, Places, Numbers DEF FooterThere
<1>3. PICK w : w = ZerosWrite(r)
  OBVIOUS
<1>4. w \in Writes /\ w.at = 3 /\ w.ones = 0 /\ w.kinds = Zeros(n)
  BY <1>1, <1>3, LayoutWrites DEF ZerosWrite, Put
<1>5. Len(w.kinds) = n /\ \A i \in 1 .. n : w.kinds[i] = "Zero"
  BY <1>2, <1>4, ZerosAre DEF Zeros
<1>6. CASE g = f
  BY <1>6 DEF Kept
<1>7. CASE PutDone(f, g, w)
  <2>1. /\ \A s \in 3 .. 3 + n - 1 : At(g, s) = Plain(w.kinds[s - 3 + 1])
        /\ \A s : s \notin 3 .. 3 + n - 1 => At(g, s) = At(f, s)
        /\ g.size = f.size /\ g.ragged = f.ragged
    BY <1>2, <1>4, <1>5, <1>7 DEF PutDone
  <2>2. \A s \in 3 .. 3 + n - 1 : At(g, s) = Plain("Zero")
    <3>1. \A s \in 3 .. 3 + n - 1 : s - 3 + 1 \in 1 .. n
      BY <1>2
    <3> QED BY <1>5, <2>1, <3>1
  <2>3. FooterThere(g, r)
    <3>1. At(g, KFooterSec(r)) = At(f, KFooterSec(r))
      BY <1>2, <2>1
    <3> QED BY <2>1, <3>1, Zenon DEF FooterThere
  <2>4. CopyThere(f) => CopyThere(g)
    BY <1>2, <2>1 DEF CopyThere
  <2>5. HeaderThere(f) => HeaderThere(g)
    BY <1>2, <2>1 DEF HeaderThere
  <2>6. TableBlank(f, r) => TableBlank(g, r)
    <3>1. \A s : At(g, s) = At(f, s) \/ At(g, s) = Plain("Zero")
      BY <2>1, <2>2
    <3> QED BY <3>1, KindOfPlain DEF TableBlank, Blank
  <2> QED BY <1>2, <2>1, <2>3, <2>4, <2>5, <2>6 DEF Kept
<1> QED BY <1>3, <1>4, <1>6, <1>7, PutDoes

LEMMA FillEntries ==
  ASSUME NEW y, NEW words \in Nat, NEW i \in 0 .. words - 1, NEW x, x = FillOnes(y, words)
  PROVE  /\ EntryIn(x, i) \in {Unused, NoPlace}
         /\ y.kind \in {"Zero", "Table"} => EntryIn(x, i) = Unused
<1>1. EntryIn(Sector("Table", words), i) = Unused
  <2>1. PICK z : z = Sector("Table", words)
    OBVIOUS
  <2>2. z.kind = "Table" /\ z.ones = words /\ z.places = <<>>
    BY <2>1 DEF Sector
  <2>3. i \notin DOMAIN z.places
    <3>1. DOMAIN <<>> = {}
      OBVIOUS
    <3> QED BY <2>2, <3>1
  <2>4. i < words
    OBVIOUS
  <2> QED BY <2>1, <2>2, <2>3, <2>4 DEF EntryIn
<1>2. EntryIn(Plain("Junk"), i) = NoPlace
  BY KindOfPlain DEF EntryIn
<1> QED BY <1>1, <1>2 DEF FillOnes

LEMMA OnesDoes ==
  ASSUME NEW f, FileShape(f), NEW w \in Writes, w.ones # 0, NEW g, g = Next_(f, w),
         NEW c, c = Content(f, w)
  PROVE  WroteAll(f, g, c)
<1>1. PICK a, e : a = w.at /\ e = w.at + SectorsOf(w.ones) - 1
  OBVIOUS
<1>2. IsRun(c, a, e)
  BY <1>1, OnesContent
<1>3. w.at \in Nat /\ w.ones \in Nat /\ f.size \in Nat
  BY DEF Writes, FileShape
<1>4. g = Write(f, c, LeavesRagged(f, w))
  BY DEF Next_
<1>5. CASE LeavesRagged(f, w)
  <2>1. LeavesRagged(f, w) = TRUE
    BY <1>5, Zenon DEF LeavesRagged
  <2>2. w.ones % 128 # 0 /\ w.at + w.ones \div 128 >= f.size
    BY <1>5, Constants DEF LeavesRagged
  <2>3. e = w.at + w.ones \div 128
    BY <1>1, <1>3, <2>2 DEF SectorsOf
  <2>4. e >= f.size
    BY <2>2, <2>3
  <2>5. g = Write(f, c, TRUE)
    BY <1>4, <2>1, Zenon
  <2> QED BY <1>2, <2>4, <2>5, PartWrite, Zenon
<1>6. CASE ~LeavesRagged(f, w)
  <2>1. LeavesRagged(f, w) = FALSE
    BY <1>6, Zenon DEF LeavesRagged
  <2>2. g = Write(f, c, FALSE)
    BY <1>4, <2>1, Zenon
  <2> QED BY <1>2, <2>2, WholeWrite, Zenon
<1> QED BY <1>5, <1>6

(* What every write leaves is a file. *)
LEMMA NextShape ==
  ASSUME NEW f, FileShape(f), NEW w \in Writes, NEW g, g = Next_(f, w)
  PROVE  FileShape(g) /\ g.exists = f.exists
<1>1. ASSUME w.ones = 0 PROVE FileShape(g) /\ g.exists = f.exists
  <2>1. PutDone(f, g, w) \/ g = f
    BY <1>1, PutDoes
  <2> QED BY <2>1 DEF PutDone
<1>2. w.ones # 0 => WroteAll(f, g, Content(f, w))
  BY OnesDoes
<1> QED BY <1>1, <1>2 DEF WroteAll, Wrote

LEMMA OnesStep ==
  ASSUME NEW r \in Requests, RequestValid(r), r.type # "Fixed", NEW f, FileShape(f),
         CopyThere(f), HeaderThere(f), TableBlank(f, r), TableFits(r) => FooterThere(f, r),
         NEW g, g = Next_(f, OnesWrite(r))
  PROVE  /\ CopyThere(g) /\ HeaderThere(g) /\ TableThere(g, r)
         /\ TableFits(r) => FooterThere(g, r) /\ NoBlocks(g, r)
         /\ FileShape(g) /\ g.exists = f.exists
<1>1. PICK n, e : n = MaxBatEntries(r) /\ e = 3 + SectorsOf(n) - 1
  OBVIOUS
<1>2. /\ n \in Nat /\ TableEnd(r) = 3 + SectorsOf(n) /\ BatSectors(r) = SectorsOf(n)
      /\ SectorsOf(n) \in Nat /\ KFooterSec(r) \in Nat /\ f.size \in Nat /\ f.ragged \in BOOLEAN
      /\ KLocatorsStartSec(r) \in Nat /\ (r.type = "Diff" => KFooterSec(r) = KLocatorsStartSec(r) + 4)
  <2>1. /\ TableEnd(r) = 3 + BatSectors(r) /\ TableEnd(r) = 3 + SectorsOf(MaxBatEntries(r))
        /\ BatSectors(r) \in Nat /\ MaxBatEntries(r) \in Nat /\ KFooterSec(r) \in Nat
        /\ KLocatorsStartSec(r) \in Nat /\ (r.type = "Diff" => KFooterSec(r) = KLocatorsStartSec(r) + 4)
    BY Places
  <2>2. SectorsOf(n) \in Nat
    BY <2>1, <1>1 DEF SectorsOf
  <2> QED BY <1>1, <2>1, <2>2 DEF FileShape
<1>3. PICK w : w = OnesWrite(r)
  OBVIOUS
<1>4. w \in Writes /\ w.at = 3 /\ w.ones = n /\ w.kinds = <<>>
  BY <1>1, <1>3, LayoutWrites DEF OnesWrite, PutOnes
<1>5. CASE n = 0
  <2>1. g = f
    <3>1. <<>> \in Seq(Kinds) /\ Len(<<>>) = 0
      OBVIOUS
    <3>2. w.ones = 0 /\ Len(w.kinds) = 0
      BY <1>4, <1>5, <3>1
    <3>3. PICK c : c = Content(f, w)
      OBVIOUS
    <3>4. c = <<>>
      BY <1>4, <3>2, <3>3, KindsContent
    <3> QED BY <1>3, <3>3, <3>4 DEF Next_, Write
  <2>2. SectorsOf(n) = 0
    BY <1>5 DEF SectorsOf
  <2>3. TableThere(g, r)
    <3>1. f.size <= End(f)
      BY <1>2, Ends
    <3>2. 3 <= End(f)
      <4>1. CASE f.ragged = TRUE
        BY <4>1, <1>2, Ends DEF HeaderThere
      <4>2. CASE f.ragged = FALSE
        BY <4>2, <1>2, Ends DEF HeaderThere
      <4> QED BY <1>2, <4>1, <4>2
    <3> QED BY <1>2, <2>1, <2>2, <3>2 DEF TableThere
  <2>4. NoBlocks(g, r)
    BY <1>1, <1>5 DEF NoBlocks, Blocks
  <2> QED BY <2>1, <2>3, <2>4
<1>6. CASE n # 0
  <2>1. PICK c : c = Content(f, w)
    OBVIOUS
  <2>2. /\ IsRun(c, 3, e) /\ SectorsOf(n) \in Nat \ {0} /\ DOMAIN c = 3 .. e
        /\ \A s \in DOMAIN c : c[s] = FillOnes(At(f, s), WordsIn(n, s - 3))
    BY <1>1, <1>4, <1>6, <2>1, OnesContent
  <2>3. WroteAll(f, g, c)
    <3>1. w.ones # 0 /\ g = Next_(f, w)
      BY <1>3, <1>4, <1>6
    <3> QED BY <1>4, <2>1, <3>1, OnesDoes, Zenon
  <2>4. /\ FileShape(g) /\ g.exists = f.exists /\ f.size <= g.size
        /\ \A s : s \notin 3 .. e => At(g, s) = At(f, s)
        /\ (\A s \in 3 .. e : s < f.size) => g.size = f.size /\ g.ragged = f.ragged
    BY <2>2, <2>3 DEF WroteAll, Wrote
  <2>5. \A s \in 3 .. e : s < End(g) /\ At(g, s) = FillOnes(At(f, s), WordsIn(n, s - 3))
    BY <2>2, <2>3 DEF WroteAll
  <2>6. CopyThere(g) /\ HeaderThere(g)
    <3>1. At(g, 0) = At(f, 0) /\ At(g, 1) = At(f, 1) /\ At(g, 2) = At(f, 2)
      BY <2>4
    <3>2. g.size >= 3
      <4>1. g.size \in Nat /\ f.size >= 3
        BY <2>4 DEF FileShape, HeaderThere
      <4> QED BY <1>2, <2>4, <4>1
    <3> QED BY <3>1, <3>2 DEF CopyThere, HeaderThere
  <2>7. ASSUME NEW k \in 0 .. BatSectors(r) - 1, NEW i \in 0 .. 127, k * 128 + i < n
        PROVE  /\ EntryIn(At(g, 3 + k), i) \in {Unused, NoPlace}
               /\ TableFits(r) => EntryIn(At(g, 3 + k), i) = Unused
    <3>1. k \in Nat /\ 3 + k \in 3 .. e /\ (3 + k) - 3 = k
      BY <1>1, <1>2
    <3>2. At(g, 3 + k) = FillOnes(At(f, 3 + k), WordsIn(n, k))
      BY <2>5, <3>1
    <3>3. WordsIn(n, k) \in Nat /\ i < WordsIn(n, k)
      <4>1. CASE k < SectorsOf(n) - 1
        BY <4>1, <2>7 DEF WordsIn
      <4>2. CASE ~(k < SectorsOf(n) - 1)
        BY <4>2, <2>7, <3>1, <1>2 DEF WordsIn
      <4> QED BY <4>1, <4>2
    <3>4. TableFits(r) => At(f, 3 + k).kind \in {"Zero", "Table"}
      <4>1. 3 + k \in 3 .. TableEnd(r) - 1
        BY <1>2, <3>1, <1>1
      <4> QED BY <4>1 DEF TableBlank, Blank
    <3>5. i \in 0 .. WordsIn(n, k) - 1
      BY <3>3
    <3> QED BY <3>2, <3>3, <3>4, <3>5, FillEntries
  <2>8. TableThere(g, r)
    <3>1. TableEnd(r) <= End(g)
      <4>1. e \in 3 .. e
        BY <1>1, <1>2, <2>2
      <4>2. e < End(g) /\ e \in Nat
        BY <2>5, <4>1
      <4>3. End(g) \in Nat
        <5>1. g.size \in Nat /\ g.ragged \in BOOLEAN
          BY <2>4 DEF FileShape
        <5>2. CASE g.ragged = TRUE
          BY <5>1, <5>2, Ends
        <5>3. CASE g.ragged = FALSE
          BY <5>1, <5>3, Ends
        <5> QED BY <5>1, <5>2, <5>3
      <4> QED BY <1>1, <1>2, <4>2, <4>3
    <3>2. ASSUME NEW k \in 0 .. BatSectors(r) - 1 PROVE GoodSector(At(g, KBatStartSec + k), k, r)
      <4>1. \A i \in 0 .. 127 : k * 128 + i < n => GoodEntry(EntryIn(At(g, 3 + k), i), r)
        BY <2>7 DEF GoodEntry
      <4> QED BY <4>1, <1>1, Constants DEF GoodSector
    <3> QED BY <3>1, <3>2 DEF TableThere
  <2>9. ASSUME TableFits(r) PROVE FooterThere(g, r)
    <3>1. TableEnd(r) <= KFooterSec(r)
      BY <1>2, <2>9 DEF TableFits
    <3>2. f.size = KFooterSec(r) + 1 /\ ~f.ragged /\ At(f, KFooterSec(r)).kind = "Footer"
      BY <2>9 DEF FooterThere
    <3>3. g.size = f.size /\ g.ragged = f.ragged
      BY <1>1, <1>2, <2>4, <3>1, <3>2
    <3>4. At(g, KFooterSec(r)) = At(f, KFooterSec(r))
      BY <1>1, <1>2, <2>4, <3>1
    <3> QED BY <3>2, <3>3, <3>4, Zenon DEF FooterThere
  <2>10. ASSUME TableFits(r) PROVE NoBlocks(g, r)
    <3>1. ASSUME NEW b \in Blocks(r) PROVE Entry(TableOf(g, r), b) = Unused
      <4>1. PICK k, i : k = b \div EntriesPerSector /\ i = b % EntriesPerSector
        OBVIOUS
      <4>2. k \in 0 .. BatSectors(r) - 1 /\ i \in 0 .. 127 /\ k * 128 + i = b
        BY <3>1, <4>1, WordOf, Constants
      <4>3. k * 128 + i < n
        BY <1>1, <1>2, <3>1, <4>2 DEF Blocks
      <4>4. EntryIn(At(g, 3 + k), i) = Unused
        BY <2>7, <2>10, <4>2, <4>3
      <4>5. TableOf(g, r)[k] = At(g, 3 + k)
        BY <2>4, <4>2, TableOfIs, Constants
      <4> QED BY <4>1, <4>4, <4>5 DEF Entry
    <3> QED BY <3>1 DEF NoBlocks
  <2> QED BY <2>4, <2>6, <2>8, <2>9, <2>10
<1> QED BY <1>5, <1>6

LEMMA DynamicProgress ==
  ASSUME NEW r \in Requests, RequestValid(r), r.type = "Dynamic",
         NEW f, FileShape(f), NEW n \in 1 .. 5, Progress(f, r, n),
         NEW w, w = Layout(r)[5 - n + 1], NEW g, g = Next_(f, w)
  PROVE  Progress(g, r, n - 1)
<1>1. /\ n <= 3 => FooterThere(f, r)
      /\ n > 3 => f.size <= KFooterSec(r)
      /\ n <= 4 => CopyThere(f)
      /\ n <= 2 => HeaderThere(f)
      /\ TableBlank(f, r)
  BY DEF Progress, FooterLeft, CopyLeft
<1>2. CASE n = 5
  <2>1. g = Next_(f, CopyWrite)
    BY <1>2, LayoutOfDynamic
  <2>2. CopyThere(g) /\ Kept(f, g, r)
    BY <2>1, CopyStep
  <2> QED BY <1>1, <1>2, <2>2 DEF Progress, FooterLeft, CopyLeft, Kept
<1>3. CASE n = 4
  <2>1. g = Next_(f, FooterWrite(r))
    BY <1>3, LayoutOfDynamic
  <2>2. /\ FooterThere(g, r) /\ (CopyThere(f) => CopyThere(g))
        /\ TableBlank(f, r) => TableBlank(g, r)
    BY <1>1, <1>3, <2>1, FooterStep
  <2> QED BY <1>1, <1>3, <2>2 DEF Progress, FooterLeft, CopyLeft
<1>4. CASE n = 3
  <2>1. g = Next_(f, HeaderWrite)
    BY <1>4, LayoutOfDynamic
  <2>2. HeaderThere(g) /\ Kept(f, g, r)
    BY <1>1, <1>4, <2>1, HeaderStep
  <2> QED BY <1>1, <1>4, <2>2 DEF Progress, FooterLeft, CopyLeft, Kept
<1>5. CASE n = 2
  <2>1. g = Next_(f, ZerosWrite(r))
    BY <1>5, LayoutOfDynamic
  <2>2. Kept(f, g, r)
    BY <1>1, <1>5, <2>1, ZerosStep
  <2> QED BY <1>1, <1>5, <2>2 DEF Progress, FooterLeft, CopyLeft, Kept
<1>6. CASE n = 1
  <2>1. g = Next_(f, OnesWrite(r))
    BY <1>6, LayoutOfDynamic
  <2>2. /\ CopyThere(g) /\ HeaderThere(g) /\ TableThere(g, r)
        /\ TableFits(r) => FooterThere(g, r) /\ NoBlocks(g, r)
    BY <1>1, <1>6, <2>1, OnesStep
  <2> QED BY <1>6, <2>2 DEF Progress, FooterLeft, CopyLeft
<1> QED BY <1>2, <1>3, <1>4, <1>5, <1>6

LEMMA DiffProgress ==
  ASSUME NEW r \in Requests, RequestValid(r), r.type = "Diff",
         NEW f, FileShape(f), NEW n \in 1 .. 9, Progress(f, r, n),
         NEW w, w = Layout(r)[9 - n + 1], NEW g, g = Next_(f, w)
  PROVE  Progress(g, r, n - 1)
<1>1. /\ n <= 4 => FooterThere(f, r)
      /\ n > 4 => f.size <= KFooterSec(r)
      /\ n <= 3 => CopyThere(f)
      /\ n <= 2 => HeaderThere(f)
      /\ TableBlank(f, r)
  BY DEF Progress, FooterLeft, CopyLeft
<1>2. CASE n >= 6
  <2>1. PICK i \in 1 .. 4 : i = 9 - n + 1
    BY <1>2
  <2>2. g = Next_(f, Put(KLocatorsStartSec(r) + i - 1, <<"Locator">>))
    BY <2>1, LayoutOfDiff
  <2>3. g.size <= KFooterSec(r) /\ (TableBlank(f, r) => TableBlank(g, r))
    BY <1>1, <1>2, <2>2, LocatorStep
  <2> QED BY <1>1, <1>2, <2>3 DEF Progress, FooterLeft, CopyLeft
<1>3. CASE n = 5
  <2>1. g = Next_(f, FooterWrite(r))
    BY <1>3, LayoutOfDiff
  <2>2. /\ FooterThere(g, r) /\ (CopyThere(f) => CopyThere(g))
        /\ TableBlank(f, r) => TableBlank(g, r)
    BY <1>1, <1>3, <2>1, FooterStep
  <2> QED BY <1>1, <1>3, <2>2 DEF Progress, FooterLeft, CopyLeft
<1>4. CASE n = 4
  <2>1. g = Next_(f, CopyWrite)
    BY <1>4, LayoutOfDiff
  <2>2. CopyThere(g) /\ Kept(f, g, r)
    BY <2>1, CopyStep
  <2> QED BY <1>1, <1>4, <2>2 DEF Progress, FooterLeft, CopyLeft, Kept
<1>5. CASE n = 3
  <2>1. g = Next_(f, HeaderWrite)
    BY <1>5, LayoutOfDiff
  <2>2. HeaderThere(g) /\ Kept(f, g, r)
    BY <1>1, <1>5, <2>1, HeaderStep
  <2> QED BY <1>1, <1>5, <2>2 DEF Progress, FooterLeft, CopyLeft, Kept
<1>6. CASE n = 2
  <2>1. g = Next_(f, ZerosWrite(r))
    BY <1>6, LayoutOfDiff
  <2>2. Kept(f, g, r)
    BY <1>1, <1>6, <2>1, ZerosStep
  <2> QED BY <1>1, <1>6, <2>2 DEF Progress, FooterLeft, CopyLeft, Kept
<1>7. CASE n = 1
  <2>1. g = Next_(f, OnesWrite(r))
    BY <1>7, LayoutOfDiff
  <2>2. /\ CopyThere(g) /\ HeaderThere(g) /\ TableThere(g, r)
        /\ TableFits(r) => FooterThere(g, r) /\ NoBlocks(g, r)
    BY <1>1, <1>7, <2>1, OnesStep
  <2> QED BY <1>7, <2>2 DEF Progress, FooterLeft, CopyLeft
<1> QED BY <1>2, <1>3, <1>4, <1>5, <1>6, <1>7

(* A write of GenerateFile, and the empty file before the first *)
LEMMA Progresses ==
  ASSUME NEW r \in Requests, RequestValid(r), NEW f, FileShape(f), NEW todo, Remaining(todo, r),
         todo # <<>>, Progress(f, r, Len(todo)), NEW g, g = Next_(f, Head(todo))
  PROVE  Progress(g, r, Len(Tail(todo)))
<1>1. Layout(r) \in Seq(Writes)
  BY LayoutRemains
<1>2. /\ Len(Tail(todo)) = Len(todo) - 1 /\ Len(todo) \in Nat \ {0} /\ Len(todo) <= Len(Layout(r))
      /\ Head(todo) = Layout(r)[Len(Layout(r)) - Len(todo) + 1]
  BY <1>1, NextRemains
<1>3. PICK n, w, l, m : n = Len(todo) /\ w = Head(todo) /\ l = Layout(r) /\ m = Len(l)
  OBVIOUS
<1>4. Progress(f, r, n) /\ g = Next_(f, w) /\ n \in Nat \ {0} /\ n <= m /\ w = l[m - n + 1]
  BY <1>2, <1>3
<1>5. Progress(g, r, n - 1)
  <2>1. CASE r.type = "Fixed"
    <3>1. m = 2
      BY <1>3, <2>1, LayoutOfFixed
    <3>2. n \in 1 .. 2 /\ w = l[2 - n + 1]
      BY ONLY <1>4, <3>1
    <3>3. w = Layout(r)[2 - n + 1]
      BY ONLY <1>3, <3>2, Zenon
    <3> QED BY <1>4, <2>1, <3>2, <3>3, FixedProgress, Zenon
  <2>2. CASE r.type = "Dynamic"
    <3>1. m = 5
      BY <1>3, <2>2, LayoutOfDynamic
    <3>2. n \in 1 .. 5 /\ w = l[5 - n + 1]
      BY ONLY <1>4, <3>1
    <3>3. w = Layout(r)[5 - n + 1]
      BY ONLY <1>3, <3>2, Zenon
    <3> QED BY <1>4, <2>2, <3>2, <3>3, DynamicProgress, Zenon
  <2>3. CASE r.type = "Diff"
    <3>1. m = 9
      BY <1>3, <2>3, LayoutOfDiff
    <3>2. n \in 1 .. 9 /\ w = l[9 - n + 1]
      BY ONLY <1>4, <3>1
    <3>3. w = Layout(r)[9 - n + 1]
      BY ONLY <1>3, <3>2, Zenon
    <3> QED BY <1>4, <2>3, <3>2, <3>3, DiffProgress, Zenon
  <2> QED BY <2>1, <2>2, <2>3, Numbers
<1> QED BY <1>2, <1>3, <1>5

LEMMA NewFileProgress ==
  ASSUME NEW r \in Requests, RequestValid(r)
  PROVE  FileShape(NewFile) /\ NewFile.exists = TRUE /\ Progress(NewFile, r, Len(Layout(r)))
<1>1. /\ NewFile.exists = TRUE /\ NewFile.size = 0 /\ NewFile.ragged = FALSE /\ NewFile.at = <<>>
      /\ NewFile = [exists |-> TRUE, size |-> 0, ragged |-> FALSE, at |-> <<>>]
  <2>1. NewFile = [exists |-> TRUE, size |-> 0, ragged |-> FALSE, at |-> <<>>]
    <3>1. PICK a : a = <<>>
      OBVIOUS
    <3>2. NewFile = [[exists |-> FALSE, size |-> 0, ragged |-> FALSE, at |-> a] EXCEPT !.exists = TRUE]
      BY <3>1 DEF NewFile, NoFile
    <3> QED BY <3>1, <3>2
  <2>2. /\ NewFile.exists = TRUE /\ NewFile.size = 0 /\ NewFile.ragged = FALSE
    BY <2>1
  <2>3. NewFile.at = <<>>
    BY <2>1
  <2> QED BY <2>1, <2>2, <2>3, Zenon
<1>2. DOMAIN NewFile.at = {}
  <2>1. DOMAIN <<>> = {}
    OBVIOUS
  <2> QED BY <1>1, <2>1
<1>3. FileShape(NewFile)
  BY <1>1, <1>2 DEF FileShape
<1>4. \A s : At(NewFile, s) = Plain("Zero")
  BY <1>2 DEF At
<1>5. TableBlank(NewFile, r)
  BY <1>4, KindOfPlain DEF TableBlank, Blank
<1>6. /\ r.type = "Fixed" => Len(Layout(r)) = 2
      /\ r.type = "Dynamic" => Len(Layout(r)) = 5
      /\ r.type = "Diff" => Len(Layout(r)) = 9
      /\ r.type \in {"Fixed", "Dynamic", "Diff"}
  BY Numbers, LayoutOfFixed, LayoutOfDynamic, LayoutOfDiff
<1>7. NewFile.size <= KFooterSec(r)
  BY <1>1, Places
<1>8. Progress(NewFile, r, Len(Layout(r)))
  <2>1. PICK n, f : n = Len(Layout(r)) /\ f = NewFile
    OBVIOUS
  <2>2. f.size <= KFooterSec(r) /\ TableBlank(f, r)
    BY <1>5, <1>7, <2>1
  <2>3. CASE r.type = "Fixed"
    <3>1. n = 2
      BY <1>6, <2>1, <2>3
    <3>2. Progress(f, r, n)
      BY ONLY <2>2, <2>3, <3>1 DEF Progress, FooterLeft, CopyLeft
    <3> QED BY <2>1, <3>2
  <2>4. CASE r.type = "Dynamic"
    <3>1. n = 5
      BY <1>6, <2>1, <2>4
    <3>2. Progress(f, r, n)
      BY ONLY <2>2, <2>4, <3>1 DEF Progress, FooterLeft, CopyLeft
    <3> QED BY <2>1, <3>2
  <2>5. CASE r.type = "Diff"
    <3>1. n = 9
      BY <1>6, <2>1, <2>5
    <3>2. Progress(f, r, n)
      BY ONLY <2>2, <2>5, <3>1 DEF Progress, FooterLeft, CopyLeft
    <3> QED BY <2>1, <3>2
  <2> QED BY <1>6, <2>3, <2>4, <2>5
<1> QED BY <1>1, <1>3, <1>8

-----------------------------------------------------------------------------
(* Writes of a state that has its shape *)

LEMMA PendingIs == ASSUME Shape PROVE IsContent(Pending)
<1>1. CASE call.pc = "Generate" /\ call.todo # <<>>
  <2>1. call.todo \in Seq(Writes)
    BY <1>1 DEF Shape, CallShape, CreateShape
  <2>2. PICK w : w = Head(call.todo)
    OBVIOUS
  <2>3. w \in Writes
    BY <1>1, <2>1, <2>2
  <2>4. Pending = Content(file, w)
    BY <1>1, <2>2 DEF Pending
  <2> QED BY <2>3, <2>4, ContentIs
<1>2. CASE call.pc = "AppendFooter"
  BY <1>2, FooterPending DEF IsContent
<1>3. CASE call.pc = "AppendBitmap"
  BY <1>3, BitmapPending, BitmapRun DEF IsContent
<1>4. CASE call.pc = "WriteData"
  BY <1>4, DataPending DEF IsContent
<1>5. CASE call.pc = "FlushBat" /\ session.dirty
  BY <1>5, TablePending DEF IsContent
<1>6. CASE call.pc = "FlushBits" /\ call.bits # {}
  <2>1. PICK p : p = CHOOSE q \in call.bits : TRUE
    OBVIOUS
  <2>2. p \in Nat /\ Pending = BitmapAt(p) /\ asked \in Requests /\ RequestValid(asked)
    BY <1>6, <2>1, BitsPending
  <2> QED BY <2>2, BitmapRun DEF IsContent
<1>7. CASE /\ ~(call.pc = "Generate" /\ call.todo # <<>>) /\ call.pc # "AppendFooter"
           /\ call.pc # "AppendBitmap" /\ call.pc # "WriteData"
           /\ ~(call.pc = "FlushBat" /\ session.dirty) /\ ~(call.pc = "FlushBits" /\ call.bits # {})
  <2>1. Pending = <<>>
    BY <1>7 DEF Pending
  <2> QED BY <2>1 DEF IsContent
<1> QED BY <1>1, <1>2, <1>3, <1>4, <1>5, <1>6, <1>7

(* A write that succeeds *)
WritesAll(f, g, c) == (c = <<>> => g = f) /\ (c # <<>> => WroteAll(f, g, c)) /\ Wrote(f, g, c)

LEMMA WrittenDoes == ASSUME Shape, Written PROVE WritesAll(file, file', Pending)
<1>1. FileShape(file)
  BY DEF Shape
<1>2. PICK f, g, c : f = file /\ g = file' /\ c = Pending
  OBVIOUS
<1>3. FileShape(f) /\ IsContent(c) /\ g = Write(f, c, FALSE)
  BY <1>1, <1>2, PendingIs DEF Written
<1>4. CASE c = <<>>
  <2>1. g = f
    BY <1>3, <1>4 DEF Write
  <2> QED BY <1>2, <1>3, <1>4, <2>1, NothingWritten DEF WritesAll
<1>5. CASE c # <<>>
  <2>1. PICK a, e : IsRun(c, a, e)
    BY <1>3, <1>5 DEF IsContent
  <2>2. WroteAll(f, g, c)
    BY <1>3, <2>1, WholeWrite, Zenon
  <2>3. Wrote(f, g, c)
    BY <2>2 DEF WroteAll
  <2> QED BY <1>2, <1>5, <2>2, <2>3 DEF WritesAll
<1> QED BY <1>4, <1>5

LEMMA NotWrittenDoes == ASSUME Shape, NotWritten PROVE Wrote(file, file', Pending) /\ Pending # <<>>
<1>1. FileShape(file) /\ IsContent(Pending)
  BY PendingIs DEF Shape
<1>2. file' \in FailedWrites(file, Pending)
  BY DEF NotWritten
<1>3. PICK f, g, c : f = file /\ g = file' /\ c = Pending
  OBVIOUS
<1>4. Wrote(f, g, c) /\ c # <<>>
  BY <1>1, <1>2, <1>3, FailedWriteDoes
<1> QED BY <1>3, <1>4

LEMMA DiesDoes ==
  ASSUME Shape, ProcessDies
  PROVE  Wrote(file, file', Pending) /\ (Pending = <<>> => file' = file)
<1>1. FileShape(file) /\ IsContent(Pending)
  BY PendingIs DEF Shape
<1>2. file' = file \/ file' \in FailedWrites(file, Pending)
  BY DEF ProcessDies
<1>3. PICK f, g, c : f = file /\ g = file' /\ c = Pending
  OBVIOUS
<1>4. CASE g = f
  BY <1>1, <1>3, <1>4, NothingWritten
<1>5. CASE g \in FailedWrites(f, c)
  <2>1. Wrote(f, g, c) /\ c # <<>>
    BY <1>1, <1>3, <1>5, FailedWriteDoes
  <2> QED BY <1>3, <2>1
<1> QED BY <1>2, <1>3, <1>4, <1>5

-----------------------------------------------------------------------------
(* Every step keeps the shape. *)

LEMMA NoCallShape == ASSUME call' = NoCall PROVE CallShape'
<1>1. call'.pc = "none"
  BY DEF NoCall
<1> QED BY <1>1 DEF CallShape, CallRecord, CreateShape, OpenShape, FlushShape, BlockShape, AppendShape

(* The file is written, and what was asked for and made stays. *)
LEMMA FlagsKept ==
  ASSUME FlagsShape, OnlyFile, file'.exists = file.exists
  PROVE  FlagsShape'
BY DEF FlagsShape, OnlyFile

LEMMA ClosedShape == ASSUME session' = Closed PROVE SessionShape'
BY DEF SessionShape

LEMMA WroteShape ==
  ASSUME Shape, OnlyFile, Wrote(file, file', Pending)
  PROVE  /\ FileShape(file') /\ FileShape(durable') /\ FlagsShape'
         /\ file'.exists = file.exists /\ file'.size \in Nat /\ file.size \in Nat
         /\ file.size <= file'.size
<1>1. FileShape(file') /\ file'.exists = file.exists /\ file.size <= file'.size
  BY DEF Wrote
<1>2. FileShape(durable')
  BY DEF OnlyFile, Shape
<1>3. FlagsShape'
  BY <1>1, FlagsKept DEF Shape
<1> QED BY <1>1, <1>2, <1>3 DEF Shape, FileShape

(* A session that stays, or of which table and bitmaps are only noted. *)
LEMMA SessionKept ==
  ASSUME Shape, file'.exists = file.exists, file.size <= file'.size, file'.size \in Nat,
         asked' = asked, session' = session
  PROVE  SessionShape'
<1>1. CASE session = Closed
  BY <1>1, ClosedShape
<1>2. CASE session # Closed
  <2>1. file.exists /\ file.size >= 1 /\ SizeAccepted(asked) /\ file.size \in Nat
    BY <1>2 DEF Shape, SessionShape, FileShape
  <2>2. file'.exists /\ file'.size >= 1 /\ SizeAccepted(asked')
    BY <2>1
  <2> QED BY <1>2, <2>2 DEF Shape, SessionShape
<1> QED BY <1>1, <1>2

LEMMA DiesShape == ASSUME Shape, ProcessDies PROVE Shape'
<1>1. FileShape(file') /\ FileShape(durable') /\ FlagsShape'
  BY DiesDoes, WroteShape DEF ProcessDies
<1>2. SessionShape' /\ CallShape'
  BY ClosedShape, NoCallShape DEF ProcessDies
<1> QED BY <1>1, <1>2 DEF Shape

LEMMA CreateKeepsShape == ASSUME Shape, NEW r \in Requests, VHD_Create(r) PROVE Shape'
<1>1. /\ file' = NewFile /\ asked' = r /\ ~file.exists /\ RequestValid(r)
      /\ ~session.open /\ session' = session /\ durable' = durable
      /\ made' = made /\ sound' = sound /\ cut' = cut
  BY DEF VHD_Create
<1>2. PICK pc \in {"OpenParent", "Generate"} : call' = [pc |-> pc, todo |-> Layout(r)]
  BY DEF VHD_Create
<1>3. FileShape(file') /\ file'.exists = TRUE
  BY <1>1, NewFileProgress
<1>4. made = FALSE /\ sound = FALSE /\ cut = FALSE
  BY <1>1 DEF Shape, FlagsShape
<1>5. FlagsShape'
  <2>1. made' = FALSE /\ sound' = FALSE /\ cut' = FALSE
    BY <1>1, <1>4, Zenon
  <2>2. asked' \in Requests /\ RequestValid(asked')
    BY <1>1
  <2>3. r \in Requests \cup {NoRequest}
    OBVIOUS
  <2>4. asked' \in Requests \cup {NoRequest}
    BY <1>1, <2>3, Zenon
  <2> QED BY <2>1, <2>2, <2>4, Zenon DEF FlagsShape
<1>6. session = Closed
  BY <1>1 DEF Shape, SessionShape
<1>7. SessionShape'
  BY <1>1, <1>6, ClosedShape
<1>8. Layout(r) \in Seq(Writes)
  BY <1>1, LayoutRemains
<1>9. call'.pc \in {"OpenParent", "Generate"} /\ call'.todo = Layout(r) /\ call' = [pc |-> call'.pc, todo |-> call'.todo]
  BY <1>2
<1>10. ~session'.open /\ file'.exists /\ ~made'
  BY <1>1, <1>3, <1>4
<1>11. CallShape'
  BY <1>8, <1>9, <1>10 DEF CallShape, CallRecord, CreateShape, OpenShape, FlushShape, BlockShape, AppendShape
<1> QED BY <1>1, <1>3, <1>5, <1>7, <1>11 DEF Shape

(* The file is deleted while it is made. *)
LEMMA UnlinkKeepsShape ==
  ASSUME Shape, call.pc \in {"OpenParent", "Generate"}, Unlink
  PROVE  Shape'
<1>1. /\ file' = NoFile /\ call' = NoCall /\ asked' = asked /\ session' = session /\ durable' = durable
      /\ made' = made /\ sound' = sound /\ cut' = cut
  BY DEF Unlink
<1>2. ~session.open /\ ~made
  BY DEF Shape, CallShape, CreateShape
<1>3. made = FALSE /\ sound = FALSE /\ cut = FALSE
  BY <1>2 DEF Shape, FlagsShape
<1>4. NoFile = [exists |-> FALSE, size |-> 0, ragged |-> FALSE, at |-> <<>>]
  BY DEF NoFile
<1>5. PICK a : a = <<>> /\ DOMAIN a = {}
  <2>1. DOMAIN <<>> = {}
    OBVIOUS
  <2> QED BY <2>1
<1>6. file'.exists = FALSE /\ file'.size = 0 /\ file'.ragged = FALSE /\ file'.at = a
      /\ file' = [exists |-> file'.exists, size |-> file'.size, ragged |-> file'.ragged, at |-> file'.at]
  <2>1. file' = [exists |-> FALSE, size |-> 0, ragged |-> FALSE, at |-> a]
    BY <1>1, <1>4, <1>5
  <2> QED BY <2>1
<1>7. FileShape(file')
  <2>1. PICK g : g = file'
    OBVIOUS
  <2>2. g = [exists |-> FALSE, size |-> 0, ragged |-> FALSE, at |-> a]
    BY <1>1, <1>4, <1>5, <2>1
  <2>3. g.exists = FALSE /\ g.size = 0 /\ g.ragged = FALSE /\ DOMAIN g.at = {}
    BY <1>5, <2>2
  <2>4. g = [exists |-> g.exists, size |-> g.size, ragged |-> g.ragged, at |-> g.at]
    BY <2>2
  <2>5. FileShape(g)
    <3>1. g.exists \in BOOLEAN /\ g.size \in Nat /\ g.ragged \in BOOLEAN
      <4>1. FALSE \in BOOLEAN /\ 0 \in Nat
        OBVIOUS
      <4> QED BY ONLY <2>3, <4>1, Zenon
    <3>2. \A s \in DOMAIN g.at : s \in 0 .. g.size /\ (s = g.size => g.ragged) /\ SectorShape(g.at[s])
      BY ONLY <2>3, Zenon
    <3> QED BY <2>4, <3>1, <3>2, Zenon DEF FileShape
  <2> QED BY <2>1, <2>5
<1>8. FlagsShape'
  BY <1>1, <1>3, <1>6 DEF Shape, FlagsShape
<1>9. SessionShape'
  <2>1. session = Closed
    BY <1>2 DEF Shape, SessionShape
  <2> QED BY <1>1, <2>1, ClosedShape
<1> QED BY <1>1, <1>7, <1>8, <1>9, NoCallShape DEF Shape

(* A step that changes nothing but the call. *)
LEMMA OnlyCall ==
  ASSUME Shape, UNCHANGED <<fileVars, session>>, CallShape'
  PROVE  Shape'
<1>1. FileShape(file') /\ FileShape(durable') /\ FlagsShape'
  BY DEF Shape, FlagsShape, fileVars
<1>2. SessionShape'
  BY DEF Shape, SessionShape, fileVars
<1> QED BY <1>1, <1>2 DEF Shape

LEMMA OpenParentKeepsShape == ASSUME Shape, OpenParent PROVE Shape'
<1>1. call.pc = "OpenParent"
  BY DEF OpenParent, At_
<1>2. CASE Goto("Generate") /\ UNCHANGED <<fileVars, session>>
  <2>1. call = [pc |-> call.pc, todo |-> call.todo]
    BY <1>1 DEF Shape, CallShape, CallRecord, NoCall
  <2>2. call' = [pc |-> "Generate", todo |-> call.todo]
    <3>1. PICK d : d = call.todo
      OBVIOUS
    <3>2. call = [pc |-> call.pc, todo |-> d] /\ call' = [call EXCEPT !.pc = "Generate"]
      BY <1>2, <2>1, <3>1 DEF Goto
    <3> QED BY <3>1, <3>2
  <2>3. call'.pc = "Generate" /\ call'.todo = call.todo /\ call' = [pc |-> call'.pc, todo |-> call'.todo]
    BY <2>2
  <2>4. call.todo \in Seq(Writes) /\ ~session.open /\ file.exists /\ ~made
    BY <1>1 DEF Shape, CallShape, CreateShape
  <2>5. call'.todo \in Seq(Writes) /\ ~session'.open /\ file'.exists /\ ~made'
    BY <1>2, <2>3, <2>4 DEF fileVars
  <2>6. CallShape'
    BY <2>3, <2>5 DEF CallShape, CallRecord, CreateShape, OpenShape, FlushShape, BlockShape, AppendShape
  <2> QED BY <1>2, <2>6, OnlyCall
<1>3. CASE Unlink
  BY <1>1, <1>3, UnlinkKeepsShape
<1> QED BY <1>2, <1>3 DEF OpenParent

LEMMA GenerateKeepsShape == ASSUME Shape, Generate PROVE Shape'
<1>1. call.pc = "Generate" /\ call.todo # <<>>
  BY DEF Generate, At_
<1>2. call.todo \in Seq(Writes) /\ ~session.open /\ file.exists /\ ~made
  BY <1>1 DEF Shape, CallShape, CreateShape
<1>3. CASE /\ file' = Write(file, Pending, LeavesRagged(file, Head(call.todo)))
           /\ call' = [call EXCEPT !.todo = Tail(@)]
           /\ OnlyFile /\ UNCHANGED session
  <2>1. PICK f, w, g : f = file /\ w = Head(call.todo) /\ g = file'
    OBVIOUS
  <2>2. w \in Writes
    BY <1>1, <1>2, <2>1
  <2>3. g = Next_(f, w)
    BY <1>1, <1>3, <2>1 DEF Next_, Pending
  <2>4. FileShape(g) /\ g.exists = f.exists
    <3>1. FileShape(f)
      BY <2>1 DEF Shape
    <3> QED BY <2>2, <2>3, <3>1, NextShape
  <2>5. FlagsShape'
    BY <1>3, <2>1, <2>4, FlagsKept DEF Shape
  <2>6. session' = Closed
    BY <1>2, <1>3 DEF Shape, SessionShape
  <2>7. call = [pc |-> "Generate", todo |-> call.todo]
    BY <1>1 DEF Shape, CallShape, CallRecord, NoCall
  <2>8. PICK t : t = Tail(call.todo)
    OBVIOUS
  <2>9. t \in Seq(Writes)
    BY <1>1, <1>2, <2>8
  <2>10. call' = [pc |-> "Generate", todo |-> t]
    <3>1. PICK d : d = call.todo
      OBVIOUS
    <3>2. call = [pc |-> "Generate", todo |-> d] /\ call' = [call EXCEPT !.todo = t]
      BY <1>3, <2>7, <2>8, <3>1, Zenon
    <3> QED BY <3>2
  <2>11. call'.pc = "Generate" /\ call'.todo \in Seq(Writes) /\ call' = [pc |-> call'.pc, todo |-> call'.todo]
    BY <2>9, <2>10
  <2>12. ~session'.open /\ file'.exists /\ ~made'
    BY <1>2, <1>3, <2>1, <2>4 DEF OnlyFile
  <2>13. CallShape'
    BY <2>11, <2>12 DEF CallShape, CallRecord, CreateShape, OpenShape, FlushShape, BlockShape, AppendShape
  <2>14. FileShape(durable')
    BY <1>3 DEF Shape, OnlyFile
  <2> QED BY <2>1, <2>4, <2>5, <2>6, <2>13, <2>14, ClosedShape DEF Shape
<1>4. CASE Unlink
  BY <1>1, <1>4, UnlinkKeepsShape
<1> QED BY <1>3, <1>4 DEF Generate

LEMMA OpenCallShape ==
  ASSUME NEW pc \in {"OpenNew", "Open"}, call' = [pc |-> pc], ~session'.open, file'.exists
  PROVE  CallShape'
<1>1. call'.pc = pc
  OBVIOUS
<1> QED BY <1>1 DEF CallShape, CallRecord, CreateShape, OpenShape, FlushShape, BlockShape, AppendShape

LEMMA GeneratedKeepsShape == ASSUME Shape, Generated PROVE Shape'
<1>1. call.pc = "Generate" /\ made' = TRUE /\ call' = [pc |-> "OpenNew"]
      /\ UNCHANGED <<file, durable, asked, sound, cut, synced, session>>
  BY DEF Generated, At_
<1>2. ~session.open /\ file.exists
  BY <1>1 DEF Shape, CallShape, CreateShape
<1>3. CallShape'
  BY <1>1, <1>2, OpenCallShape
<1>4. FlagsShape'
  BY <1>1, <1>2 DEF Shape, FlagsShape
<1>5. SessionShape'
  BY <1>1 DEF Shape, SessionShape
<1> QED BY <1>1, <1>3, <1>4, <1>5 DEF Shape

LEMMA VHD_OpenKeepsShape == ASSUME Shape, VHD_Open PROVE Shape'
<1>1. ~session.open /\ file.exists /\ call' = [pc |-> "Open"] /\ UNCHANGED <<fileVars, session>>
  BY DEF VHD_Open
<1>2. ~session'.open /\ file'.exists
  BY <1>1 DEF fileVars
<1>3. CallShape'
  BY <1>1, <1>2, OpenCallShape
<1> QED BY <1>1, <1>3, OnlyCall

LEMMA OpenKeepsShape == ASSUME Shape, Open PROVE Shape'
<1>1. call.pc \in {"Open", "OpenNew"} /\ call' = NoCall /\ UNCHANGED fileVars
      /\ session' = IF Opens(file, asked) THEN Opened ELSE Closed
  BY DEF Open, At_
<1>2. file.exists /\ file.size \in Nat
  BY <1>1 DEF Shape, CallShape, OpenShape, FileShape
<1>3. FileShape(file') /\ FileShape(durable') /\ FlagsShape'
  BY <1>1 DEF Shape, FlagsShape, fileVars
<1>4. CASE Opens(file, asked)
  <2>1. SizeAccepted(asked) /\ file.size # 0
    BY <1>2, <1>4 DEF Opens, Recognised
  <2>2. session' = Opened
    BY <1>1, <1>4
  <2>3. session'.open = TRUE /\ session'.cached = FALSE /\ session'.dirty = FALSE /\ session'.bits = {}
        /\ session' = [open |-> TRUE, cached |-> session'.cached, table |-> session'.table,
                       dirty |-> session'.dirty, bits |-> session'.bits]
    BY <2>2 DEF Opened
  <2>4. file'.exists /\ file'.size >= 1 /\ SizeAccepted(asked')
    BY <1>1, <1>2, <2>1 DEF fileVars
  <2>5. SessionShape'
    BY <2>3, <2>4 DEF SessionShape
  <2> QED BY <1>1, <1>3, <2>5, NoCallShape DEF Shape
<1>5. CASE ~Opens(file, asked)
  <2>1. session' = Closed
    BY <1>1, <1>5
  <2> QED BY <1>1, <1>3, <2>1, ClosedShape, NoCallShape DEF Shape
<1> QED BY <1>4, <1>5

LEMMA FlushCallShape ==
  ASSUME NEW pc \in {"FlushBat", "FlushBits"}, NEW why, NEW bits, NEW failed \in BOOLEAN,
         call' = [pc |-> pc, why |-> why, bits |-> bits, failed |-> failed],
         session'.open, bits \in SUBSET session'.bits
  PROVE  CallShape'
<1>1. call'.pc = pc /\ call'.why = why /\ call'.bits = bits /\ call'.failed = failed
  OBVIOUS
<1>2. call' = [pc |-> call'.pc, why |-> call'.why, bits |-> call'.bits, failed |-> call'.failed]
  BY <1>1
<1>3. CallRecord'
  BY <1>1, <1>2, Zenon DEF CallRecord
<1>4. FlushShape'
  BY <1>1, Zenon DEF FlushShape
<1>5. CreateShape' /\ OpenShape' /\ BlockShape' /\ AppendShape'
  BY <1>1 DEF CreateShape, OpenShape, BlockShape, AppendShape
<1> QED BY <1>3, <1>4, <1>5 DEF CallShape

LEMMA BlockCallShape ==
  ASSUME NEW pc \in {"AppendBlock", "AppendFooter", "AppendBitmap", "WriteData"},
         NEW block, NEW place, NEW new \in BOOLEAN,
         call' = [pc |-> pc, block |-> block, place |-> place, new |-> new],
         session'.open, session'.cached, block \in Blocks(asked'), AppendShape'
  PROVE  CallShape'
<1>1. call'.pc = pc /\ call'.block = block /\ call'.place = place /\ call'.new = new
  OBVIOUS
<1>2. call' = [pc |-> call'.pc, block |-> call'.block, place |-> call'.place, new |-> call'.new]
  BY <1>1
<1>3. CallRecord'
  BY <1>1, <1>2, Zenon DEF CallRecord
<1>4. BlockShape'
  BY <1>1, Zenon DEF BlockShape
<1>5. CreateShape' /\ OpenShape' /\ FlushShape'
  BY <1>1 DEF CreateShape, OpenShape, FlushShape
<1> QED BY <1>3, <1>4, <1>5 DEF CallShape

LEMMA SessionIs ==
  ASSUME NEW table, TableShape(table, asked'), NEW dirty \in BOOLEAN, NEW bits \in SUBSET Nat,
         session' = [open |-> TRUE, cached |-> TRUE, table |-> table, dirty |-> dirty, bits |-> bits],
         asked'.type # "Fixed", file'.exists, file'.size >= 1, SizeAccepted(asked')
  PROVE  SessionShape'
<1>1. /\ session'.cached = TRUE /\ session'.table = table /\ session'.dirty = dirty
      /\ session'.bits = bits
  OBVIOUS
<1>2. session' = [open |-> TRUE, cached |-> session'.cached, table |-> session'.table,
                  dirty |-> session'.dirty, bits |-> session'.bits]
  BY <1>1
<1>3. session'.cached \in BOOLEAN /\ session'.dirty \in BOOLEAN /\ session'.bits \in SUBSET Nat
  BY <1>1, Zenon
<1>4. session'.cached
  BY <1>1, Zenon
<1>5. TableShape(session'.table, asked')
  BY <1>1, Zenon
<1> QED BY <1>2, <1>3, <1>4, <1>5, Zenon DEF SessionShape

LEMMA FlushKeepsShape == ASSUME Shape, NEW why, VHD_Flush(why) PROVE Shape'
<1>1. session.open /\ UNCHANGED <<fileVars, session>>
      /\ call' = [pc |-> "FlushBat", why |-> why, bits |-> session.bits, failed |-> FALSE]
  BY DEF VHD_Flush, Flushing
<1>2. CallShape'
  <2>1. PICK b : b = session.bits
    OBVIOUS
  <2>2. call' = [pc |-> "FlushBat", why |-> why, bits |-> b, failed |-> FALSE]
        /\ session'.open /\ b \in SUBSET session'.bits
    BY <1>1, <2>1
  <2> QED BY <2>2, FlushCallShape
<1> QED BY <1>1, <1>2, OnlyCall

(* A cached table, whether it was read before or just now *)
LEMMA TableFound ==
  ASSUME Shape, session.open, asked.type # "Fixed",
         NEW t, t = IF session.cached THEN session.table ELSE TableOf(file, asked)
  PROVE  TableShape(t, asked)
<1>1. FileShape(file)
  BY DEF Shape
<1>2. session.cached => TableShape(session.table, asked)
  BY OpenSession
<1> QED BY <1>1, <1>2, TableOfIs

LEMMA WriteBlockKeepsShape == ASSUME Shape, NEW b \in Blocks(asked), WriteBlock(b) PROVE Shape'
<1>1. PICK t, p :
        /\ t = (IF session.cached THEN session.table ELSE TableOf(file, asked))
        /\ p = Entry(t, b)
  OBVIOUS
<1>2. /\ session.open /\ asked.type # "Fixed" /\ p # NoPlace
      /\ session' = [session EXCEPT !.cached = TRUE, !.table = t]
      /\ call' = [pc |-> IF p = Unused THEN "AppendBlock" ELSE "WriteData",
                  block |-> b, place |-> p, new |-> p = Unused]
      /\ UNCHANGED fileVars
  BY <1>1 DEF WriteBlock
<1>3. /\ session = [open |-> TRUE, cached |-> session.cached, table |-> session.table,
                    dirty |-> session.dirty, bits |-> session.bits]
      /\ session.dirty \in BOOLEAN /\ session.bits \in SUBSET Nat
      /\ file.exists /\ file.size >= 1 /\ SizeAccepted(asked)
      /\ asked \in Requests /\ RequestValid(asked)
  BY <1>2, OpenSession
<1>4. PICK c, u, d, bits : c = session.cached /\ u = session.table /\ d = session.dirty /\ bits = session.bits
  OBVIOUS
<1>5. session' = [open |-> TRUE, cached |-> TRUE, table |-> t, dirty |-> d, bits |-> bits]
  <2>1. session = [open |-> TRUE, cached |-> c, table |-> u, dirty |-> d, bits |-> bits]
    BY <1>3, <1>4, Zenon
  <2> QED BY <1>2, <2>1
<1>6. TableShape(t, asked)
  BY <1>1, <1>2, TableFound
<1>7. SessionShape'
  <2>1. /\ TableShape(t, asked') /\ d \in BOOLEAN /\ bits \in SUBSET Nat /\ asked'.type # "Fixed"
        /\ file'.exists /\ file'.size >= 1 /\ SizeAccepted(asked')
    BY <1>2, <1>3, <1>4, <1>6 DEF fileVars
  <2> QED BY <1>5, <2>1, SessionIs
<1>8. p \in Nat \cup {Unused, NoPlace}
  BY <1>1, <1>3, <1>6, EntryIs
<1>9. session'.open /\ session'.cached /\ session'.table = t
  <2>1. session'.open = TRUE /\ session'.cached = TRUE /\ session'.table = t
    BY <1>5
  <2> QED BY <2>1, Zenon
<1>10. b \in Blocks(asked')
  BY <1>2 DEF fileVars
<1>11. CASE p = Unused
  <2>1. (p = Unused) = TRUE
    BY <1>11, Zenon
  <2>2. call' = [pc |-> "AppendBlock", block |-> b, place |-> p, new |-> TRUE]
    BY <1>2, <1>11, <2>1, Zenon
  <2>3. call'.pc = "AppendBlock" /\ call'.block = b
    BY <2>2
  <2>4. AppendShape'
    BY <1>1, <1>9, <1>11, <2>3 DEF AppendShape
  <2>5. CallShape'
    BY <1>9, <1>10, <2>2, <2>4, BlockCallShape
  <2> QED BY <1>2, <1>7, <2>5 DEF Shape, FlagsShape, fileVars
<1>12. CASE p # Unused
  <2>1. (p = Unused) = FALSE
    BY <1>12, Zenon
  <2>2. call' = [pc |-> "WriteData", block |-> b, place |-> p, new |-> FALSE]
    BY <1>2, <1>12, <2>1, Zenon
  <2>3. call'.pc = "WriteData" /\ call'.block = b /\ call'.place = p
    BY <2>2
  <2>4. AppendShape'
    BY <1>1, <1>2, <1>8, <1>9, <1>12, <2>3 DEF AppendShape
  <2>5. CallShape'
    BY <1>9, <1>10, <2>2, <2>4, BlockCallShape
  <2> QED BY <1>2, <1>7, <2>5 DEF Shape, FlagsShape, fileVars
<1> QED BY <1>11, <1>12

LEMMA BlockCall ==
  ASSUME Shape, call.pc \in {"AppendBlock", "AppendFooter", "AppendBitmap", "WriteData"}
  PROVE  /\ call = [pc |-> call.pc, block |-> call.block, place |-> call.place, new |-> call.new]
         /\ session.open /\ session.cached /\ call.block \in Blocks(asked) /\ call.new \in BOOLEAN
         /\ session = [open |-> TRUE, cached |-> TRUE, table |-> session.table,
                       dirty |-> session.dirty, bits |-> session.bits]
         /\ session.dirty \in BOOLEAN /\ session.bits \in SUBSET Nat
         /\ asked.type # "Fixed" /\ TableShape(session.table, asked)
         /\ file.exists /\ file.size \in Nat /\ file.size >= 1 /\ SizeAccepted(asked)
         /\ asked \in Requests /\ RequestValid(asked)
         /\ BlockLen(asked) \in Nat /\ BlockLen(asked) >= 2
<1>1. call = [pc |-> call.pc, block |-> call.block, place |-> call.place, new |-> call.new]
  BY DEF Shape, CallShape, CallRecord, NoCall
<1>2. session.open /\ session.cached /\ call.block \in Blocks(asked) /\ call.new \in BOOLEAN
  BY DEF Shape, CallShape, BlockShape
<1>3. /\ session = [open |-> TRUE, cached |-> session.cached, table |-> session.table,
                    dirty |-> session.dirty, bits |-> session.bits]
      /\ session.dirty \in BOOLEAN /\ session.bits \in SUBSET Nat /\ session.cached \in BOOLEAN
      /\ asked.type # "Fixed" /\ TableShape(session.table, asked)
      /\ file.exists /\ file.size \in Nat /\ file.size >= 1 /\ SizeAccepted(asked)
      /\ asked \in Requests /\ RequestValid(asked)
  BY <1>2, OpenSession
<1>4. session.cached = TRUE
  BY <1>2, <1>3, Zenon
<1>5. session = [open |-> TRUE, cached |-> TRUE, table |-> session.table,
                 dirty |-> session.dirty, bits |-> session.bits]
  <2>1. PICK t, d, b : t = session.table /\ d = session.dirty /\ b = session.bits
    OBVIOUS
  <2>2. session = [open |-> TRUE, cached |-> session.cached, table |-> t, dirty |-> d, bits |-> b]
    BY <1>3, <2>1, Zenon
  <2>3. session = [open |-> TRUE, cached |-> TRUE, table |-> t, dirty |-> d, bits |-> b]
    BY <1>4, <2>2, Zenon
  <2> QED BY <2>1, <2>3, Zenon
<1>6. SBmp_SizeInSectors(asked) \in Nat \ {0} /\ SectorsPerBlock(asked) \in Nat \ {0}
  BY <1>3, Numbers
<1>7. BlockLen(asked) \in Nat /\ BlockLen(asked) >= 2
  BY <1>6 DEF BlockLen
<1> QED BY <1>1, <1>2, <1>3, <1>5, <1>7

LEMMA AppendBlockKeepsShape == ASSUME Shape, AppendBlock PROVE Shape'
<1>1. call.pc = "AppendBlock" /\ UNCHANGED <<fileVars, session>>
      /\ call' = IF file.ragged THEN NoCall
                 ELSE [call EXCEPT !.pc = "AppendFooter", !.place = file.size - 1]
  BY DEF AppendBlock, At_
<1>2. CASE file.ragged
  BY <1>1, <1>2, NoCallShape, OnlyCall
<1>3. CASE ~file.ragged
  <2>1. PICK b, p, n, q : b = call.block /\ p = call.place /\ n = call.new /\ q = file.size - 1
    OBVIOUS
  <2>2. call = [pc |-> call.pc, block |-> b, place |-> p, new |-> n]
        /\ session.open /\ session.cached /\ b \in Blocks(asked) /\ n \in BOOLEAN
    BY <1>1, <2>1, BlockCall
  <2>3. call' = [pc |-> "AppendFooter", block |-> b, place |-> q, new |-> n]
    BY <1>1, <1>3, <2>1, <2>2
  <2>4. Entry(session.table, b) = Unused
    BY <1>1, <2>1 DEF Shape, CallShape, AppendShape
  <2>5. call'.pc = "AppendFooter" /\ call'.block = b /\ call'.place = q
    BY <2>3
  <2>6. AppendShape'
    BY <1>1, <1>3, <2>1, <2>4, <2>5 DEF AppendShape, fileVars
  <2>7. session'.open /\ session'.cached /\ b \in Blocks(asked')
    BY <1>1, <2>2 DEF fileVars
  <2>8. CallShape'
    BY <2>2, <2>3, <2>6, <2>7, BlockCallShape
  <2> QED BY <1>1, <2>8, OnlyCall
<1> QED BY <1>2, <1>3

(* A write that fails ends the call. *)
LEMMA NotWrittenKeepsShape ==
  ASSUME Shape, NotWritten, call' = NoCall, UNCHANGED session PROVE Shape'
<1>1. Wrote(file, file', Pending) /\ OnlyFile
  BY NotWrittenDoes DEF NotWritten
<1>2. /\ FileShape(file') /\ FileShape(durable') /\ FlagsShape'
      /\ file'.exists = file.exists /\ file'.size \in Nat /\ file.size <= file'.size
  BY <1>1, WroteShape
<1>3. SessionShape'
  BY <1>1, <1>2, SessionKept DEF OnlyFile
<1> QED BY <1>2, <1>3, NoCallShape DEF Shape

LEMMA WrittenShape ==
  ASSUME Shape, Written
  PROVE  /\ FileShape(file') /\ FileShape(durable') /\ FlagsShape'
         /\ file'.exists = file.exists /\ file'.size \in Nat /\ file.size \in Nat
         /\ file.size <= file'.size /\ asked' = asked
         /\ WritesAll(file, file', Pending) /\ OnlyFile
<1>1. WritesAll(file, file', Pending) /\ OnlyFile
  <2>1. OnlyFile
    BY DEF Written
  <2> QED BY <2>1, WrittenDoes
<1>2. Wrote(file, file', Pending)
  BY <1>1 DEF WritesAll
<1> QED BY <1>1, <1>2, WroteShape DEF OnlyFile

(* The footer is appended: the file ends behind the block. *)
LEMMA FooterAppended ==
  ASSUME Shape, call.pc = "AppendFooter", Written
  PROVE  /\ call.place \in Nat /\ call.place = file.size - 1
         /\ file'.size = call.place + BlockLen(asked) + 1 /\ file'.ragged = FALSE
         /\ WroteAll(file, file', Pending)
<1>1. PICK c, e, f, g : c = Pending /\ e = call.place + BlockLen(asked) /\ f = file /\ g = file'
  OBVIOUS
<1>2. e \in Nat /\ call.place \in Nat /\ IsRun(c, e, e)
  BY <1>1, FooterPending
<1>3. call.place = file.size - 1 /\ file.size \in Nat /\ BlockLen(asked) >= 2
  BY BlockCall DEF Shape, CallShape, AppendShape
<1>4. FileShape(f) /\ g = Write(f, c, FALSE)
  BY <1>1 DEF Shape, Written
<1>5. WroteAll(f, g, c) /\ Grown(f, g, e)
  BY <1>2, <1>4, WholeWrite, Zenon
<1>6. e >= f.size
  BY <1>1, <1>2, <1>3, BlockCall
<1>7. g.size = e + 1 /\ g.ragged = FALSE
  BY <1>5, <1>6 DEF Grown
<1> QED BY <1>1, <1>2, <1>3, <1>5, <1>7

LEMMA AppendFooterKeepsShape == ASSUME Shape, AppendFooter PROVE Shape'
<1>1. call.pc = "AppendFooter" /\ session' = session
  BY DEF AppendFooter, At_
<1>2. CASE NotWritten /\ call' = NoCall
  BY <1>1, <1>2, NotWrittenKeepsShape
<1>3. CASE Written /\ Goto("AppendBitmap")
  <2>1. /\ FileShape(file') /\ FileShape(durable') /\ FlagsShape'
        /\ file'.exists = file.exists /\ file'.size \in Nat /\ file.size <= file'.size /\ asked' = asked
    BY <1>3, WrittenShape
  <2>2. SessionShape'
    BY <1>1, <2>1, SessionKept
  <2>3. PICK b, p, n : b = call.block /\ p = call.place /\ n = call.new
    OBVIOUS
  <2>4. call = [pc |-> call.pc, block |-> b, place |-> p, new |-> n]
        /\ session.open /\ session.cached /\ b \in Blocks(asked) /\ n \in BOOLEAN
    BY <1>1, <2>3, BlockCall
  <2>5. call' = [pc |-> "AppendBitmap", block |-> b, place |-> p, new |-> n]
    BY <1>3, <2>4 DEF Goto
  <2>6. call'.pc = "AppendBitmap" /\ call'.block = b /\ call'.place = p
    BY <2>5
  <2>7. Entry(session.table, b) = Unused
    BY <1>1, <2>3 DEF Shape, CallShape, AppendShape
  <2>8. p \in Nat /\ file'.size = p + BlockLen(asked) + 1 /\ file'.ragged = FALSE
    BY <1>1, <1>3, <2>3, FooterAppended
  <2>9. AppendShape'
    <3>1. ~file'.ragged
      BY <2>8, Zenon
    <3>2. Entry(session'.table, call'.block) = Unused
      BY <1>1, <2>6, <2>7
    <3>3. call'.place \in Nat /\ call'.place + BlockLen(asked') + 1 = file'.size
      BY <2>1, <2>6, <2>8
    <3> QED BY <2>6, <3>1, <3>2, <3>3 DEF AppendShape
  <2>10. session'.open /\ session'.cached /\ b \in Blocks(asked')
    BY <1>1, <2>1, <2>4
  <2>11. CallShape'
    BY <2>4, <2>5, <2>9, <2>10, BlockCallShape
  <2> QED BY <2>1, <2>2, <2>11 DEF Shape
<1> QED BY <1>2, <1>3 DEF AppendFooter

(* The entry is set in the cached table. *)
LEMMA EntrySet ==
  ASSUME Shape, call.pc = "AppendBitmap", Written, Goto("WriteData"),
         session' = [session EXCEPT !.table = WithEntry(@, call.block, call.place), !.dirty = TRUE],
         NEW u, u = WithEntry(session.table, call.block, call.place)
  PROVE  /\ session' = [open |-> TRUE, cached |-> TRUE, table |-> u, dirty |-> TRUE, bits |-> session.bits]
         /\ call' = [pc |-> "WriteData", block |-> call.block, place |-> call.place, new |-> call.new]
         /\ call.place \in Nat /\ Entry(session.table, call.block) = Unused
<1>1. PICK b, p, n, t, d, s : /\ b = call.block /\ p = call.place /\ n = call.new
                              /\ t = session.table /\ d = session.dirty /\ s = session.bits
  OBVIOUS
<1>2. call = [pc |-> call.pc, block |-> b, place |-> p, new |-> n]
  BY <1>1, BlockCall
<1>3. session = [open |-> TRUE, cached |-> TRUE, table |-> t, dirty |-> d, bits |-> s]
  BY <1>1, BlockCall
<1>4. call' = [pc |-> "WriteData", block |-> b, place |-> p, new |-> n]
  BY <1>2 DEF Goto
<1>5. session' = [session EXCEPT !.table = u, !.dirty = TRUE]
  <2>1. session' = [session EXCEPT !.table = WithEntry(session.table, call.block, call.place), !.dirty = TRUE]
    BY <1>3
  <2> QED BY <2>1, Zenon
<1>6. session' = [open |-> TRUE, cached |-> TRUE, table |-> u, dirty |-> TRUE, bits |-> s]
  <2>1. PICK x, y : x = session /\ y = session'
    OBVIOUS
  <2>2. x = [open |-> TRUE, cached |-> TRUE, table |-> t, dirty |-> d, bits |-> s]
        /\ y = [x EXCEPT !.table = u, !.dirty = TRUE]
    BY <1>3, <1>5, <2>1, Zenon
  <2>3. y = [open |-> TRUE, cached |-> TRUE, table |-> u, dirty |-> TRUE, bits |-> s]
    BY ONLY <2>2
  <2> QED BY <2>1, <2>3, Zenon
<1>7. call.place \in Nat /\ Entry(session.table, call.block) = Unused
  BY DEF Shape, CallShape, AppendShape
<1> QED BY <1>1, <1>4, <1>6, <1>7

LEMMA AppendBitmapKeepsShape == ASSUME Shape, AppendBitmap PROVE Shape'
<1>1. call.pc = "AppendBitmap"
  BY DEF AppendBitmap, At_
<1>2. CASE NotWritten /\ call' = NoCall /\ UNCHANGED session
  BY <1>2, NotWrittenKeepsShape
<1>3. CASE /\ Written /\ Goto("WriteData")
           /\ session' = [session EXCEPT !.table = WithEntry(@, call.block, call.place), !.dirty = TRUE]
  <2>1. /\ FileShape(file') /\ FileShape(durable') /\ FlagsShape'
        /\ file'.exists = file.exists /\ file'.size \in Nat /\ file.size <= file'.size /\ asked' = asked
    BY <1>3, WrittenShape
  <2>2. PICK b, p, n, t, u, s :
          /\ b = call.block /\ p = call.place /\ n = call.new
          /\ t = session.table /\ u = WithEntry(t, b, p) /\ s = session.bits
    OBVIOUS
  <2>3. /\ session' = [open |-> TRUE, cached |-> TRUE, table |-> u, dirty |-> TRUE, bits |-> s]
        /\ call' = [pc |-> "WriteData", block |-> b, place |-> p, new |-> n]
        /\ p \in Nat /\ Entry(t, b) = Unused
    BY <1>1, <1>3, <2>2, EntrySet
  <2>4. /\ b \in Blocks(asked) /\ n \in BOOLEAN /\ s \in SUBSET Nat /\ asked.type # "Fixed"
        /\ TableShape(t, asked) /\ file.exists /\ file.size \in Nat /\ file.size >= 1 /\ SizeAccepted(asked)
        /\ asked \in Requests /\ RequestValid(asked)
    BY <1>1, <2>2, BlockCall
  <2>5. Entry(t, b) # NoPlace
    BY <2>3, Constants
  <2>6. TableShape(u, asked) /\ Entry(u, b) = p
    BY <2>2, <2>3, <2>4, <2>5, WithEntryIs
  <2>7. SessionShape'
    <3>1. /\ TableShape(u, asked') /\ TRUE \in BOOLEAN /\ s \in SUBSET Nat /\ asked'.type # "Fixed"
          /\ file'.exists /\ file'.size >= 1 /\ SizeAccepted(asked')
      BY <2>1, <2>4, <2>6
    <3> QED BY <2>3, <3>1, SessionIs
  <2>8. call'.pc = "WriteData" /\ call'.block = b /\ call'.place = p
    BY <2>3
  <2>9. session'.open = TRUE /\ session'.cached = TRUE /\ session'.table = u
    BY <2>3
  <2>10. AppendShape'
    BY <2>3, <2>6, <2>8, <2>9 DEF AppendShape
  <2>11. session'.open /\ session'.cached /\ b \in Blocks(asked')
    BY <2>1, <2>4, <2>9, Zenon
  <2>12. CallShape'
    BY <2>3, <2>4, <2>10, <2>11, BlockCallShape
  <2> QED BY <2>1, <2>7, <2>12 DEF Shape
<1> QED BY <1>2, <1>3 DEF AppendBitmap

LEMMA WriteDataKeepsShape == ASSUME Shape, WriteData PROVE Shape'
<1>1. call.pc = "WriteData"
  BY DEF WriteData, At_
<1>2. CASE NotWritten /\ call' = NoCall /\ UNCHANGED session
  BY <1>2, NotWrittenKeepsShape
<1>3. CASE /\ Written
           /\ session' = [session EXCEPT !.bits = @ \cup {call.place}]
           /\ call' = IF call.new THEN Flushing("write", session'.bits) ELSE NoCall
  <2>1. /\ FileShape(file') /\ FileShape(durable') /\ FlagsShape'
        /\ file'.exists = file.exists /\ file'.size \in Nat /\ file.size <= file'.size /\ asked' = asked
    BY <1>3, WrittenShape
  <2>2. PICK p, t, d, s : p = call.place /\ t = session.table /\ d = session.dirty /\ s = session.bits \cup {p}
    OBVIOUS
  <2>3. /\ d \in BOOLEAN /\ session.bits \in SUBSET Nat /\ asked.type # "Fixed"
        /\ TableShape(t, asked) /\ file.exists /\ file.size \in Nat /\ file.size >= 1 /\ SizeAccepted(asked)
        /\ session = [open |-> TRUE, cached |-> TRUE, table |-> t, dirty |-> d, bits |-> session.bits]
    BY <1>1, <2>2, BlockCall
  <2>4. p \in Nat
    BY <1>1, <2>2 DEF Shape, CallShape, AppendShape
  <2>5. session' = [open |-> TRUE, cached |-> TRUE, table |-> t, dirty |-> d, bits |-> s]
    <3>1. PICK x, y, b : x = session /\ y = session' /\ b = session.bits
      OBVIOUS
    <3>2. x = [open |-> TRUE, cached |-> TRUE, table |-> t, dirty |-> d, bits |-> b]
      BY <2>3, <3>1, Zenon
    <3>3. y = [x EXCEPT !.bits = s]
      <4>1. y = [x EXCEPT !.bits = x.bits \cup {p}]
        BY <1>3, <2>2, <3>1, <3>2
      <4> QED BY <2>2, <3>1, <4>1, Zenon
    <3>4. y = [open |-> TRUE, cached |-> TRUE, table |-> t, dirty |-> d, bits |-> s]
      BY ONLY <3>2, <3>3
    <3> QED BY <3>1, <3>4, Zenon
  <2>6. SessionShape'
    <3>1. s \in SUBSET Nat
      BY <2>2, <2>3, <2>4
    <3>2. /\ TableShape(t, asked') /\ asked'.type # "Fixed"
          /\ file'.exists /\ file'.size >= 1 /\ SizeAccepted(asked')
      BY <2>1, <2>3
    <3> QED BY <2>3, <2>5, <3>1, <3>2, SessionIs
  <2>7. session'.open = TRUE /\ session'.bits = s
    BY <2>5
  <2>8. CallShape'
    <3>1. CASE call.new
      <4>1. call' = [pc |-> "FlushBat", why |-> "write", bits |-> s, failed |-> FALSE]
        BY <1>3, <2>7, <3>1 DEF Flushing
      <4>2. session'.open /\ s \in SUBSET session'.bits
        BY <2>7
      <4> QED BY <4>1, <4>2, FlushCallShape
    <3>2. CASE ~call.new
      <4>1. call' = NoCall
        BY <1>3, <3>2
      <4> QED BY <4>1, NoCallShape
    <3> QED BY <3>1, <3>2
  <2> QED BY <2>1, <2>6, <2>8 DEF Shape
<1> QED BY <1>2, <1>3 DEF WriteData

LEMMA FlushCall ==
  ASSUME Shape, call.pc \in {"FlushBat", "FlushBits"}
  PROVE  /\ call = [pc |-> call.pc, why |-> call.why, bits |-> call.bits, failed |-> call.failed]
         /\ session.open /\ call.failed \in BOOLEAN /\ call.bits \in SUBSET session.bits
  BY DEF Shape, CallShape, CallRecord, FlushShape, NoCall

(* What a flush takes out of a session is noted or not. *)
LEMMA SessionFlushed ==
  ASSUME Shape, session.open, file'.exists = file.exists, file.size <= file'.size, file'.size \in Nat,
         asked' = asked,
         \/ session' = session
         \/ session' = [session EXCEPT !.dirty = FALSE]
         \/ \E p : session' = [session EXCEPT !.bits = @ \ {p}]
  PROVE  SessionShape' /\ session'.open
<1>1. /\ session = [open |-> TRUE, cached |-> session.cached, table |-> session.table,
                    dirty |-> session.dirty, bits |-> session.bits]
      /\ session.cached \in BOOLEAN /\ session.dirty \in BOOLEAN /\ session.bits \in SUBSET Nat
      /\ session.dirty => session.cached
      /\ session.bits # {} => session.cached
      /\ session.cached => asked.type # "Fixed" /\ TableShape(session.table, asked)
      /\ file.exists /\ file.size \in Nat /\ file.size >= 1 /\ SizeAccepted(asked)
  BY OpenSession
<1>2. PICK c, t, d, b, x, y :
        /\ c = session.cached /\ t = session.table /\ d = session.dirty /\ b = session.bits
        /\ x = session /\ y = session'
  OBVIOUS
<1>3. x = [open |-> TRUE, cached |-> c, table |-> t, dirty |-> d, bits |-> b]
      /\ c \in BOOLEAN /\ d \in BOOLEAN /\ b \in SUBSET Nat
      /\ (d => c) /\ (b # {} => c) /\ (c => asked.type # "Fixed" /\ TableShape(t, asked))
  BY <1>1, <1>2, Zenon
<1>4. PICK e, s : /\ y = [open |-> TRUE, cached |-> c, table |-> t, dirty |-> e, bits |-> s]
                  /\ e \in BOOLEAN /\ (e => d) /\ s \subseteq b
  <2>1. CASE y = x
    BY <1>3, <2>1
  <2>2. CASE y = [x EXCEPT !.dirty = FALSE]
    <3>1. y = [open |-> TRUE, cached |-> c, table |-> t, dirty |-> FALSE, bits |-> b]
      BY ONLY <1>3, <2>2
    <3> QED BY <3>1
  <2>3. CASE \E p : y = [x EXCEPT !.bits = @ \ {p}]
    <3>1. PICK p : y = [x EXCEPT !.bits = @ \ {p}]
      BY <2>3
    <3>2. x.bits = b
      BY <1>3
    <3>3. y = [x EXCEPT !.bits = b \ {p}]
      BY <3>1, <3>2
    <3>4. y = [open |-> TRUE, cached |-> c, table |-> t, dirty |-> d, bits |-> b \ {p}]
      BY ONLY <1>3, <3>3
    <3>5. b \ {p} \subseteq b
      OBVIOUS
    <3> QED BY <1>3, <3>4, <3>5
  <2> QED BY <1>2, <2>1, <2>2, <2>3
<1>5. /\ y.open = TRUE /\ y.cached = c /\ y.table = t /\ y.dirty = e /\ y.bits = s
      /\ y = [open |-> TRUE, cached |-> y.cached, table |-> y.table, dirty |-> y.dirty, bits |-> y.bits]
  <2>1. y.open = TRUE /\ y.cached = c /\ y.table = t /\ y.dirty = e /\ y.bits = s
    BY ONLY <1>4
  <2> QED BY <1>4, <2>1, Zenon
<1>6. s \in SUBSET Nat /\ (s # {} => b # {})
  BY <1>3, <1>4
<1>7. y.cached \in BOOLEAN /\ y.dirty \in BOOLEAN /\ y.bits \in SUBSET Nat
      /\ (y.dirty \/ y.bits # {} => y.cached)
      /\ (y.cached => asked.type # "Fixed" /\ TableShape(y.table, asked))
  BY <1>3, <1>4, <1>5, <1>6, Zenon
<1>8. file'.exists /\ file'.size >= 1 /\ SizeAccepted(asked')
  BY <1>1
<1>9. SessionShape'
  <2>1. asked'.type # "Fixed" <=> asked.type # "Fixed"
    OBVIOUS
  <2>2. y.cached => asked'.type # "Fixed" /\ TableShape(y.table, asked')
    BY <1>7
  <2> QED BY <1>2, <1>5, <1>7, <1>8, <2>2, Zenon DEF SessionShape
<1> QED BY <1>2, <1>5, <1>9, Zenon

LEMMA FlushBatKeepsShape == ASSUME Shape, FlushBat PROVE Shape'
<1>1. call.pc = "FlushBat"
  BY DEF FlushBat, At_
<1>2. /\ call = [pc |-> call.pc, why |-> call.why, bits |-> call.bits, failed |-> call.failed]
      /\ session.open /\ call.failed \in BOOLEAN /\ call.bits \in SUBSET session.bits
  BY <1>1, FlushCall
<1>3. PICK w, b, x : w = call.why /\ b = call.bits /\ x = call.failed
  OBVIOUS
<1>4. call = [pc |-> call.pc, why |-> w, bits |-> b, failed |-> x]
  BY <1>2, <1>3, Zenon
<1>5. CASE session.dirty /\ NotWritten /\ Fail("FlushBits") /\ UNCHANGED session
  <2>1. Wrote(file, file', Pending) /\ OnlyFile
    BY <1>5, NotWrittenDoes DEF NotWritten
  <2>2. /\ FileShape(file') /\ FileShape(durable') /\ FlagsShape'
        /\ file'.exists = file.exists /\ file'.size \in Nat /\ file.size <= file'.size
    BY <2>1, WroteShape
  <2>3. SessionShape'
    BY <1>5, <2>1, <2>2, SessionKept DEF OnlyFile
  <2>4. call' = [pc |-> "FlushBits", why |-> w, bits |-> b, failed |-> TRUE]
    <3>1. PICK c, d, z : c = call /\ d = call' /\ z = call.pc
      OBVIOUS
    <3>2. c = [pc |-> z, why |-> w, bits |-> b, failed |-> x]
          /\ d = [c EXCEPT !.pc = "FlushBits", !.failed = TRUE]
      BY <1>4, <1>5, <3>1, Zenon DEF Fail
    <3>3. d = [pc |-> "FlushBits", why |-> w, bits |-> b, failed |-> TRUE]
      BY ONLY <3>2
    <3> QED BY <3>1, <3>3, Zenon
  <2>5. session'.open /\ b \in SUBSET session'.bits
    BY <1>2, <1>3, <1>5
  <2>6. CallShape'
    BY <2>4, <2>5, FlushCallShape
  <2> QED BY <2>2, <2>3, <2>6 DEF Shape
<1>6. CASE Written /\ Goto("FlushBits") /\ session' = [session EXCEPT !.dirty = FALSE]
  <2>1. /\ FileShape(file') /\ FileShape(durable') /\ FlagsShape'
        /\ file'.exists = file.exists /\ file'.size \in Nat /\ file.size <= file'.size /\ asked' = asked
    BY <1>6, WrittenShape
  <2>2. SessionShape' /\ session'.open
    BY <1>2, <1>6, <2>1, SessionFlushed
  <2>3. call' = [pc |-> "FlushBits", why |-> w, bits |-> b, failed |-> x]
    BY <1>4, <1>6 DEF Goto
  <2>4. session'.bits = session.bits
    <3>1. session = [open |-> TRUE, cached |-> session.cached, table |-> session.table,
                     dirty |-> session.dirty, bits |-> session.bits]
      BY <1>2, OpenSession
    <3> QED BY <1>6, <3>1
  <2>5. x \in BOOLEAN /\ b \in SUBSET session'.bits
    BY <1>2, <1>3, <2>4
  <2>6. CallShape'
    BY <2>2, <2>3, <2>5, FlushCallShape
  <2> QED BY <2>1, <2>2, <2>6 DEF Shape
<1> QED BY <1>5, <1>6 DEF FlushBat

LEMMA FlushBitsKeepsShape == ASSUME Shape, FlushBits PROVE Shape'
<1>1. PICK p : p = CHOOSE q \in call.bits : TRUE
  OBVIOUS
<1>2. /\ call.pc = "FlushBits" /\ call.bits # {}
      /\ \/ /\ Written
            /\ call' = [call EXCEPT !.bits = @ \ {p}]
            /\ session' = [session EXCEPT !.bits = @ \ {p}]
         \/ /\ NotWritten
            /\ call' = [call EXCEPT !.bits = @ \ {p}, !.failed = TRUE]
            /\ UNCHANGED session
  BY <1>1 DEF FlushBits, At_
<1>3. /\ call = [pc |-> call.pc, why |-> call.why, bits |-> call.bits, failed |-> call.failed]
      /\ session.open /\ call.failed \in BOOLEAN /\ call.bits \in SUBSET session.bits
  BY <1>2, FlushCall
<1>4. PICK w, b, x : w = call.why /\ b = call.bits /\ x = call.failed
  OBVIOUS
<1>5. call = [pc |-> "FlushBits", why |-> w, bits |-> b, failed |-> x] /\ x \in BOOLEAN
  BY <1>2, <1>3, <1>4, Zenon
<1>6. CASE /\ NotWritten
           /\ call' = [call EXCEPT !.bits = @ \ {p}, !.failed = TRUE]
           /\ UNCHANGED session
  <2>1. Wrote(file, file', Pending) /\ OnlyFile
    BY <1>6, NotWrittenDoes DEF NotWritten
  <2>2. /\ FileShape(file') /\ FileShape(durable') /\ FlagsShape'
        /\ file'.exists = file.exists /\ file'.size \in Nat /\ file.size <= file'.size
    BY <2>1, WroteShape
  <2>3. SessionShape'
    BY <1>6, <2>1, <2>2, SessionKept DEF OnlyFile
  <2>4. call' = [pc |-> "FlushBits", why |-> w, bits |-> b \ {p}, failed |-> TRUE]
    BY <1>5, <1>6
  <2>5. session'.open /\ b \ {p} \in SUBSET session'.bits
    BY <1>3, <1>4, <1>6
  <2>6. CallShape'
    <3>1. PICK c : c = b \ {p}
      OBVIOUS
    <3> QED BY <2>4, <2>5, <3>1, FlushCallShape
  <2> QED BY <2>2, <2>3, <2>6 DEF Shape
<1>7. CASE /\ Written
           /\ call' = [call EXCEPT !.bits = @ \ {p}]
           /\ session' = [session EXCEPT !.bits = @ \ {p}]
  <2>1. /\ FileShape(file') /\ FileShape(durable') /\ FlagsShape'
        /\ file'.exists = file.exists /\ file'.size \in Nat /\ file.size <= file'.size /\ asked' = asked
    BY <1>7, WrittenShape
  <2>2. SessionShape' /\ session'.open
    BY <1>3, <1>7, <2>1, SessionFlushed
  <2>3. call' = [pc |-> "FlushBits", why |-> w, bits |-> b \ {p}, failed |-> x]
    BY <1>5, <1>7
  <2>4. session'.bits = session.bits \ {p}
    <3>1. session = [open |-> TRUE, cached |-> session.cached, table |-> session.table,
                     dirty |-> session.dirty, bits |-> session.bits]
      BY <1>3, OpenSession
    <3> QED BY <1>7, <3>1
  <2>5. x \in BOOLEAN /\ b \ {p} \in SUBSET session'.bits
    BY <1>3, <1>4, <1>5, <2>4
  <2>6. CallShape'
    <3>1. PICK c : c = b \ {p}
      OBVIOUS
    <3> QED BY <2>2, <2>3, <2>5, <3>1, FlushCallShape
  <2> QED BY <2>1, <2>2, <2>6 DEF Shape
<1> QED BY <1>2, <1>6, <1>7

LEMMA SyncKeepsShape == ASSUME Shape, Sync PROVE Shape'
<1>1. /\ call.pc = "FlushBits" /\ call' = NoCall
      /\ session' = (IF call.why = "close" THEN Closed ELSE session)
      /\ UNCHANGED <<file, asked, made, cut>>
      /\ \/ durable' = file /\ sound' = (sound \/ made)
         \/ UNCHANGED <<durable, sound>>
  BY DEF Sync, At_, Durable
<1>2. session.open
  BY <1>1, FlushCall
<1>3. file.exists
  BY <1>2, OpenSession
<1>4. FileShape(file') /\ FileShape(durable')
  BY <1>1 DEF Shape
<1>5. FlagsShape'
  <2>1. CASE durable' = file /\ sound' = (sound \/ made)
    <3>1. /\ asked' \in Requests \cup {NoRequest}
          /\ file'.exists => asked' \in Requests /\ RequestValid(asked')
          /\ made' \in BOOLEAN /\ cut' \in BOOLEAN /\ (made' => file'.exists)
      BY <1>1 DEF Shape, FlagsShape
    <3>2. sound' \in BOOLEAN /\ (sound' => made' /\ durable'.exists) /\ (cut' => sound')
      <4>1. sound \in BOOLEAN /\ made \in BOOLEAN /\ (sound => made) /\ (cut => sound)
        BY DEF Shape, FlagsShape
      <4>2. sound' \in BOOLEAN /\ (sound' => made) /\ (cut => sound')
        BY <2>1, <4>1, Zenon
      <4> QED BY <1>1, <1>3, <2>1, <4>2
    <3> QED BY <3>1, <3>2, Zenon DEF FlagsShape
  <2>2. CASE UNCHANGED <<durable, sound>>
    BY <1>1, <2>2 DEF Shape, FlagsShape
  <2> QED BY <1>1, <2>1, <2>2
<1>6. SessionShape'
  <2>1. CASE session' = Closed
    BY <2>1, ClosedShape
  <2>2. CASE session' = session
    BY <1>1, <2>2 DEF Shape, SessionShape
  <2> QED BY <1>1, <2>1, <2>2
<1> QED BY <1>1, <1>4, <1>5, <1>6, NoCallShape DEF Shape

(* What the power leaves of the file f, of which d was on the disk *)
Lost(f, d, g) ==
  /\ FileShape(g) /\ g.exists = TRUE
  /\ (g.size = f.size /\ g.ragged = f.ragged) \/ (g.size = d.size /\ g.ragged = d.ragged)
  /\ \A s \in Nat : s < End(g) => At(g, s) = At(f, s) \/ At(g, s) = At(d, s)

(* The sectors of f in a file of the size of h, some as d has them *)
KeptOf(f, h) == {s \in DOMAIN f.at : s < h.size \/ (h.ragged /\ s = h.size)}

Mixed(f, d, h, lost) == [s \in KeptOf(f, h) |-> IF s \in lost THEN At(d, s) ELSE f.at[s]]

CutTo(f, d, h, lost) == [h EXCEPT !.at = Mixed(f, d, h, lost)]

LEMMA PowerDoes ==
  ASSUME Shape, PowerFails
  PROVE  /\ Lost(file, durable, file') /\ sound /\ made /\ ~cut
         /\ durable' = file' /\ cut' = TRUE /\ session' = Closed /\ call' = NoCall
         /\ UNCHANGED <<asked, made, sound, synced>>
<1>1. /\ sound /\ ~cut /\ durable' = file' /\ cut' = TRUE /\ session' = Closed /\ call' = NoCall
      /\ UNCHANGED <<asked, made, sound, synced>>
  BY DEF PowerFails
<1>2. made /\ file.exists /\ durable.exists /\ FileShape(file) /\ FileShape(durable)
  BY <1>1 DEF Shape, FlagsShape
<1>3. PICK f, d, g : f = file /\ d = durable /\ g = file'
  OBVIOUS
<1>4. PICK h, lost : h \in {f, d} /\ g = CutTo(f, d, h, lost)
  <2>1. PICK x \in {file, durable} : \E y : file' = CutTo(file, durable, x, y)
    BY Zenon DEF PowerFails, CutTo, Mixed, KeptOf
  <2>2. PICK y : file' = CutTo(file, durable, x, y)
    BY <2>1
  <2>3. x \in {f, d} /\ g = CutTo(f, d, x, y)
    BY ONLY <1>3, <2>1, <2>2
  <2> QED BY <2>3
<1>5. PICK kept : kept = KeptOf(f, h)
  OBVIOUS
<1>6. PICK at : at = Mixed(f, d, h, lost)
  OBVIOUS
<1>7. g = [h EXCEPT !.at = at]
  BY <1>4, <1>6 DEF CutTo
<1>8. FileShape(h) /\ h.exists = TRUE
  <2>1. f.exists \in BOOLEAN /\ d.exists \in BOOLEAN /\ f.exists /\ d.exists
    BY <1>2, <1>3 DEF FileShape
  <2>2. f.exists = TRUE /\ d.exists = TRUE
    BY <2>1, Zenon
  <2>3. FileShape(f) /\ FileShape(d) /\ (h = f \/ h = d)
    BY <1>2, <1>3, <1>4
  <2> QED BY <2>2, <2>3
<1>9. PICK n, b : n = h.size /\ b = h.ragged
  OBVIOUS
<1>10. h = [exists |-> TRUE, size |-> n, ragged |-> b, at |-> h.at] /\ n \in Nat /\ b \in BOOLEAN
  BY <1>8, <1>9, Zenon DEF FileShape
<1>11. g = [exists |-> TRUE, size |-> n, ragged |-> b, at |-> at]
  <2>1. PICK x : x = h.at
    OBVIOUS
  <2>2. h = [exists |-> TRUE, size |-> n, ragged |-> b, at |-> x] /\ g = [h EXCEPT !.at = at]
    BY <1>7, <1>10, <2>1, Zenon
  <2> QED BY ONLY <2>2
<1>12. g.exists = TRUE /\ g.size = n /\ g.ragged = b /\ g.at = at
  BY ONLY <1>11
<1>13. DOMAIN at = kept /\ \A s \in kept : at[s] = IF s \in lost THEN At(d, s) ELSE f.at[s]
  BY <1>5, <1>6 DEF Mixed
<1>14. \A s \in kept : s \in DOMAIN f.at /\ s \in Nat /\ (s < n \/ (b /\ s = n)) /\ At(f, s) = f.at[s]
  BY <1>2, <1>3, <1>5, <1>9 DEF FileShape, At, KeptOf
<1>15. \A s \in kept : (at[s] = At(f, s) \/ at[s] = At(d, s)) /\ SectorShape(at[s])
  <2>1. \A s \in kept : at[s] = At(f, s) \/ at[s] = At(d, s)
    BY <1>13, <1>14
  <2>2. \A s \in kept : SectorShape(At(f, s)) /\ SectorShape(At(d, s))
    BY <1>2, <1>3, AtShape
  <2> QED BY <2>1, <2>2
<1>16. FileShape(g)
  <2>1. \A s \in DOMAIN g.at : s \in 0 .. g.size /\ (s = g.size => g.ragged) /\ SectorShape(g.at[s])
    <3>1. ASSUME NEW s \in kept PROVE s \in 0 .. n /\ (s = n => b) /\ SectorShape(at[s])
      <4>1. s \in Nat /\ (s < n \/ (b /\ s = n))
        BY <1>14
      <4>2. s \in 0 .. n /\ (s = n => b)
        BY <1>10, <4>1
      <4> QED BY <1>15, <4>2
    <3> QED BY <1>12, <1>13, <3>1
  <2>2. g = [exists |-> g.exists, size |-> g.size, ragged |-> g.ragged, at |-> g.at]
    BY <1>11, <1>12, Zenon
  <2>3. TRUE \in BOOLEAN
    OBVIOUS
  <2> QED BY <1>10, <1>12, <2>1, <2>2, <2>3, Zenon DEF FileShape
<1>17. ASSUME NEW s \in Nat, s < End(g) PROVE At(g, s) = At(f, s) \/ At(g, s) = At(d, s)
  <2>1. CASE s \in kept
    BY <1>12, <1>13, <1>15, <2>1 DEF At
  <2>2. CASE s \notin kept
    <3>1. s < n \/ (b /\ s = n)
      <4>1. CASE b = TRUE
        BY <1>10, <1>12, <1>17, <4>1, Ends
      <4>2. CASE b = FALSE
        BY <1>10, <1>12, <1>17, <4>2, Ends
      <4> QED BY <1>10, <4>1, <4>2
    <3>2. s \notin DOMAIN f.at
      BY <1>5, <1>9, <2>2, <3>1, Zenon DEF KeptOf
    <3>3. At(g, s) = Plain("Zero") /\ At(f, s) = Plain("Zero")
      BY <1>12, <1>13, <2>2, <3>2 DEF At
    <3> QED BY <3>3
  <2> QED BY <2>1, <2>2
<1>18. (g.size = f.size /\ g.ragged = f.ragged) \/ (g.size = d.size /\ g.ragged = d.ragged)
  BY <1>4, <1>9, <1>12
<1>19. Lost(f, d, g)
  BY <1>12, <1>16, <1>17, <1>18 DEF Lost
<1> QED BY <1>1, <1>2, <1>3, <1>19

LEMMA PowerKeepsShape == ASSUME Shape, PowerFails PROVE Shape'
<1>1. /\ Lost(file, durable, file') /\ sound /\ made
      /\ durable' = file' /\ cut' = TRUE /\ session' = Closed /\ call' = NoCall
      /\ UNCHANGED <<asked, made, sound, synced>>
  BY PowerDoes
<1>2. FileShape(file') /\ FileShape(durable') /\ file'.exists = TRUE
  BY <1>1 DEF Lost
<1>3. FlagsShape'
  <2>1. /\ asked \in Requests \cup {NoRequest} /\ asked \in Requests /\ RequestValid(asked)
        /\ made \in BOOLEAN /\ sound \in BOOLEAN
    BY <1>1 DEF Shape, FlagsShape
  <2>2. asked' = asked /\ made' = made /\ sound' = sound /\ file'.exists /\ durable'.exists
    BY <1>1, <1>2
  <2>3. cut' \in BOOLEAN /\ made' /\ sound'
    BY <1>1
  <2> QED BY <2>1, <2>2, <2>3 DEF FlagsShape
<1> QED BY <1>1, <1>2, <1>3, ClosedShape, NoCallShape DEF Shape

LEMMA InitShape == ASSUME Init PROVE Shape
<1>1. /\ file = NoFile /\ durable = NoFile /\ asked = NoRequest
      /\ made = FALSE /\ sound = FALSE /\ cut = FALSE
      /\ session = Closed /\ call = NoCall
  BY DEF Init
<1>2. FileShape(NoFile) /\ NoFile.exists = FALSE
  <2>1. NoFile = [exists |-> FALSE, size |-> 0, ragged |-> FALSE, at |-> <<>>]
    BY DEF NoFile
  <2>2. PICK a : a = <<>> /\ DOMAIN a = {}
    <3>1. DOMAIN <<>> = {}
      OBVIOUS
    <3> QED BY <3>1
  <2>3. PICK g : g = NoFile
    OBVIOUS
  <2>4. g = [exists |-> FALSE, size |-> 0, ragged |-> FALSE, at |-> a]
    BY <2>1, <2>2, <2>3, Zenon
  <2>5. g.exists = FALSE /\ g.size = 0 /\ g.ragged = FALSE /\ DOMAIN g.at = {}
    BY <2>2, <2>4
  <2>6. g = [exists |-> g.exists, size |-> g.size, ragged |-> g.ragged, at |-> g.at]
    BY <2>4
  <2>7. FileShape(g)
    <3>1. g.exists \in BOOLEAN /\ g.size \in Nat /\ g.ragged \in BOOLEAN
      <4>1. FALSE \in BOOLEAN /\ 0 \in Nat
        OBVIOUS
      <4> QED BY ONLY <2>5, <4>1, Zenon
    <3>2. \A s \in DOMAIN g.at : s \in 0 .. g.size /\ (s = g.size => g.ragged) /\ SectorShape(g.at[s])
      BY ONLY <2>5, Zenon
    <3> QED BY <2>6, <3>1, <3>2, Zenon DEF FileShape
  <2> QED BY <2>3, <2>5, <2>7
<1>3. FlagsShape
  BY <1>1, <1>2, Zenon DEF FlagsShape
<1>4. SessionShape
  BY <1>1 DEF SessionShape
<1>5. CallShape
  <2>1. call.pc = "none"
    BY <1>1 DEF NoCall
  <2> QED BY <1>1, <2>1 DEF CallShape, CallRecord, CreateShape, OpenShape, FlushShape, BlockShape, AppendShape
<1> QED BY <1>1, <1>2, <1>3, <1>4, <1>5 DEF Shape

(* The blocks that a client writes to have entries. *)
LEMMA BlocksWritten ==
  ASSUME Shape, NEW b \in IF asked = NoRequest THEN {} ELSE {0, MaxBatEntries(asked) - 1}, WriteBlock(b)
  PROVE  b \in Blocks(asked)
<1>1. asked \in Requests /\ RequestValid(asked) /\ SizeAccepted(asked)
  BY OpenSession DEF WriteBlock
<1>2. MaxBatEntries(asked) \in Nat /\ MaxBatEntries(asked) > 0
  BY <1>1, Numbers
<1> QED BY <1>2 DEF Blocks

LEMMA NextKeepsShape == ASSUME Shape, [Next]_vars PROVE Shape'
<1>1. CASE Client
  BY <1>1, CreateKeepsShape, VHD_OpenKeepsShape, FlushKeepsShape, WriteBlockKeepsShape, BlocksWritten
     DEF Client
<1>2. CASE Step
  BY <1>2, OpenParentKeepsShape, GenerateKeepsShape, GeneratedKeepsShape, OpenKeepsShape,
     AppendBlockKeepsShape, AppendFooterKeepsShape, AppendBitmapKeepsShape, WriteDataKeepsShape,
     FlushBatKeepsShape, FlushBitsKeepsShape, SyncKeepsShape
     DEF Step
<1>3. CASE ProcessDies
  BY <1>3, DiesShape
<1>4. CASE PowerFails
  BY <1>4, PowerKeepsShape
<1>5. CASE UNCHANGED vars
  BY <1>5 DEF vars, fileVars, Shape, FlagsShape, SessionShape, CallShape, CallRecord, CreateShape,
     OpenShape, FlushShape, BlockShape, AppendShape
<1> QED BY <1>1, <1>2, <1>3, <1>4, <1>5 DEF Next

(* The state keeps its shape. *)
THEOREM ShapeInvariance == Spec => []Shape
<1>1. Init => Shape
  BY InitShape
<1>2. Shape /\ [Next]_vars => Shape'
  BY NextKeepsShape
<1> QED BY <1>1, <1>2, PTL DEF Spec

-----------------------------------------------------------------------------
(* A file that GenerateFile made keeps what it is recognised by. *)

Openable(f, r) ==
  /\ CopyThere(f) /\ HeaderThere(f) /\ TableThere(f, r)
  /\ TableFits(r) => f.size >= KFooterSec(r) + 1

FileInv ==
  made =>
    /\ asked.type = "Fixed" => LastFooter(file) /\ (sound => file = durable)
    /\ asked.type # "Fixed" => Openable(file, asked) /\ (sound => Openable(durable, asked))

CreateInv ==
  call.pc \in {"OpenParent", "Generate"} =>
    Remaining(call.todo, asked) /\ Progress(file, asked, Len(call.todo))

FreshInv ==
  made /\ call.pc = "OpenNew" =>
    /\ asked.type = "Fixed" \/ TableFits(asked) => LastFooter(file)
    /\ asked.type # "Fixed" /\ TableFits(asked) => NoBlocks(file, asked)

SessionInv ==
  made /\ session.open =>
    /\ session.cached => \A k \in 0 .. BatSectors(asked) - 1 : GoodSector(session.table[k], k, asked)
    /\ \A p \in session.bits : p >= Low(asked)

PlaceInv == made /\ call.pc \in {"AppendFooter", "AppendBitmap"} => call.place >= Low(asked)

MadeInv == FileInv /\ CreateInv /\ FreshInv /\ SessionInv /\ PlaceInv

(* What a step does with the file *)
NothingStep == UNCHANGED fileVars
WriteStep ==
  OnlyFile /\ Wrote(file, file', Pending) /\ (Pending = <<>> => file' = file)
SyncStep ==
  /\ UNCHANGED <<file, asked, made, cut>>
  /\ durable' = file \/ UNCHANGED <<durable, sound>>

LEMMA WrittenStep == ASSUME Shape, Written PROVE WriteStep
<1>1. OnlyFile
  BY DEF Written
<1> QED BY <1>1, WrittenDoes DEF WritesAll, WriteStep

LEMMA NotWrittenStep == ASSUME Shape, NotWritten PROVE WriteStep
<1>1. OnlyFile
  BY DEF NotWritten
<1> QED BY <1>1, NotWrittenDoes DEF WriteStep

LEMMA StepsOfMade ==
  ASSUME Shape, made, [Next]_vars
  PROVE  NothingStep \/ WriteStep \/ SyncStep \/ PowerFails
<1>1. CASE Client
  <2>1. \A r \in Requests : ~VHD_Create(r)
    BY DEF VHD_Create, Shape, FlagsShape
  <2> QED BY <1>1, <2>1 DEF Client, VHD_Open, VHD_Flush, WriteBlock, NothingStep
<1>2. CASE Step
  <2>1. ~OpenParent /\ ~Generate /\ ~Generated
    BY DEF OpenParent, Generate, Generated, At_, Shape, CallShape, CreateShape
  <2>2. Open \/ AppendBlock => NothingStep
    BY DEF Open, AppendBlock, NothingStep
  <2>3. AppendFooter \/ AppendBitmap \/ WriteData \/ FlushBat => Written \/ NotWritten
    BY DEF AppendFooter, AppendBitmap, WriteData, FlushBat
  <2>4. FlushBits => Written \/ NotWritten
    BY DEF FlushBits
  <2>5. Sync => SyncStep
    BY DEF Sync, SyncStep, Durable
  <2> QED BY <1>2, <2>1, <2>2, <2>3, <2>4, <2>5, WrittenStep, NotWrittenStep DEF Step
<1>3. CASE ProcessDies
  <2>1. OnlyFile
    BY <1>3 DEF ProcessDies
  <2> QED BY <1>3, <2>1, DiesDoes DEF WriteStep
<1>4. CASE PowerFails
  BY <1>4
<1>5. CASE UNCHANGED vars
  BY <1>5 DEF vars, NothingStep
<1> QED BY <1>1, <1>2, <1>3, <1>4, <1>5 DEF Next

(* Only Generated makes a file. *)
LEMMA StepsOfUnmade ==
  ASSUME Shape, ~made, [Next]_vars
  PROVE  ~made' \/ Generated
<1>1. CASE Client
  BY <1>1 DEF Client, VHD_Create, VHD_Open, VHD_Flush, WriteBlock, fileVars
<1>2. CASE Step
  <2>1. OpenParent \/ Generate => ~made'
    BY DEF OpenParent, Generate, Unlink, OnlyFile, fileVars
  <2>2. Open \/ AppendBlock \/ Sync => ~made'
    BY DEF Open, AppendBlock, Sync, fileVars
  <2>3. AppendFooter \/ AppendBitmap \/ WriteData \/ FlushBat => Written \/ NotWritten
    BY DEF AppendFooter, AppendBitmap, WriteData, FlushBat
  <2>4. FlushBits => Written \/ NotWritten
    BY DEF FlushBits
  <2>5. Written \/ NotWritten => ~made'
    BY DEF Written, NotWritten, OnlyFile
  <2> QED BY <1>2, <2>1, <2>2, <2>3, <2>4, <2>5 DEF Step
<1>3. CASE ProcessDies
  BY <1>3 DEF ProcessDies, OnlyFile
<1>4. CASE PowerFails
  BY <1>4 DEF PowerFails, Shape, FlagsShape
<1>5. CASE UNCHANGED vars
  BY <1>5 DEF vars, fileVars
<1> QED BY <1>1, <1>2, <1>3, <1>4, <1>5 DEF Next

(* Sectors that are no part of a table have no entry that is less than Low, as *)
(* no table that fits is ever written over.                                   *)
LEMMA OtherSectors ==
  ASSUME NEW r \in Requests, RequestValid(r), r.type # "Fixed", NEW x, x.kind \notin {"Zero", "Table"},
         NEW s \in Nat, s >= Low(r), s < TableEnd(r), NEW k
  PROVE  GoodSector(x, k, r)
<1>1. ~TableFits(r)
  <2>1. SUFFICES ASSUME TableFits(r) PROVE FALSE
    OBVIOUS
  <2>2. Low(r) = KFooterSec(r)
    BY <2>1 DEF Low
  <2>3. TableEnd(r) <= KFooterSec(r)
    BY <2>1, Places, Numbers DEF TableFits
  <2> QED BY <2>2, <2>3, Places
<1>2. \A i : EntryIn(x, i) = NoPlace
  BY DEF EntryIn
<1> QED BY <1>1, <1>2 DEF GoodSector, GoodEntry

LEMMA LowIs ==
  ASSUME NEW r \in Requests, RequestValid(r), r.type # "Fixed"
  PROVE  /\ Low(r) \in Nat /\ Low(r) >= 3 /\ KFooterSec(r) \in Nat /\ KFooterSec(r) >= 3
         /\ TableEnd(r) \in Nat /\ TableEnd(r) = 3 + BatSectors(r) /\ BatSectors(r) \in Nat
         /\ TableFits(r) => TableEnd(r) <= KFooterSec(r) /\ Low(r) = KFooterSec(r)
         /\ ~TableFits(r) => Low(r) = 3 /\ BatSectors(r) > 0
<1>1. /\ KFooterSec(r) \in Nat /\ KLocatorsStartSec(r) \in Nat
      /\ r.type = "Dynamic" => KFooterSec(r) = 3 + KBatSizeInSectors(r)
      /\ KLocatorsStartSec(r) = 4 + KBatSizeInSectors(r)
      /\ r.type = "Diff" => KFooterSec(r) = KLocatorsStartSec(r) + 4
      /\ TableEnd(r) = 3 + BatSectors(r)
      /\ KBatSizeInSectors(r) \in Nat /\ BatSectors(r) \in Nat
      /\ r.type \in {"Dynamic", "Diff"}
  BY Places, Numbers
<1>2. BatSectors(r) = 0 => TableFits(r)
  BY <1>1 DEF TableFits
<1> QED BY <1>1, <1>2 DEF TableFits, Low

(* A write that leaves the structures in front of the blocks alone, or writes *)
(* a table with entries that are good                                         *)
GoodContent(c, r) ==
  \A s \in DOMAIN c : s \in Nat /\ s >= 3 /\ (s < TableEnd(r) => GoodSector(c[s], s - 3, r))

LEMMA WroteOpenable ==
  ASSUME NEW r \in Requests, RequestValid(r), r.type # "Fixed", NEW f, FileShape(f), Openable(f, r),
         NEW c, GoodContent(c, r), NEW g, Wrote(f, g, c)
  PROVE  Openable(g, r)
<1>1. /\ FileShape(g) /\ f.size <= g.size /\ End(f) <= End(g)
      /\ \A s : s \notin DOMAIN c => At(g, s) = At(f, s)
      /\ \A s \in DOMAIN c : At(g, s) = At(f, s) \/ At(g, s) = c[s] \/ (s >= f.size /\ At(g, s) = Junk)
  BY DEF Wrote
<1>2. f.size \in Nat /\ g.size \in Nat /\ f.size >= 3 /\ KFooterSec(r) \in Nat /\ BatSectors(r) \in Nat
      /\ TableEnd(r) \in Nat /\ TableEnd(r) = 3 + BatSectors(r)
  BY <1>1, LowIs DEF FileShape, Openable, HeaderThere
<1>3. At(g, 0) = At(f, 0) /\ At(g, 1) = At(f, 1) /\ At(g, 2) = At(f, 2)
  BY <1>1 DEF GoodContent
<1>4. CopyThere(g) /\ HeaderThere(g)
  BY <1>1, <1>2, <1>3 DEF Openable, CopyThere, HeaderThere
<1>5. TableFits(r) => g.size >= KFooterSec(r) + 1
  BY <1>1, <1>2 DEF Openable
<1>6. TableEnd(r) <= End(g)
  <2>1. End(f) \in Int /\ End(g) \in Int
    <3>1. \A h : FileShape(h) => End(h) \in Int
      <4>1. SUFFICES ASSUME NEW h, FileShape(h) PROVE End(h) \in Int
        OBVIOUS
      <4>2. h.size \in Nat /\ h.ragged \in BOOLEAN
        BY <4>1 DEF FileShape
      <4>3. CASE h.ragged = TRUE
        BY <4>2, <4>3, Ends
      <4>4. CASE h.ragged = FALSE
        BY <4>2, <4>4, Ends
      <4> QED BY <4>2, <4>3, <4>4
    <3> QED BY <1>1, <3>1
  <2> QED BY <1>1, <1>2, <2>1 DEF Openable, TableThere
<1>7. ASSUME NEW k \in 0 .. BatSectors(r) - 1 PROVE GoodSector(At(g, KBatStartSec + k), k, r)
  <2>1. PICK s : s = KBatStartSec + k
    OBVIOUS
  <2>2. s \in Nat /\ s = 3 + k /\ s < TableEnd(r) /\ s - 3 = k
    BY <1>2, <2>1, Constants
  <2>3. GoodSector(At(f, s), k, r)
    BY <2>1 DEF Openable, TableThere
  <2>4. CASE At(g, s) = At(f, s)
    BY <2>1, <2>3, <2>4
  <2>5. CASE s \in DOMAIN c /\ At(g, s) = c[s]
    <3>1. GoodSector(c[s], s - 3, r)
      BY <2>2, <2>5 DEF GoodContent
    <3> QED BY <2>1, <2>2, <2>5, <3>1
  <2>6. CASE s \in DOMAIN c /\ s >= f.size /\ At(g, s) = Junk
    <3>1. ~TableFits(r)
      BY <1>2, <2>2, <2>6, LowIs DEF Openable
    <3>2. Junk.kind \notin {"Zero", "Table"}
      BY KindOfPlain DEF Junk
    <3>3. s >= Low(r)
      BY <2>2, <3>1, LowIs
    <3>4. GoodSector(Junk, k, r)
      BY <2>2, <3>2, <3>3, OtherSectors
    <3> QED BY <2>1, <2>6, <3>4
  <2> QED BY <1>1, <2>4, <2>5, <2>6
<1> QED BY <1>4, <1>5, <1>6, <1>7 DEF Openable, TableThere

LEMMA BitmapGood ==
  ASSUME asked \in Requests, RequestValid(asked), asked.type # "Fixed", NEW p \in Nat, p >= Low(asked)
  PROVE  GoodContent(BitmapAt(p), asked)
<1>1. PICK c : c = BitmapAt(p)
  OBVIOUS
<1>2. \A s \in DOMAIN c : s \in p .. p + SBmp_SizeInSectors(asked) - 1 /\ c[s] = Plain("Bitmap")
  BY <1>1, BitmapRun
<1>3. Low(asked) \in Nat /\ Low(asked) >= 3
  BY LowIs
<1>4. ASSUME NEW s \in DOMAIN c
      PROVE  s \in Nat /\ s >= 3 /\ (s < TableEnd(asked) => GoodSector(c[s], s - 3, asked))
  <2>1. s \in Nat /\ s >= p /\ s >= Low(asked) /\ s >= 3
    BY <1>2, <1>3, Numbers
  <2>2. c[s].kind \notin {"Zero", "Table"}
    BY <1>2, KindOfPlain
  <2>3. PICK x, k : x = c[s] /\ k = s - 3
    OBVIOUS
  <2>4. s < TableEnd(asked) => GoodSector(x, k, asked)
    BY <2>1, <2>2, <2>3, OtherSectors
  <2> QED BY <2>1, <2>3, <2>4
<1> QED BY <1>1, <1>4 DEF GoodContent

(* The place of a block that is written to is good. *)
LEMMA PlaceLow ==
  ASSUME Shape, MadeInv, made, call.pc = "WriteData"
  PROVE  call.place \in Nat /\ call.place >= Low(asked)
<1>1. PICK b, k, i : b = call.block /\ k = b \div EntriesPerSector /\ i = b % EntriesPerSector
  OBVIOUS
<1>2. call.place \in Nat /\ call.place = Entry(session.table, b)
  BY <1>1 DEF Shape, CallShape, AppendShape
<1>3. asked \in Requests /\ RequestValid(asked) /\ b \in Blocks(asked) /\ session.open /\ session.cached
  BY <1>1, BlockCall
<1>4. /\ k \in 0 .. BatSectors(asked) - 1 /\ i \in 0 .. EntriesPerSector - 1
      /\ k * EntriesPerSector + i = b
  BY <1>1, <1>3, WordOf
<1>5. b < MaxBatEntries(asked)
  BY <1>3, Numbers DEF Blocks
<1>6. GoodSector(session.table[k], k, asked)
  BY <1>3, <1>4 DEF MadeInv, SessionInv
<1>7. GoodEntry(EntryIn(session.table[k], i), asked)
  BY <1>4, <1>5, <1>6 DEF GoodSector
<1>8. call.place = EntryIn(session.table[k], i)
  BY <1>1, <1>2 DEF Entry
<1>9. GoodEntry(call.place, asked)
  BY <1>7, <1>8
<1> QED BY <1>2, <1>9, Constants DEF GoodEntry

LEMMA NotRagged ==
  ASSUME NEW f, FileShape(f), ~f.ragged PROVE End(f) = f.size
BY Ends DEF FileShape

LEMMA PendingGood ==
  ASSUME Shape, MadeInv, made, asked.type # "Fixed" PROVE GoodContent(Pending, asked)
<1>1. asked \in Requests /\ RequestValid(asked) /\ Openable(file, asked) /\ FileShape(file)
  BY DEF Shape, FlagsShape, MadeInv, FileInv
<1>2. Low(asked) \in Nat /\ Low(asked) >= 3
  BY <1>1, LowIs
<1>3. CASE call.pc = "AppendFooter"
  <2>1. PICK c, e : c = Pending /\ e = call.place + BlockLen(asked)
    OBVIOUS
  <2>2. DOMAIN c = {e} /\ e \in Nat
    BY <1>3, <2>1, FooterPending
  <2>3. /\ call.place = file.size - 1 /\ ~file.ragged /\ file.size \in Nat
        /\ BlockLen(asked) \in Nat /\ BlockLen(asked) >= 2
    BY <1>3, BlockCall DEF Shape, CallShape, AppendShape
  <2>4. TableEnd(asked) <= file.size /\ TableEnd(asked) \in Nat /\ TableEnd(asked) >= 3
    BY <1>1, <2>3, NotRagged, LowIs DEF Openable, TableThere
  <2>5. e >= file.size
    BY <2>1, <2>3
  <2> QED BY <2>1, <2>2, <2>3, <2>4, <2>5 DEF GoodContent
<1>4. CASE call.pc = "AppendBitmap"
  <2>1. Pending = BitmapAt(call.place) /\ call.place \in Nat
    BY <1>4, BitmapPending
  <2>2. call.place >= Low(asked)
    BY <1>4 DEF MadeInv, PlaceInv
  <2> QED BY <1>1, <2>1, <2>2, BitmapGood
<1>5. CASE call.pc = "WriteData"
  <2>1. PICK c, e : c = Pending /\ e = call.place + SBmp_SizeInSectors(asked)
    OBVIOUS
  <2>2. DOMAIN c = {e} /\ e \in Nat /\ c[e] = Plain("Data")
    BY <1>5, <2>1, DataPending
  <2>3. call.place \in Nat /\ call.place >= Low(asked)
    BY <1>5, PlaceLow
  <2>4. e >= Low(asked) /\ e >= 3
    BY <1>1, <1>2, <2>1, <2>3, Numbers
  <2>5. c[e].kind \notin {"Zero", "Table"}
    BY <2>2, KindOfPlain
  <2>6. PICK x, k : x = c[e] /\ k = e - 3
    OBVIOUS
  <2>7. e < TableEnd(asked) => GoodSector(x, k, asked)
    BY <1>1, <2>2, <2>4, <2>5, <2>6, OtherSectors
  <2> QED BY <2>1, <2>2, <2>4, <2>6, <2>7 DEF GoodContent
<1>6. CASE call.pc = "FlushBat" /\ session.dirty
  <2>1. PICK c : c = Pending
    OBVIOUS
  <2>2. /\ DOMAIN c = KBatStartSec .. KBatStartSec + BatSectors(asked) - 1
        /\ \A s \in DOMAIN c : c[s] = session.table[s - KBatStartSec]
    BY <1>6, <2>1, TablePending
  <2>3. session.open /\ session.cached
    BY <1>6, FlushCall, OpenSession
  <2>4. \A k \in 0 .. BatSectors(asked) - 1 : GoodSector(session.table[k], k, asked)
    BY <2>3 DEF MadeInv, SessionInv
  <2>5. BatSectors(asked) \in Nat
    BY <1>1, LowIs
  <2>6. ASSUME NEW s \in DOMAIN c PROVE s \in Nat /\ s >= 3 /\ GoodSector(c[s], s - 3, asked)
    <3>1. s \in Nat /\ s >= 3 /\ s - 3 \in 0 .. BatSectors(asked) - 1 /\ c[s] = session.table[s - 3]
      BY <2>2, <2>5, Constants
    <3> QED BY <2>4, <3>1
  <2> QED BY <2>1, <2>6 DEF GoodContent
<1>7. CASE call.pc = "FlushBits" /\ call.bits # {}
  <2>1. PICK p : p = CHOOSE q \in call.bits : TRUE
    OBVIOUS
  <2>2. p \in session.bits /\ p \in Nat /\ Pending = BitmapAt(p)
    BY <1>7, <2>1, BitsPending
  <2>3. session.open
    BY <1>7, FlushCall
  <2>4. p >= Low(asked)
    BY <2>2, <2>3 DEF MadeInv, SessionInv
  <2> QED BY <1>1, <2>2, <2>4, BitmapGood
<1>8. CASE /\ call.pc # "Generate" /\ call.pc # "AppendFooter"
           /\ call.pc # "AppendBitmap" /\ call.pc # "WriteData"
           /\ ~(call.pc = "FlushBat" /\ session.dirty) /\ ~(call.pc = "FlushBits" /\ call.bits # {})
  <2>1. Pending = <<>>
    BY <1>8 DEF Pending
  <2>2. DOMAIN <<>> = {}
    OBVIOUS
  <2> QED BY <2>1, <2>2 DEF GoodContent
<1>9. call.pc # "Generate"
  BY DEF Shape, CallShape, CreateShape
<1> QED BY <1>3, <1>4, <1>5, <1>6, <1>7, <1>8, <1>9

(* Nothing is written to a fixed disk. *)
LEMMA FixedWrites ==
  ASSUME Shape, made, asked.type = "Fixed" PROVE Pending = <<>>
<1>1. call.pc # "Generate"
  BY DEF Shape, CallShape, CreateShape
<1>2. call.pc \notin {"AppendFooter", "AppendBitmap", "WriteData"}
  BY BlockCall
<1>3. ~(call.pc = "FlushBat" /\ session.dirty)
  BY FlushCall, OpenSession
<1>4. ~(call.pc = "FlushBits" /\ call.bits # {})
  BY FlushCall, OpenSession
<1> QED BY <1>1, <1>2, <1>3, <1>4 DEF Pending

LEMMA LostOpenable ==
  ASSUME NEW r \in Requests, RequestValid(r), r.type # "Fixed", NEW f, FileShape(f), NEW d, FileShape(d),
         Openable(f, r), Openable(d, r), NEW g, Lost(f, d, g)
  PROVE  Openable(g, r)
<1>1. /\ FileShape(g)
      /\ (g.size = f.size /\ g.ragged = f.ragged) \/ (g.size = d.size /\ g.ragged = d.ragged)
      /\ \A s \in Nat : s < End(g) => At(g, s) = At(f, s) \/ At(g, s) = At(d, s)
  BY DEF Lost
<1>2. End(g) = End(f) \/ End(g) = End(d)
  <2>1. CASE g.size = f.size /\ g.ragged = f.ragged
    BY <2>1, Zenon DEF End
  <2>2. CASE g.size = d.size /\ g.ragged = d.ragged
    BY <2>2, Zenon DEF End
  <2> QED BY <1>1, <2>1, <2>2
<1>3. /\ g.size \in Nat /\ g.size >= 3
      /\ TableFits(r) => g.size >= KFooterSec(r) + 1
      /\ TableEnd(r) <= End(g)
  <2>1. f.size >= 3 /\ d.size >= 3 BY DEF Openable, HeaderThere
  <2>2. g.size \in Nat BY <1>1 DEF FileShape
  <2>3. TableFits(r) => f.size >= KFooterSec(r) + 1 /\ d.size >= KFooterSec(r) + 1 BY DEF Openable
  <2>4. TableEnd(r) <= End(f) /\ TableEnd(r) <= End(d) BY Zenon DEF Openable, TableThere
  <2>5. g.size = f.size \/ g.size = d.size BY <1>1
  <2>6. TableEnd(r) <= End(g) BY <1>2, <2>4, Zenon
  <2> QED BY <2>1, <2>2, <2>3, <2>5, <2>6
<1>4. End(g) >= g.size /\ End(g) \in Nat
  <2>1. g.ragged \/ ~g.ragged OBVIOUS
  <2> QED BY <2>1, <1>3, Ends
<1>5. \A s \in Nat : s < 3 => At(g, s) = At(f, s) \/ At(g, s) = At(d, s)
  BY <1>1, <1>3, <1>4
<1>6. 0 \in Nat /\ 1 \in Nat /\ 2 \in Nat /\ 0 < 3 /\ 1 < 3 /\ 2 < 3 OBVIOUS
<1>7. CopyThere(g)
  <2>1. At(g, 0) = At(f, 0) \/ At(g, 0) = At(d, 0) BY <1>5, <1>6, Zenon
  <2> QED BY <2>1, Zenon DEF Openable, CopyThere
<1>8. HeaderThere(g)
  <2>1. At(g, 1) = At(f, 1) \/ At(g, 1) = At(d, 1) BY <1>5, <1>6, Zenon
  <2>2. At(g, 2) = At(f, 2) \/ At(g, 2) = At(d, 2) BY <1>5, <1>6, Zenon
  <2>3. HeaderThere(f) /\ HeaderThere(d) BY Zenon DEF Openable
  <2> QED BY <2>1, <2>2, <2>3, <1>3, Zenon DEF HeaderThere
<1>9. TableThere(g, r)
  <2> SUFFICES ASSUME NEW k \in 0 .. BatSectors(r) - 1 PROVE GoodSector(At(g, KBatStartSec + k), k, r)
    BY <1>3, Zenon DEF TableThere
  <2>1. KBatStartSec + k \in Nat /\ KBatStartSec + k < End(g)
    <3>1. TableEnd(r) = 3 + BatSectors(r) /\ BatSectors(r) \in Nat BY LowIs
    <3> QED BY <3>1, <1>3, <1>4, Constants
  <2>2. At(g, KBatStartSec + k) = At(f, KBatStartSec + k) \/ At(g, KBatStartSec + k) = At(d, KBatStartSec + k)
    BY <2>1, <1>1, Zenon
  <2>3. GoodSector(At(f, KBatStartSec + k), k, r) /\ GoodSector(At(d, KBatStartSec + k), k, r)
    BY Zenon DEF Openable, TableThere
  <2> QED BY <2>2, <2>3, Zenon
<1> QED BY <1>3, <1>7, <1>8, <1>9, Zenon DEF Openable

LEMMA AskedIsValid == ASSUME Shape, made PROVE asked \in Requests /\ RequestValid(asked)
BY Zenon DEF Shape, FlagsShape

LEMMA FileInvKept == ASSUME Shape, MadeInv, made, [Next]_vars PROVE FileInv'
<1>1. FileInv /\ asked \in Requests /\ RequestValid(asked) /\ FileShape(file) /\ FileShape(durable)
  BY AskedIsValid, Zenon DEF MadeInv, Shape
<1>2. CASE NothingStep
  BY <1>1, <1>2, Zenon DEF NothingStep, fileVars, FileInv
<1>3. CASE WriteStep
  <2>1. UNCHANGED <<durable, asked, made, sound>> /\ Wrote(file, file', Pending) /\ (Pending = <<>> => file' = file)
    BY <1>3, Zenon DEF WriteStep, OnlyFile
  <2>2. CASE asked.type = "Fixed"
    <3>1. file' = file BY <2>1, <2>2, FixedWrites, Zenon
    <3> QED BY <3>1, <2>1, <2>2, <1>1, Zenon DEF FileInv
  <2>3. CASE asked.type # "Fixed"
    <3>1. GoodContent(Pending, asked) BY <2>3, PendingGood, Zenon
    <3>2. Openable(file, asked) BY <1>1, <2>3, Zenon DEF FileInv
    <3>3. Openable(file', asked) BY <3>1, <3>2, <1>1, <2>1, <2>3, WroteOpenable, Zenon
    <3> QED BY <3>3, <2>1, <2>3, <1>1, Zenon DEF FileInv
  <2> QED BY <2>2, <2>3
<1>4. CASE SyncStep
  <2>1. UNCHANGED <<file, asked, made>> /\ (durable' = file \/ UNCHANGED <<durable, sound>>)
    BY <1>4, Zenon DEF SyncStep
  <2>2. CASE durable' = file
    BY <2>1, <2>2, <1>1, Zenon DEF FileInv
  <2>3. CASE UNCHANGED <<durable, sound>>
    BY <2>1, <2>3, <1>1, Zenon DEF FileInv
  <2> QED BY <2>1, <2>2, <2>3
<1>5. CASE PowerFails
  <2>1. Lost(file, durable, file') /\ sound /\ durable' = file' /\ UNCHANGED <<asked, made, sound>>
    BY <1>5, PowerDoes, Zenon
  <2>2. asked.type # "Fixed"
    <3>1. file # durable BY <1>5 DEF PowerFails
    <3> QED BY <3>1, <2>1, <1>1, Zenon DEF FileInv
  <2>3. Openable(file, asked) /\ Openable(durable, asked) BY <2>1, <2>2, <1>1, Zenon DEF FileInv
  <2>4. Openable(file', asked) BY <2>1, <2>2, <2>3, <1>1, LostOpenable, Zenon
  <2> QED BY <2>4, <2>1, <2>2, Zenon DEF FileInv
<1> QED BY <1>2, <1>3, <1>4, <1>5, StepsOfMade, Zenon

-----------------------------------------------------------------------------
(* What the steps do to the session and to the call *)

Holds(s, c, t, d, b) ==
  s.open = TRUE /\ s.cached = c /\ s.table = t /\ s.dirty = d /\ s.bits = b

LEMMA NotOpened == Closed.open = FALSE /\ NoCall.pc = "none"
BY DEF Closed, NoCall

LEMMA OpenDoes ==
  ASSUME Shape, Open
  PROVE  /\ UNCHANGED fileVars /\ call' = NoCall /\ ~session.open
         /\ session' = Closed \/ Holds(session', FALSE, <<>>, FALSE, {})
<1>1. call.pc \in {"Open", "OpenNew"} /\ call' = NoCall /\ UNCHANGED fileVars
      /\ session' = (IF Opens(file, asked) THEN Opened ELSE Closed)
  BY DEF Open, At_
<1>2. ~session.open BY <1>1 DEF Shape, CallShape, OpenShape
<1>3. CASE Opens(file, asked)
  <2>1. session' = [open |-> TRUE, cached |-> FALSE, table |-> <<>>, dirty |-> FALSE, bits |-> {}]
    BY <1>1, <1>3 DEF Opened
  <2>2. Holds(session', FALSE, <<>>, FALSE, {}) BY ONLY <2>1 DEF Holds
  <2> QED BY <1>1, <1>2, <2>2, Zenon
<1>4. CASE ~Opens(file, asked)
  BY <1>1, <1>2, <1>4, Zenon
<1> QED BY <1>3, <1>4

LEMMA FlushDoes ==
  ASSUME Shape, NEW why, VHD_Flush(why)
  PROVE  /\ UNCHANGED <<fileVars, session>> /\ session.open
         /\ call'.pc = "FlushBat" /\ call'.failed = FALSE /\ call'.bits = session.bits
  BY DEF VHD_Flush, Flushing

LEMMA WriteBlockDoes ==
  ASSUME Shape, NEW b \in Blocks(asked), WriteBlock(b),
         NEW t, t = IF session.cached THEN session.table ELSE TableOf(file, asked)
  PROVE  /\ UNCHANGED fileVars /\ session.open /\ asked.type # "Fixed"
         /\ Holds(session', TRUE, t, session.dirty, session.bits)
         /\ call'.pc \in {"AppendBlock", "WriteData"}
         /\ session.cached \/ TableReadable
<1>1. PICK p : p = Entry(t, b)
  OBVIOUS
<1>2. /\ session.open /\ asked.type # "Fixed" /\ (session.cached \/ TableReadable)
      /\ session' = [session EXCEPT !.cached = TRUE, !.table = t]
      /\ call' = [pc |-> IF p = Unused THEN "AppendBlock" ELSE "WriteData",
                  block |-> b, place |-> p, new |-> p = Unused]
      /\ UNCHANGED fileVars
  BY <1>1 DEF WriteBlock
<1>3. PICK c, u, d, bits : c = session.cached /\ u = session.table /\ d = session.dirty /\ bits = session.bits
  OBVIOUS
<1>4. session = [open |-> TRUE, cached |-> session.cached, table |-> session.table,
                 dirty |-> session.dirty, bits |-> session.bits]
  BY <1>2, OpenSession
<1>5. session = [open |-> TRUE, cached |-> c, table |-> u, dirty |-> d, bits |-> bits]
  BY <1>3, <1>4, Zenon
<1>6. session' = [open |-> TRUE, cached |-> TRUE, table |-> t, dirty |-> d, bits |-> bits]
  BY <1>2, <1>5
<1>7. Holds(session', TRUE, t, d, bits)
  BY ONLY <1>6 DEF Holds
<1>8. call'.pc \in {"AppendBlock", "WriteData"}
  BY <1>2
<1> QED BY <1>2, <1>3, <1>7, <1>8, Zenon

LEMMA AppendBlockDoes ==
  ASSUME Shape, AppendBlock
  PROVE  /\ call.pc = "AppendBlock" /\ UNCHANGED <<fileVars, session>>
         /\ \/ call' = NoCall
            \/ call'.pc = "AppendFooter" /\ call'.place = file.size - 1 /\ ~file.ragged
<1>1. call.pc = "AppendBlock" /\ UNCHANGED <<fileVars, session>>
      /\ call' = IF file.ragged THEN NoCall
                 ELSE [call EXCEPT !.pc = "AppendFooter", !.place = file.size - 1]
  BY DEF AppendBlock, At_
<1>2. PICK b, p, n, q : b = call.block /\ p = call.place /\ n = call.new /\ q = file.size - 1
  OBVIOUS
<1>3. call = [pc |-> call.pc, block |-> b, place |-> p, new |-> n]
  BY <1>1, <1>2, BlockCall
<1>4. CASE file.ragged
  BY <1>1, <1>4
<1>5. CASE ~file.ragged
  <2>1. call' = [pc |-> "AppendFooter", block |-> b, place |-> q, new |-> n]
    BY <1>1, <1>2, <1>3, <1>5
  <2>2. call'.pc = "AppendFooter" /\ call'.place = q
    BY <2>1
  <2> QED BY <1>1, <1>2, <1>5, <2>2, Zenon
<1> QED BY <1>4, <1>5

LEMMA AppendFooterDoes ==
  ASSUME Shape, AppendFooter
  PROVE  /\ call.pc = "AppendFooter" /\ session' = session
         /\ \/ NotWritten /\ call' = NoCall
            \/ Written /\ call'.pc = "AppendBitmap" /\ call'.place = call.place
<1>1. call.pc = "AppendFooter" /\ session' = session
      /\ ((NotWritten /\ call' = NoCall) \/ (Written /\ Goto("AppendBitmap")))
  BY DEF AppendFooter, At_
<1>2. CASE Written /\ Goto("AppendBitmap")
  <2>1. PICK b, p, n : b = call.block /\ p = call.place /\ n = call.new
    OBVIOUS
  <2>2. call = [pc |-> call.pc, block |-> b, place |-> p, new |-> n]
    BY <1>1, <2>1, BlockCall
  <2>3. call' = [pc |-> "AppendBitmap", block |-> b, place |-> p, new |-> n]
    BY <1>2, <2>2 DEF Goto
  <2>4. call'.pc = "AppendBitmap" /\ call'.place = p
    BY <2>3
  <2> QED BY <1>1, <1>2, <2>1, <2>4, Zenon
<1> QED BY <1>1, <1>2

LEMMA AppendBitmapDoes ==
  ASSUME Shape, AppendBitmap, NEW u, u = WithEntry(session.table, call.block, call.place)
  PROVE  /\ call.pc = "AppendBitmap"
         /\ \/ NotWritten /\ call' = NoCall /\ session' = session
            \/ /\ Written /\ call'.pc = "WriteData" /\ call'.place = call.place
               /\ Holds(session', TRUE, u, TRUE, session.bits)
<1>1. call.pc = "AppendBitmap"
  BY DEF AppendBitmap, At_
<1>2. CASE /\ Written /\ Goto("WriteData")
           /\ session' = [session EXCEPT !.table = WithEntry(@, call.block, call.place), !.dirty = TRUE]
  <2>1. PICK b, p, n, s : b = call.block /\ p = call.place /\ n = call.new /\ s = session.bits
    OBVIOUS
  <2>2. /\ session' = [open |-> TRUE, cached |-> TRUE, table |-> u, dirty |-> TRUE, bits |-> s]
        /\ call' = [pc |-> "WriteData", block |-> b, place |-> p, new |-> n]
    BY <1>1, <1>2, <2>1, EntrySet
  <2>3. Holds(session', TRUE, u, TRUE, s)
    BY ONLY <2>2 DEF Holds
  <2>4. call'.pc = "WriteData" /\ call'.place = p
    BY <2>2
  <2> QED BY <1>1, <1>2, <2>1, <2>3, <2>4, Zenon
<1> QED BY <1>1, <1>2 DEF AppendBitmap

LEMMA WriteDataDoes ==
  ASSUME Shape, WriteData
  PROVE  /\ call.pc = "WriteData"
         /\ \/ NotWritten /\ call' = NoCall /\ session' = session
            \/ /\ Written /\ Holds(session', TRUE, session.table, session.dirty, session.bits \cup {call.place})
               /\ call' = NoCall \/ (call'.pc = "FlushBat" /\ call'.failed = FALSE)
<1>1. call.pc = "WriteData"
  BY DEF WriteData, At_
<1>2. CASE /\ Written
           /\ session' = [session EXCEPT !.bits = @ \cup {call.place}]
           /\ call' = IF call.new THEN Flushing("write", session'.bits) ELSE NoCall
  <2>1. PICK p, t, d, s, b : /\ p = call.place /\ t = session.table /\ d = session.dirty /\ b = session.bits
                             /\ s = session.bits \cup {call.place}
    OBVIOUS
  <2>2. session = [open |-> TRUE, cached |-> TRUE, table |-> session.table, dirty |-> session.dirty, bits |-> session.bits]
    BY <1>1, BlockCall
  <2>3. PICK x, y : x = session /\ y = session'
    OBVIOUS
  <2>4. x = [open |-> TRUE, cached |-> TRUE, table |-> t, dirty |-> d, bits |-> b]
    BY <2>1, <2>2, <2>3, Zenon
  <2>5. y = [x EXCEPT !.bits = s]
    <3>1. y = [x EXCEPT !.bits = x.bits \cup {call.place}]
      BY <1>2, <2>3, <2>4
    <3> QED BY <2>1, <2>3, <3>1, Zenon
  <2>6. Holds(y, TRUE, t, d, s)
    BY ONLY <2>4, <2>5 DEF Holds
  <2>7. call' = NoCall \/ (call'.pc = "FlushBat" /\ call'.failed = FALSE)
    BY <1>2 DEF Flushing
  <2> QED BY <1>1, <1>2, <2>1, <2>3, <2>6, <2>7, Zenon
<1> QED BY <1>1, <1>2 DEF WriteData

LEMMA FlushBatDoes ==
  ASSUME Shape, FlushBat
  PROVE  /\ call.pc = "FlushBat" /\ session.open /\ call'.pc = "FlushBits" /\ call'.bits = call.bits
         /\ \/ /\ session.dirty /\ NotWritten /\ session' = session /\ call'.failed = TRUE
            \/ /\ Written /\ call'.failed = call.failed
               /\ Holds(session', session.cached, session.table, FALSE, session.bits)
<1>1. call.pc = "FlushBat"
  BY DEF FlushBat, At_
<1>2. /\ call = [pc |-> call.pc, why |-> call.why, bits |-> call.bits, failed |-> call.failed]
      /\ session.open
  BY <1>1, FlushCall
<1>3. PICK c, d, z, w, b, f : /\ c = call /\ d = call' /\ z = call.pc
                              /\ w = call.why /\ b = call.bits /\ f = call.failed
  OBVIOUS
<1>4. c = [pc |-> z, why |-> w, bits |-> b, failed |-> f]
  BY <1>2, <1>3, Zenon
<1>5. CASE session.dirty /\ NotWritten /\ Fail("FlushBits") /\ UNCHANGED session
  <2>1. d = [c EXCEPT !.pc = "FlushBits", !.failed = TRUE]
    BY <1>3, <1>5, Zenon DEF Fail
  <2>2. d.pc = "FlushBits" /\ d.failed = TRUE /\ d.bits = b
    BY ONLY <1>4, <2>1
  <2> QED BY <1>1, <1>2, <1>3, <1>5, <2>2, Zenon
<1>6. CASE Written /\ Goto("FlushBits") /\ session' = [session EXCEPT !.dirty = FALSE]
  <2>1. d = [c EXCEPT !.pc = "FlushBits"]
    BY <1>3, <1>6, Zenon DEF Goto
  <2>2. d.pc = "FlushBits" /\ d.failed = f /\ d.bits = b
    BY ONLY <1>4, <2>1
  <2>3. session = [open |-> TRUE, cached |-> session.cached, table |-> session.table,
                   dirty |-> session.dirty, bits |-> session.bits]
    BY <1>2, OpenSession
  <2>4. PICK x, y, k, t, s : x = session /\ y = session' /\ k = session.cached /\ t = session.table /\ s = session.bits
    OBVIOUS
  <2>5. PICK e : e = session.dirty
    OBVIOUS
  <2>6. x = [open |-> TRUE, cached |-> k, table |-> t, dirty |-> e, bits |-> s] /\ y = [x EXCEPT !.dirty = FALSE]
    BY <1>6, <2>3, <2>4, <2>5, Zenon
  <2>7. Holds(y, k, t, FALSE, s)
    BY ONLY <2>6 DEF Holds
  <2> QED BY <1>1, <1>2, <1>3, <1>6, <2>2, <2>4, <2>7, Zenon
<1> QED BY <1>5, <1>6 DEF FlushBat

LEMMA FlushBitsDoes ==
  ASSUME Shape, FlushBits, NEW p, p = CHOOSE q \in call.bits : TRUE
  PROVE  /\ call.pc = "FlushBits" /\ session.open /\ call'.pc = "FlushBits"
         /\ Pending = BitmapAt(p) /\ p \in session.bits /\ p \in Nat
         /\ \/ NotWritten /\ session' = session /\ call'.failed = TRUE
            \/ /\ Written /\ call'.failed = call.failed
               /\ Holds(session', session.cached, session.table, session.dirty, session.bits \ {p})
<1>1. /\ call.pc = "FlushBits" /\ call.bits # {}
      /\ \/ /\ Written
            /\ call' = [call EXCEPT !.bits = @ \ {p}]
            /\ session' = [session EXCEPT !.bits = @ \ {p}]
         \/ /\ NotWritten
            /\ call' = [call EXCEPT !.bits = @ \ {p}, !.failed = TRUE]
            /\ UNCHANGED session
  BY DEF FlushBits, At_
<1>2. p \in session.bits /\ p \in Nat /\ Pending = BitmapAt(p)
  BY <1>1, BitsPending
<1>3. /\ call = [pc |-> call.pc, why |-> call.why, bits |-> call.bits, failed |-> call.failed]
      /\ session.open
  BY <1>1, FlushCall
<1>4. PICK w, b, x : w = call.why /\ b = call.bits /\ x = call.failed
  OBVIOUS
<1>5. call = [pc |-> "FlushBits", why |-> w, bits |-> b, failed |-> x]
  BY <1>1, <1>3, <1>4, Zenon
<1>6. CASE /\ NotWritten
           /\ call' = [call EXCEPT !.bits = @ \ {p}, !.failed = TRUE]
           /\ UNCHANGED session
  <2>1. call' = [pc |-> "FlushBits", why |-> w, bits |-> b \ {p}, failed |-> TRUE]
    BY <1>5, <1>6
  <2>2. call'.pc = "FlushBits" /\ call'.failed = TRUE
    BY <2>1
  <2> QED BY <1>1, <1>2, <1>3, <1>6, <2>2, Zenon
<1>7. CASE /\ Written
           /\ call' = [call EXCEPT !.bits = @ \ {p}]
           /\ session' = [session EXCEPT !.bits = @ \ {p}]
  <2>1. call' = [pc |-> "FlushBits", why |-> w, bits |-> b \ {p}, failed |-> x]
    BY <1>5, <1>7
  <2>2. call'.pc = "FlushBits" /\ call'.failed = x
    BY <2>1
  <2>3. session = [open |-> TRUE, cached |-> session.cached, table |-> session.table,
                   dirty |-> session.dirty, bits |-> session.bits]
    BY <1>3, OpenSession
  <2>4. PICK y, z, k, t, s : y = session /\ z = session' /\ k = session.cached /\ t = session.table /\ s = session.bits
    OBVIOUS
  <2>5. PICK e : e = session.dirty
    OBVIOUS
  <2>6. y = [open |-> TRUE, cached |-> k, table |-> t, dirty |-> e, bits |-> s]
    BY <2>3, <2>4, <2>5, Zenon
  <2>7. z = [y EXCEPT !.bits = s \ {p}]
    <3>1. z = [y EXCEPT !.bits = y.bits \ {p}]
      BY <1>7, <2>4, <2>6
    <3> QED BY <2>4, <3>1, Zenon
  <2>8. Holds(z, k, t, e, s \ {p})
    BY ONLY <2>6, <2>7 DEF Holds
  <2> QED BY <1>1, <1>2, <1>3, <1>4, <1>7, <2>2, <2>4, <2>5, <2>8, Zenon
<1> QED BY <1>1, <1>6, <1>7

LEMMA SyncDoes ==
  ASSUME Shape, Sync
  PROVE  /\ call.pc = "FlushBits" /\ session.open /\ call' = NoCall
         /\ session' = session \/ session' = Closed
         /\ UNCHANGED <<file, asked, made, cut>>
         /\ \/ durable' = file /\ sound' = (sound \/ made) /\ synced' = Synced
            \/ UNCHANGED <<durable, sound, synced>>
<1>1. /\ call.pc = "FlushBits" /\ call' = NoCall
      /\ session' = session \/ session' = Closed
      /\ UNCHANGED <<file, asked, made, cut>>
      /\ \/ durable' = file /\ sound' = (sound \/ made) /\ synced' = Synced
         \/ UNCHANGED <<durable, sound, synced>>
  BY DEF Sync, At_, Durable
<1>2. session.open
  BY <1>1, FlushCall
<1> QED BY <1>1, <1>2, Zenon

(* How a session and a call are begun, go on and end *)
LEMMA CallsMove ==
  ASSUME Shape, [Next]_vars
  PROVE  \/ \E r \in Requests : VHD_Create(r)
         \/ OpenParent \/ Generate \/ Generated \/ UNCHANGED vars
         \/ call'.pc \notin {"OpenParent", "Generate", "OpenNew"}
<1>1. CASE Client
  <2>1. CASE VHD_Open
    BY <2>1 DEF VHD_Open
  <2>2. CASE \E why \in {"flush", "close"} : VHD_Flush(why)
    <3>1. call'.pc = "FlushBat" BY <2>2, FlushDoes
    <3> QED BY <3>1
  <2>3. CASE \E b \in IF asked = NoRequest THEN {} ELSE {0, MaxBatEntries(asked) - 1} : WriteBlock(b)
    <3>1. call'.pc \in {"AppendBlock", "WriteData"} BY <2>3, BlocksWritten, WriteBlockDoes
    <3> QED BY <3>1
  <2> QED BY <1>1, <2>1, <2>2, <2>3 DEF Client
<1>2. CASE Step
  <2>1. Open => call'.pc = "none" BY OpenDoes, NotOpened
  <2>2. AppendBlock => call'.pc \in {"none", "AppendFooter"} BY AppendBlockDoes, NotOpened
  <2>3. AppendFooter => call'.pc \in {"none", "AppendBitmap"} BY AppendFooterDoes, NotOpened
  <2>4. AppendBitmap => call'.pc \in {"none", "WriteData"} BY AppendBitmapDoes, NotOpened
  <2>5. WriteData => call'.pc \in {"none", "FlushBat"} BY WriteDataDoes, NotOpened
  <2>6. FlushBat \/ FlushBits => call'.pc = "FlushBits" BY FlushBatDoes, FlushBitsDoes
  <2>7. Sync => call'.pc = "none" BY SyncDoes, NotOpened
  <2> QED BY <1>2, <2>1, <2>2, <2>3, <2>4, <2>5, <2>6, <2>7 DEF Step
<1>3. CASE ProcessDies
  BY <1>3, NotOpened DEF ProcessDies
<1>4. CASE PowerFails
  BY <1>4, NotOpened DEF PowerFails
<1>5. CASE UNCHANGED vars
  BY <1>5
<1> QED BY <1>1, <1>2, <1>3, <1>4, <1>5 DEF Next

-----------------------------------------------------------------------------
(* Every step keeps what made files hold. *)

(* A file that has been made *)
LEMMA ProgressEnds ==
  ASSUME NEW r \in Requests, RequestValid(r), NEW f, FileShape(f), Progress(f, r, 0)
  PROVE  /\ r.type = "Fixed" => LastFooter(f)
         /\ r.type # "Fixed" => Openable(f, r)
         /\ r.type # "Fixed" /\ TableFits(r) => LastFooter(f) /\ NoBlocks(f, r)
<1>1. KFooterSec(r) \in Nat BY Places
<1>2. FooterThere(f, r) => LastFooter(f)
  BY <1>1 DEF FooterThere, LastFooter, FooterAt, FileShape
<1>3. 0 <= FooterLeft(r) /\ 0 <= CopyLeft(r) BY DEF FooterLeft, CopyLeft
<1>4. TableFits(r) \/ r.type = "Fixed" => FooterThere(f, r)
  BY <1>3 DEF Progress
<1>5. CASE r.type = "Fixed"
  BY <1>2, <1>4, <1>5
<1>6. CASE r.type # "Fixed"
  <2>1. CopyThere(f) /\ HeaderThere(f) /\ TableThere(f, r) /\ (TableFits(r) => NoBlocks(f, r))
    BY <1>3, <1>6 DEF Progress
  <2>2. TableFits(r) => f.size >= KFooterSec(r) + 1
    BY <1>1, <1>4 DEF FooterThere
  <2>3. Openable(f, r)
    BY <2>1, <2>2, Zenon DEF Openable
  <2> QED BY <1>2, <1>4, <1>6, <2>1, <2>3
<1> QED BY <1>5, <1>6

LEMMA GeneratedMakes ==
  ASSUME Shape, MadeInv, Generated PROVE FileInv' /\ FreshInv'
<1>1. /\ call.pc = "Generate" /\ call.todo = <<>> /\ call'.pc = "OpenNew"
      /\ UNCHANGED <<file, durable, asked, sound>>
  BY DEF Generated, At_
<1>2. ~made /\ file.exists BY <1>1 DEF Shape, CallShape, CreateShape
<1>3. sound' = FALSE BY <1>1, <1>2 DEF Shape, FlagsShape
<1>4. asked \in Requests /\ RequestValid(asked) /\ FileShape(file)
  BY <1>2 DEF Shape, FlagsShape
<1>5. Progress(file, asked, 0)
  <2>1. Len(call.todo) = 0 BY <1>1
  <2>2. Progress(file, asked, Len(call.todo)) BY <1>1 DEF MadeInv, CreateInv
  <2> QED BY <2>1, <2>2, Zenon
<1>6. PICK r, f : r = asked /\ f = file OBVIOUS
<1>7. /\ r.type = "Fixed" => LastFooter(f)
      /\ r.type # "Fixed" => Openable(f, r)
      /\ r.type # "Fixed" /\ TableFits(r) => LastFooter(f) /\ NoBlocks(f, r)
  <2>1. r \in Requests /\ RequestValid(r) /\ FileShape(f) /\ Progress(f, r, 0)
    BY <1>4, <1>5, <1>6, Zenon
  <2> QED BY <2>1, ProgressEnds, Zenon
<1>8. file' = f /\ asked' = r BY <1>1, <1>6
<1>9. FileInv' BY <1>3, <1>7, <1>8, Zenon DEF FileInv
<1>10. FreshInv' BY <1>7, <1>8, Zenon DEF FreshInv
<1> QED BY <1>9, <1>10

(* A write of GenerateFile takes it one write further. *)
LEMMA GenerateGoesOn ==
  ASSUME Shape, CreateInv, Generate, call' # NoCall
  PROVE  call'.pc = "Generate" /\ Remaining(call'.todo, asked') /\ Progress(file', asked', Len(call'.todo))
<1>1. call.pc = "Generate" /\ call.todo # <<>>
      /\ file' = Write(file, Pending, LeavesRagged(file, Head(call.todo)))
      /\ call' = [call EXCEPT !.todo = Tail(@)] /\ asked' = asked
  BY DEF Generate, At_, Unlink, OnlyFile
<1>2. asked \in Requests /\ RequestValid(asked) /\ FileShape(file)
  BY <1>1 DEF Shape, FlagsShape, CallShape, CreateShape
<1>3. Remaining(call.todo, asked) /\ Progress(file, asked, Len(call.todo))
  BY <1>1, Zenon DEF CreateInv
<1>4. file' = Next_(file, Head(call.todo))
  BY <1>1 DEF Next_, Pending
<1>5. PICK r, f, g, todo, u : r = asked /\ f = file /\ g = file' /\ todo = call.todo /\ u = Tail(call.todo)
  OBVIOUS
<1>6. /\ r \in Requests /\ RequestValid(r) /\ FileShape(f) /\ Remaining(todo, r) /\ todo # <<>>
      /\ Progress(f, r, Len(todo)) /\ g = Next_(f, Head(todo)) /\ u = Tail(todo)
  BY <1>1, <1>2, <1>3, <1>4, <1>5, Zenon
<1>7. Progress(g, r, Len(u)) BY <1>6, Progresses, Zenon
<1>8. Remaining(u, r)
  <2>1. Layout(r) \in Seq(Writes) BY <1>6, LayoutRemains, Zenon
  <2> QED BY <1>6, <2>1, NextRemains, Zenon
<1>9. call' = [pc |-> "Generate", todo |-> u]
  <2>1. call = [pc |-> call.pc, todo |-> call.todo]
    BY <1>1 DEF Shape, CallShape, CallRecord, NoCall
  <2>2. PICK c, d : c = call /\ d = call' OBVIOUS
  <2>3. c = [pc |-> "Generate", todo |-> todo] BY <1>1, <1>5, <2>1, <2>2, Zenon
  <2>4. d = [c EXCEPT !.todo = u]
    <3>1. d = [c EXCEPT !.todo = Tail(c.todo)] BY <1>1, <2>2, <2>3
    <3> QED BY <1>5, <2>2, <3>1, Zenon
  <2>5. d = [pc |-> "Generate", todo |-> u] BY ONLY <2>3, <2>4
  <2> QED BY <2>2, <2>5, Zenon
<1>10. call'.pc = "Generate" /\ call'.todo = u BY <1>9
<1>11. Remaining(call'.todo, asked') BY <1>1, <1>5, <1>8, <1>10, Zenon
<1>12. Progress(file', asked', Len(call'.todo)) BY <1>1, <1>5, <1>7, <1>10, Zenon
<1> QED BY <1>10, <1>11, <1>12

(* The call that creates a file, after its parent was opened *)
LEMMA OpenParentDoes ==
  ASSUME Shape, OpenParent
  PROVE  \/ UNCHANGED <<fileVars, session>> /\ call'.pc = "Generate" /\ call'.todo = call.todo
         \/ call' = NoCall
<1>1. call.pc = "OpenParent" /\ ((Goto("Generate") /\ UNCHANGED <<fileVars, session>>) \/ Unlink)
  BY DEF OpenParent, At_
<1>2. CASE Goto("Generate") /\ UNCHANGED <<fileVars, session>>
  <2>1. call = [pc |-> call.pc, todo |-> call.todo]
    BY <1>1 DEF Shape, CallShape, CallRecord, NoCall
  <2>2. PICK c, d, t, z : c = call /\ d = call' /\ t = call.todo /\ z = call.pc OBVIOUS
  <2>3. c = [pc |-> z, todo |-> t] /\ d = [c EXCEPT !.pc = "Generate"]
    BY <1>2, <2>1, <2>2, Zenon DEF Goto
  <2>4. d.pc = "Generate" /\ d.todo = t BY ONLY <2>3
  <2> QED BY <1>2, <2>2, <2>4, Zenon
<1>3. CASE Unlink
  BY <1>3 DEF Unlink
<1> QED BY <1>1, <1>2, <1>3

LEMMA CreateInvKept == ASSUME Shape, MadeInv, [Next]_vars PROVE CreateInv'
<1>1. CreateInv BY DEF MadeInv
<1>2. CASE \E r \in Requests : VHD_Create(r)
  <2>1. PICK r \in Requests : VHD_Create(r) BY <1>2
  <2>2. RequestValid(r) /\ file' = NewFile /\ asked' = r /\ call'.todo = Layout(r)
    BY <2>1 DEF VHD_Create
  <2>3. Remaining(Layout(r), r) BY <2>2, LayoutRemains, Zenon
  <2>4. Progress(NewFile, r, Len(Layout(r))) BY <2>2, NewFileProgress, Zenon
  <2> QED BY <2>2, <2>3, <2>4, Zenon DEF CreateInv
<1>3. CASE OpenParent
  <2>1. CASE UNCHANGED <<fileVars, session>> /\ call'.pc = "Generate" /\ call'.todo = call.todo
    <3>1. call.pc \in {"OpenParent", "Generate"} BY <1>3 DEF OpenParent, At_
    <3>2. Remaining(call.todo, asked) /\ Progress(file, asked, Len(call.todo)) BY <1>1, <3>1, Zenon DEF CreateInv
    <3>3. file' = file /\ asked' = asked BY <2>1 DEF fileVars
    <3> QED BY <2>1, <3>2, <3>3, Zenon DEF CreateInv
  <2>2. CASE call' = NoCall
    BY <2>2, NotOpened DEF CreateInv
  <2> QED BY <1>3, <2>1, <2>2, OpenParentDoes
<1>4. CASE Generate
  <2>1. CASE call' = NoCall
    BY <2>1, NotOpened DEF CreateInv
  <2>2. CASE call' # NoCall
    BY <1>1, <1>4, <2>2, GenerateGoesOn, Zenon DEF CreateInv
  <2> QED BY <2>1, <2>2
<1>5. CASE Generated
  BY <1>5 DEF Generated, CreateInv
<1>6. CASE UNCHANGED vars
  BY <1>1, <1>6, Zenon DEF vars, fileVars, CreateInv
<1>7. CASE call'.pc \notin {"OpenParent", "Generate", "OpenNew"}
  BY <1>7 DEF CreateInv
<1> QED BY <1>2, <1>3, <1>4, <1>5, <1>6, <1>7, CallsMove

LEMMA FreshInvKept == ASSUME Shape, MadeInv, [Next]_vars PROVE FreshInv'
<1>1. FreshInv /\ CreateInv BY DEF MadeInv
<1>2. CASE \E r \in Requests : VHD_Create(r)
  <2>1. call'.pc # "OpenNew" BY <1>2 DEF VHD_Create
  <2> QED BY <2>1 DEF FreshInv
<1>3. CASE OpenParent
  BY <1>3, OpenParentDoes, NotOpened DEF FreshInv
<1>4. CASE Generate
  <2>1. CASE call' = NoCall
    BY <2>1, NotOpened DEF FreshInv
  <2>2. CASE call' # NoCall
    <3>1. call'.pc = "Generate" BY <1>1, <1>4, <2>2, GenerateGoesOn, Zenon
    <3> QED BY <3>1 DEF FreshInv
  <2> QED BY <2>1, <2>2
<1>5. CASE Generated
  BY <1>5, GeneratedMakes
<1>6. CASE UNCHANGED vars
  BY <1>1, <1>6, Zenon DEF vars, fileVars, FreshInv
<1>7. CASE call'.pc \notin {"OpenParent", "Generate", "OpenNew"}
  BY <1>7 DEF FreshInv
<1> QED BY <1>2, <1>3, <1>4, <1>5, <1>6, <1>7, CallsMove

(* What is done with a file that was made *)
LEMMA ActionsOfMade ==
  ASSUME Shape, made, [Next]_vars
  PROVE  \/ VHD_Open \/ Open \/ \E why : VHD_Flush(why) \/ \E b \in Blocks(asked) : WriteBlock(b)
         \/ AppendBlock \/ AppendFooter \/ AppendBitmap \/ WriteData \/ FlushBat \/ FlushBits \/ Sync
         \/ ProcessDies \/ PowerFails \/ UNCHANGED vars
<1>1. CASE Client
  <2>1. \A r \in Requests : ~VHD_Create(r)
    BY DEF VHD_Create, Shape, FlagsShape
  <2>2. (\E why \in {"flush", "close"} : VHD_Flush(why)) => \E why : VHD_Flush(why)
    BY Zenon
  <2> QED BY <1>1, <2>1, <2>2, BlocksWritten DEF Client
<1>2. CASE Step
  <2>1. ~OpenParent /\ ~Generate /\ ~Generated
    BY DEF OpenParent, Generate, Generated, At_, Shape, CallShape, CreateShape
  <2> QED BY <1>2, <2>1 DEF Step
<1> QED BY <1>1, <1>2 DEF Next

LEMMA HeldIsGood ==
  ASSUME asked' = asked, NEW c, NEW t, NEW d, NEW b, Holds(session', c, t, d, b),
         c => \A k \in 0 .. BatSectors(asked) - 1 : GoodSector(t[k], k, asked),
         \A p \in b : p >= Low(asked)
  PROVE  SessionInv'
BY DEF Holds, SessionInv

(* An entry that is good is set in a good table. *)
LEMMA GoodEntrySet ==
  ASSUME NEW r \in Requests, RequestValid(r), NEW t, TableShape(t, r),
         \A k \in 0 .. BatSectors(r) - 1 : GoodSector(t[k], k, r),
         NEW b \in Blocks(r), Entry(t, b) = Unused, NEW p \in Nat, p >= Low(r),
         NEW u, u = WithEntry(t, b, p)
  PROVE  \A k \in 0 .. BatSectors(r) - 1 : GoodSector(u[k], k, r)
<1>1. Words(t, u, r, p)
  <2>1. Entry(t, b) # NoPlace BY Constants
  <2> QED BY <2>1, WithEntryIs, Zenon
<1>2. GoodEntry(p, r) BY Zenon DEF GoodEntry
<1> QED BY <1>1, <1>2, Zenon DEF GoodSector, Words

LEMMA SessionInvKept == ASSUME Shape, MadeInv, [Next]_vars PROVE SessionInv'
<1>1. SessionInv /\ FileInv /\ PlaceInv BY DEF MadeInv
<1>2. CASE ~made
  <2>1. CASE ~made' BY <2>1 DEF SessionInv
  <2>2. CASE Generated
    <3>1. ~session'.open
      BY <2>2 DEF Generated, At_, Shape, CallShape, CreateShape
    <3> QED BY <3>1 DEF SessionInv
  <2> QED BY <1>2, <2>1, <2>2, StepsOfUnmade
<1>3. CASE made
  <2>0. asked \in Requests /\ RequestValid(asked) BY <1>3, AskedIsValid
  <2>1. CASE session' = session /\ asked' = asked /\ made' = made
    BY <1>1, <2>1, Zenon DEF SessionInv
  <2>2. CASE session' = Closed
    BY <2>2, NotOpened DEF SessionInv
  <2>3. session.open =>
          /\ session.cached => \A k \in 0 .. BatSectors(asked) - 1 : GoodSector(session.table[k], k, asked)
          /\ \A p \in session.bits : p >= Low(asked)
    BY <1>1, <1>3, Zenon DEF SessionInv
  <2>4. CASE VHD_Open
    BY <2>1, <2>4 DEF VHD_Open, fileVars
  <2>5. CASE Open
    <3>1. asked' = asked BY <2>5, OpenDoes DEF fileVars
    <3>2. CASE Holds(session', FALSE, <<>>, FALSE, {})
      BY <3>1, <3>2 DEF Holds, SessionInv
    <3> QED BY <2>2, <2>5, <3>2, OpenDoes
  <2>6. CASE \E why : VHD_Flush(why)
    BY <2>1, <2>6, FlushDoes DEF fileVars
  <2>7. CASE \E b \in Blocks(asked) : WriteBlock(b)
    <3>1. PICK b \in Blocks(asked) : WriteBlock(b) BY <2>7
    <3>2. PICK t : t = IF session.cached THEN session.table ELSE TableOf(file, asked) OBVIOUS
    <3>3. /\ UNCHANGED fileVars /\ session.open /\ asked.type # "Fixed"
          /\ Holds(session', TRUE, t, session.dirty, session.bits)
      BY <3>1, <3>2, WriteBlockDoes
    <3>4. \A k \in 0 .. BatSectors(asked) - 1 : GoodSector(t[k], k, asked)
      <4>1. CASE session.cached
        BY <2>3, <3>2, <3>3, <4>1
      <4>2. CASE ~session.cached
        <5>1. Openable(file, asked) BY <1>1, <1>3, <3>3 DEF FileInv
        <5>2. FileShape(file) BY DEF Shape
        <5>3. \A k \in 0 .. BatSectors(asked) - 1 : t[k] = At(file, KBatStartSec + k)
          <6>1. t = TableOf(file, asked) BY <3>2, <4>2
          <6> QED BY <5>2, <6>1, TableOfIs, Zenon
        <5>4. \A k \in 0 .. BatSectors(asked) - 1 : GoodSector(At(file, KBatStartSec + k), k, asked)
          BY <5>1, Zenon DEF Openable, TableThere
        <5> QED BY <5>3, <5>4
      <4> QED BY <4>1, <4>2
    <3>5. asked' = asked BY <3>3 DEF fileVars
    <3>6. \A p \in session.bits : p >= Low(asked) BY <2>3, <3>3
    <3> QED BY <3>3, <3>4, <3>5, <3>6, HeldIsGood, Zenon
  <2>8. CASE AppendBlock
    BY <2>1, <2>8, AppendBlockDoes DEF fileVars
  <2>9. CASE AppendFooter
    BY <2>1, <2>9, AppendFooterDoes DEF Written, NotWritten, OnlyFile
  <2>10. CASE AppendBitmap
    <3>1. PICK u : u = WithEntry(session.table, call.block, call.place) OBVIOUS
    <3>2. call.pc = "AppendBitmap"
          /\ \/ NotWritten /\ call' = NoCall /\ session' = session
             \/ Written /\ Holds(session', TRUE, u, TRUE, session.bits)
      BY <2>10, <3>1, AppendBitmapDoes
    <3>3. asked' = asked /\ made' = made BY <3>2 DEF Written, NotWritten, OnlyFile
    <3>4. CASE Holds(session', TRUE, u, TRUE, session.bits)
      <4>1. session.open /\ session.cached /\ TableShape(session.table, asked) /\ call.block \in Blocks(asked)
        BY <3>2, BlockCall
      <4>2. call.place \in Nat /\ Entry(session.table, call.block) = Unused
        BY <3>2 DEF Shape, CallShape, AppendShape
      <4>3. call.place >= Low(asked) BY <1>1, <1>3, <3>2 DEF PlaceInv
      <4>4. \A k \in 0 .. BatSectors(asked) - 1 : GoodSector(session.table[k], k, asked)
        BY <2>3, <4>1
      <4>5. PICK t, b, p : t = session.table /\ b = call.block /\ p = call.place OBVIOUS
      <4>6. /\ TableShape(t, asked) /\ b \in Blocks(asked) /\ p \in Nat /\ Entry(t, b) = Unused
            /\ p >= Low(asked) /\ u = WithEntry(t, b, p)
            /\ \A k \in 0 .. BatSectors(asked) - 1 : GoodSector(t[k], k, asked)
        BY <3>1, <4>1, <4>2, <4>3, <4>4, <4>5, Zenon
      <4>7. \A k \in 0 .. BatSectors(asked) - 1 : GoodSector(u[k], k, asked)
        BY <2>0, <4>6, GoodEntrySet, Zenon
      <4> QED BY <2>3, <3>3, <3>4, <4>1, <4>7, HeldIsGood
    <3> QED BY <2>1, <3>2, <3>3, <3>4
  <2>11. CASE WriteData
    <3>1. call.pc = "WriteData"
          /\ \/ NotWritten /\ call' = NoCall /\ session' = session
             \/ Written /\ Holds(session', TRUE, session.table, session.dirty, session.bits \cup {call.place})
      BY <2>11, WriteDataDoes
    <3>2. asked' = asked /\ made' = made BY <3>1 DEF Written, NotWritten, OnlyFile
    <3>3. session.open /\ session.cached BY <3>1, BlockCall
    <3>4. call.place >= Low(asked) BY <1>3, <3>1, PlaceLow
    <3>5. \A p \in session.bits \cup {call.place} : p >= Low(asked) BY <2>3, <3>3, <3>4
    <3>6. CASE Holds(session', TRUE, session.table, session.dirty, session.bits \cup {call.place})
      BY <2>3, <3>2, <3>3, <3>5, <3>6, HeldIsGood
    <3> QED BY <2>1, <3>1, <3>2, <3>6
  <2>12. CASE FlushBat
    <3>1. \/ NotWritten /\ session' = session
          \/ Written /\ Holds(session', session.cached, session.table, FALSE, session.bits)
      BY <2>12, FlushBatDoes
    <3>2. session.open /\ asked' = asked /\ made' = made
      BY <2>12, <3>1, FlushBatDoes DEF Written, NotWritten, OnlyFile
    <3>3. CASE Holds(session', session.cached, session.table, FALSE, session.bits)
      BY <2>3, <3>2, <3>3, HeldIsGood
    <3> QED BY <2>1, <3>1, <3>2, <3>3
  <2>13. CASE FlushBits
    <3>0. PICK q : q = CHOOSE x \in call.bits : TRUE OBVIOUS
    <3>1. /\ session.open
          /\ \/ NotWritten /\ session' = session
             \/ Written /\ Holds(session', session.cached, session.table, session.dirty, session.bits \ {q})
      BY <2>13, <3>0, FlushBitsDoes
    <3>2. session.open /\ asked' = asked /\ made' = made
      BY <3>1 DEF Written, NotWritten, OnlyFile
    <3>3. CASE Holds(session', session.cached, session.table, session.dirty, session.bits \ {q})
      <4>1. \A p \in session.bits \ {q} : p >= Low(asked) BY <2>3, <3>2
      <4> QED BY <2>3, <3>2, <3>3, <4>1, HeldIsGood
    <3> QED BY <2>1, <3>1, <3>2, <3>3
  <2>14. CASE Sync
    BY <2>1, <2>2, <2>14, SyncDoes
  <2>15. CASE ProcessDies \/ PowerFails
    BY <2>2, <2>15 DEF ProcessDies, PowerFails
  <2>16. CASE UNCHANGED vars
    BY <2>1, <2>16 DEF vars, fileVars
  <2> QED BY <1>3, <2>4, <2>5, <2>6, <2>7, <2>8, <2>9, <2>10, <2>11, <2>12, <2>13, <2>14, <2>15, <2>16,
             ActionsOfMade
<1> QED BY <1>2, <1>3

LEMMA PlaceInvKept == ASSUME Shape, MadeInv, [Next]_vars PROVE PlaceInv'
<1>1. PlaceInv /\ FileInv BY DEF MadeInv
<1>2. CASE ~made
  <2>1. CASE ~made' BY <2>1 DEF PlaceInv
  <2>2. CASE Generated
    BY <2>2 DEF Generated, PlaceInv
  <2> QED BY <1>2, <2>1, <2>2, StepsOfUnmade
<1>3. CASE made
  <2>1. asked \in Requests /\ RequestValid(asked) BY <1>3, AskedIsValid
  <2>2. CASE call'.pc \notin {"AppendFooter", "AppendBitmap"}
    BY <2>2 DEF PlaceInv
  <2>3. CASE AppendBlock
    <3>1. call.pc = "AppendBlock" /\ UNCHANGED <<fileVars, session>>
          /\ (call' = NoCall \/ (call'.pc = "AppendFooter" /\ call'.place = file.size - 1 /\ ~file.ragged))
      BY <2>3, AppendBlockDoes
    <3>2. CASE call'.pc = "AppendFooter" /\ call'.place = file.size - 1 /\ ~file.ragged
      <4>1. asked.type # "Fixed" /\ file.size \in Nat BY <3>1, BlockCall
      <4>2. Openable(file, asked) BY <1>1, <1>3, <4>1 DEF FileInv
      <4>3. End(file) = file.size BY <3>2, <4>1, Ends
      <4>4. TableEnd(asked) <= file.size BY <4>2, <4>3, Zenon DEF Openable, TableThere
      <4>5. TableFits(asked) => file.size >= KFooterSec(asked) + 1 BY <4>2 DEF Openable
      <4>6. file.size - 1 >= Low(asked) BY <2>1, <4>1, <4>4, <4>5, LowIs
      <4>7. asked' = asked BY <3>1 DEF fileVars
      <4> QED BY <3>2, <4>6, <4>7, Zenon DEF PlaceInv
    <3> QED BY <2>2, <3>1, <3>2, NotOpened
  <2>4. CASE AppendFooter
    <3>1. call.pc = "AppendFooter"
          /\ \/ NotWritten /\ call' = NoCall
             \/ Written /\ call'.pc = "AppendBitmap" /\ call'.place = call.place
      BY <2>4, AppendFooterDoes
    <3>2. asked' = asked BY <3>1 DEF Written, NotWritten, OnlyFile
    <3>3. call.place >= Low(asked) BY <1>1, <1>3, <3>1 DEF PlaceInv
    <3> QED BY <2>2, <3>1, <3>2, <3>3, NotOpened DEF PlaceInv
  <2>5. CASE UNCHANGED vars
    BY <1>1, <2>5, Zenon DEF vars, fileVars, PlaceInv
  <2>6. VHD_Open => call'.pc \notin {"AppendFooter", "AppendBitmap"} BY DEF VHD_Open
  <2>7. Open => call'.pc \notin {"AppendFooter", "AppendBitmap"} BY OpenDoes, NotOpened
  <2>8. (\E why : VHD_Flush(why)) => call'.pc \notin {"AppendFooter", "AppendBitmap"} BY FlushDoes
  <2>9. ASSUME \E b \in Blocks(asked) : WriteBlock(b) PROVE call'.pc \notin {"AppendFooter", "AppendBitmap"}
    <3>1. PICK b \in Blocks(asked) : WriteBlock(b) BY <2>9
    <3>2. call'.pc \in {"AppendBlock", "WriteData"} BY <3>1, WriteBlockDoes
    <3> QED BY <3>2
  <2>10. AppendBitmap => call'.pc \notin {"AppendFooter", "AppendBitmap"} BY AppendBitmapDoes, NotOpened
  <2>11. WriteData => call'.pc \notin {"AppendFooter", "AppendBitmap"} BY WriteDataDoes, NotOpened
  <2>12. FlushBat \/ FlushBits => call'.pc \notin {"AppendFooter", "AppendBitmap"}
    BY FlushBatDoes, FlushBitsDoes
  <2>13. Sync => call'.pc \notin {"AppendFooter", "AppendBitmap"} BY SyncDoes, NotOpened
  <2>14. ProcessDies \/ PowerFails => call'.pc \notin {"AppendFooter", "AppendBitmap"}
    BY NotOpened DEF ProcessDies, PowerFails
  <2> QED BY <1>3, <2>2, <2>3, <2>4, <2>5, <2>6, <2>7, <2>8, <2>9, <2>10, <2>11, <2>12, <2>13, <2>14,
             ActionsOfMade
<1> QED BY <1>2, <1>3

LEMMA InitMade == ASSUME Init PROVE MadeInv
<1>1. made = FALSE /\ session = Closed /\ call = NoCall BY DEF Init
<1>2. call.pc = "none" BY <1>1, NotOpened
<1> QED BY <1>1, <1>2 DEF MadeInv, FileInv, CreateInv, FreshInv, SessionInv, PlaceInv

LEMMA NextKeepsMade == ASSUME Shape, MadeInv, [Next]_vars PROVE MadeInv'
<1>1. FileInv'
  <2>1. CASE made BY <2>1, FileInvKept
  <2>2. CASE ~made
    <3>1. CASE ~made' BY <3>1 DEF FileInv
    <3>2. CASE Generated BY <3>2, GeneratedMakes
    <3> QED BY <2>2, <3>1, <3>2, StepsOfUnmade
  <2> QED BY <2>1, <2>2
<1>2. CreateInv' /\ FreshInv' /\ SessionInv' /\ PlaceInv'
  BY CreateInvKept, FreshInvKept, SessionInvKept, PlaceInvKept
<1> QED BY <1>1, <1>2, Zenon DEF MadeInv

(* The writes of GenerateFile follow each other as its layout has them, and a *)
(* file that it has made keeps its header, the copy of its footer, and a table *)
(* of entries.                                                                *)
THEOREM MadeInvariance == Spec => [](Shape /\ MadeInv)
<1>1. Init => Shape /\ MadeInv
  BY InitShape, InitMade
<1>2. (Shape /\ MadeInv) /\ [Next]_vars => (Shape /\ MadeInv)'
  BY NextKeepsShape, NextKeepsMade
<1> QED BY <1>1, <1>2, PTL DEF Spec

LEMMA OpenableIsOpen ==
  ASSUME NEW r, r.type \in {"Dynamic", "Diff"}, NEW f, FileShape(f), f.exists, Openable(f, r)
  PROVE  Recognised(f, r) = r.type
<1>1. f.size \in Nat /\ f.size >= 3 /\ CopyThere(f) /\ HeaderThere(f)
  BY DEF Openable, HeaderThere, FileShape
<1>2. HeaderAt(f, KHdrStartSec)
  BY <1>1, Constants, 1 + 1 = 2 DEF HeaderAt, HeaderThere
<1>3. FooterAt(f, 0)
  BY <1>1 DEF FooterAt, CopyThere
<1> QED BY <1>1, <1>2, <1>3, Constants DEF Recognised

(* A VHD that was made and synced once can be opened ever after, as what it   *)
(* is.                                                                        *)
LEMMA MadeStaysOpenable == ASSUME Shape, MadeInv PROVE StaysOpenable
<1> SUFFICES ASSUME sound, Formatted PROVE Recognised(file, asked) = asked.type
  BY DEF StaysOpenable
<1>1. made /\ file.exists /\ asked \in Requests /\ RequestValid(asked) /\ FileShape(file)
  BY DEF Shape, FlagsShape
<1>2. FileInv BY DEF MadeInv
<1>3. asked.type \in {"Fixed", "Dynamic", "Diff"} BY <1>1, RequestsAssumption
<1>4. CASE asked.type = "Fixed"
  <2>1. LastFooter(file) BY <1>1, <1>2, <1>4 DEF FileInv
  <2>2. file.size # 0 BY <2>1 DEF LastFooter, FooterAt
  <2> QED BY <1>1, <1>4, <2>1, <2>2 DEF Recognised
<1>5. CASE asked.type \in {"Dynamic", "Diff"}
  <2>1. Openable(file, asked) BY <1>1, <1>2, <1>5 DEF FileInv
  <2> QED BY <1>1, <1>5, <2>1, OpenableIsOpen
<1> QED BY <1>3, <1>4, <1>5

(* Once synced, a VHD is recognised for ever as what was asked for: whatever   *)
(* write fails, whenever the process dies, and whatever a loss of power takes *)
(* of what was not synced; for every request, and for tables of every size.   *)
THEOREM AlwaysOpenable == Spec => []StaysOpenable
<1>1. Shape /\ MadeInv => StaysOpenable
  BY MadeStaysOpenable
<1> QED BY <1>1, MadeInvariance, PTL

(* No table that is asked for is larger than the place it is given. *)
TablesFit == \A r \in Requests : RequestValid(r) /\ r.type # "Fixed" => TableFits(r)

LEMMA MadeTypeOK == ASSUME Shape, MadeInv, TablesFit PROVE TypeOK
<1>1. /\ file.exists \in BOOLEAN /\ file.ragged \in BOOLEAN /\ file.size \in Nat
      /\ \A s \in DOMAIN file.at :
           /\ s \in 0 .. file.size /\ (s = file.size => file.ragged)
           /\ file.at[s].kind \in Kinds
  BY DEF Shape, FileShape, SectorShape
<1>2. asked \in Requests \cup {NoRequest} /\ made \in BOOLEAN /\ sound \in BOOLEAN /\ cut \in BOOLEAN
  BY DEF Shape, FlagsShape
<1>3. session.open \in BOOLEAN
  <2>1. session.open = FALSE \/ session.open = TRUE
    BY NotOpened DEF Shape, SessionShape
  <2> QED BY <2>1
<1>4. ASSUME made, Dynamic, NEW k \in DOMAIN TableOf(file, asked)
      PROVE  TableOf(file, asked)[k].kind \in {"Zero", "Table"}
  <2>1. FileShape(file) /\ asked \in Requests /\ RequestValid(asked) /\ asked.type # "Fixed" /\ TableFits(asked)
    BY <1>4, AskedIsValid DEF Shape, Dynamic, TablesFit
  <2>2. k \in 0 .. BatSectors(asked) - 1 /\ TableOf(file, asked)[k] = At(file, KBatStartSec + k)
    BY <2>1, TableOfIs DEF TableShape
  <2>3. Openable(file, asked)
    BY <1>4, <2>1 DEF MadeInv, FileInv
  <2>4. GoodSector(At(file, KBatStartSec + k), k, asked)
    BY <2>2, <2>3, Zenon DEF Openable, TableThere
  <2>5. PICK x : x = At(file, KBatStartSec + k)
    OBVIOUS
  <2>6. GoodEntry(EntryIn(x, 0), asked)
    <3>1. k \in Nat /\ k * EntriesPerSector < MaxBatEntries(asked)
      BY <2>1, <2>2, SectorHasBlocks
    <3>2. 0 \in 0 .. EntriesPerSector - 1 /\ k * EntriesPerSector + 0 < MaxBatEntries(asked)
      BY <3>1, Constants
    <3> QED BY <2>4, <2>5, <3>2, Zenon DEF GoodSector
  <2>7. EntryIn(x, 0) # NoPlace
    BY <2>1, <2>6, Constants DEF GoodEntry
  <2>8. SectorShape(x)
    BY <2>1, <2>5, AtShape
  <2>9. x.kind \in {"Zero", "Table"}
    BY <2>7, <2>8, EntryInIs
  <2> QED BY <2>2, <2>5, <2>9
<1> QED BY <1>1, <1>2, <1>3, <1>4 DEF TypeOK

(* The tables that are no larger than their place are those of a dynamic disk *)
(* with up to 128 blocks and of a differencing one with up to 256: the place  *)
(* is counted in entries where bytes are meant (vhd_create.cpp:272, 488).     *)
THEOREM WhichTablesFit ==
  ASSUME NEW r \in Requests, RequestValid(r), r.type # "Fixed"
  PROVE  TableFits(r) <=> MaxBatEntries(r) <= (IF r.type = "Diff" THEN 256 ELSE 128)
<1>1. PICK n, a, b : /\ n = MaxBatEntries(r) /\ a = (n - 1) \div 128 /\ b = (n - 1) \div 512
  OBVIOUS
<1>2. n \in Nat BY <1>1, Numbers
<1>3. r.type \in {"Dynamic", "Diff"} BY RequestsAssumption
<1>4. a \in Int /\ b \in Int /\ a >= -1 /\ b >= -1 /\ (n + 127) \div 128 = a + 1 BY <1>1, <1>2
<1>5. 4 * b <= a /\ a < 4 * b + 4 BY <1>1, <1>2
<1>6. KDefSecSize = 512 /\ EntriesPerSector = 128 /\ KBatStartSec \in Nat
  BY Constants DEF KDefSecSize, EntriesPerSector, KBatStartSec
<1>7. BatSectors(r) = a + 1
  <2>1. BatSectors(r) = (n + 128 - 1) \div 128 BY <1>1, <1>6 DEF BatSectors
  <2>2. n + 128 - 1 = n + 127 BY <1>2
  <2> QED BY <1>4, <2>1, <2>2
<1>8. KBatSizeInSectors(r) = 1 + b BY <1>1, <1>6 DEF KBatSizeInSectors
<1>9. CASE r.type = "Dynamic"
  <2>1. TableFits(r) <=> a <= b
    BY <1>4, <1>6, <1>7, <1>8, <1>9 DEF TableFits, TableEnd, KFooterSec
  <2>2. a <= b <=> a <= 0 BY <1>4, <1>5
  <2>3. a <= 0 <=> n <= 128 BY <1>1, <1>2
  <2> QED BY <1>1, <1>9, <2>1, <2>2, <2>3
<1>10. CASE r.type = "Diff"
  <2>1. TableFits(r) <=> a <= b + 1
    BY <1>4, <1>6, <1>7, <1>8, <1>10 DEF TableFits, TableEnd, KLocatorsStartSec
  <2>2. a <= b + 1 <=> a <= 1 BY <1>4, <1>5
  <2>3. a <= 1 <=> n <= 256 BY <1>1, <1>2
  <2> QED BY <1>1, <1>10, <2>1, <2>2, <2>3
<1> QED BY <1>3, <1>9, <1>10

(* The state has its shape; and the table of a file that was made is made of  *)
(* entries, whatever failed after that, if it fits the place that is left for *)
(* it in the file.                                                            *)
THEOREM TypeCorrect == ASSUME TablesFit PROVE Spec => []TypeOK
<1>1. Shape /\ MadeInv => TypeOK
  BY MadeTypeOK
<1> QED BY <1>1, MadeInvariance, PTL

LEMMA MadeIsSound == ASSUME Shape, MadeInv, TablesFit PROVE FreshFileSound
<1> SUFFICES ASSUME made, At_("OpenNew"), Formatted
    PROVE  /\ Recognised(file, asked) = asked.type
           /\ LastFooter(file)
           /\ Dynamic =>
                /\ \A b \in Blocks(asked) : Entry(TableOf(file, asked), b) = Unused
                /\ (CHS_DiskSzInSectors(asked) - 1) \div SectorsPerBlock(asked) \in Blocks(asked)
  BY DEF FreshFileSound
<1>1. file.exists /\ asked \in Requests /\ RequestValid(asked) /\ FileShape(file) /\ SizeAccepted(asked)
  BY DEF Shape, FlagsShape, Formatted
<1>2. asked.type # "Fixed" => TableFits(asked) BY <1>1 DEF TablesFit
<1>3. LastFooter(file) /\ (asked.type # "Fixed" => NoBlocks(file, asked))
  BY <1>2 DEF MadeInv, FreshInv, At_
<1>4. asked.type \in {"Fixed", "Dynamic", "Diff"} BY <1>1, RequestsAssumption
<1>5. Recognised(file, asked) = asked.type
  <2>1. CASE asked.type = "Fixed"
    <3>1. file.size # 0 BY <1>3 DEF LastFooter, FooterAt
    <3> QED BY <1>1, <1>3, <2>1, <3>1 DEF Recognised
  <2>2. CASE asked.type \in {"Dynamic", "Diff"}
    <3>1. Openable(file, asked) BY <2>2 DEF MadeInv, FileInv
    <3> QED BY <1>1, <2>2, <3>1, OpenableIsOpen
  <2> QED BY <1>4, <2>1, <2>2
<1>6. (CHS_DiskSzInSectors(asked) - 1) \div SectorsPerBlock(asked) \in Blocks(asked)
  <2>1. asked.secPerBlockLog2 \in 8 .. 19 /\ asked.sectors \in Nat
    BY <1>1, RequestsAssumption DEF RequestValid
  <2>2. ChsSectors(asked) \in Nat
    BY <2>1, ChsNatural DEF ChsSectors
  <2>3. ChsSectors(asked) \in Nat \ {0}
    <3>1. MaxBatEntries(asked) > 0 BY <1>1, Numbers
    <3>2. SectorsPerBlock(asked) \in Nat \ {0} BY <1>1, Numbers
    <3>3. PICK n, B : n = ChsSectors(asked) /\ B = SectorsPerBlock(asked) OBVIOUS
    <3>4. 1 + (n - 1) \div B > 0
      BY <3>1, <3>3 DEF MaxBatEntries, SectorsPerBlock
    <3>5. n \in Nat /\ B \in Nat \ {0} BY <2>2, <3>2, <3>3
    <3>6. n # 0
      <4>1. SUFFICES ASSUME n = 0 PROVE FALSE OBVIOUS
      <4>2. (0 - 1) \div B = -1 BY <3>5
      <4> QED BY <3>4, <4>1, <4>2
    <3> QED BY <3>3, <3>5, <3>6
  <2>4. CHS_DiskSzInSectors(asked) - 1 \in 0 .. CHS_DiskSzInSectors(asked) - 1
    <3>1. CHS_DiskSzInSectors(asked) \in Nat
      <4>1. \A n \in Nat : RoundUp(n, KDefSecPerBlockLog2) \in Nat
        BY 2^12 = 4096 DEF RoundUp, KDefSecPerBlockLog2
      <4> QED BY <2>2, <4>1 DEF CHS_DiskSzInSectors
    <3> QED BY <1>1, <3>1 DEF SizeAccepted
  <2> QED BY <1>1, <2>1, <2>3, <2>4, EverySectorHasAnEntry
<1> QED BY <1>3, <1>5, <1>6 DEF Dynamic, NoBlocks

(* A file that GenerateFile has just made is what was asked for, has its      *)
(* footer in its last sector, and an unused entry for each block of the disk, *)
(* if its table fits the place that is left for it.                           *)
THEOREM FreshIsSound == ASSUME TablesFit PROVE Spec => []FreshFileSound
<1>1. Shape /\ MadeInv => FreshFileSound
  BY MadeIsSound
<1> QED BY <1>1, MadeInvariance, PTL

-----------------------------------------------------------------------------
(* The blocks of a file with a table that fits *)

(* The table t has no entry that the table u has not. *)
Tables(t, u, r) == \A b \in Blocks(r) : Entry(t, b) = Unused \/ Entry(t, b) = Entry(u, b)

(* The table that is in force *)
Current == IF session.open /\ session.cached THEN session.table ELSE TableOf(file, asked)

Clear(p, q, r) == p + BlockLen(r) <= q \/ q + BlockLen(r) <= p

HasBitmap(f, p, r) == \A s \in p .. p + SBmp_SizeInSectors(r) - 1 : At(f, s).kind = "Bitmap"

(* Behind the block is a footer. *)
InFile(f, p, r) == p + BlockLen(r) + 1 <= f.size /\ HasBitmap(f, p, r)

AllIn(t, f, r) == \A b \in Blocks(r) : Entry(t, b) # Unused => InFile(f, Entry(t, b), r)

Separate(t, r) ==
  \A b, c \in Blocks(r) :
    b # c /\ Entry(t, b) # Unused /\ Entry(t, c) # Unused => Clear(Entry(t, b), Entry(t, c), r)

(* The blocks end before the place p. *)
AllBefore(t, p, r) == \A b \in Blocks(r) : Entry(t, b) # Unused => Entry(t, b) + BlockLen(r) <= p

InTable(t, p, r) == \E b \in Blocks(r) : p = Entry(t, b) /\ p # Unused

IsPlace(e, r) == e = Unused \/ (e \in Nat /\ e >= KFooterSec(r))

MadeTable == made /\ asked.type # "Fixed" /\ TableFits(asked)

LEMMA AskedOfTable ==
  ASSUME Shape, MadeInv, MadeTable
  PROVE  /\ made /\ asked \in Requests /\ RequestValid(asked) /\ asked.type # "Fixed" /\ TableFits(asked)
         /\ KFooterSec(asked) \in Nat /\ TableEnd(asked) = 3 + BatSectors(asked)
         /\ BatSectors(asked) \in Nat /\ TableEnd(asked) <= KFooterSec(asked)
         /\ Low(asked) = KFooterSec(asked) /\ FileShape(file) /\ Openable(file, asked)
         /\ file.size \in Nat /\ file.size >= KFooterSec(asked) + 1
         /\ SBmp_SizeInSectors(asked) \in Nat \ {0} /\ SectorsPerBlock(asked) \in Nat \ {0}
         /\ BlockLen(asked) = SBmp_SizeInSectors(asked) + SectorsPerBlock(asked)
<1>1. made /\ asked \in Requests /\ RequestValid(asked) /\ asked.type # "Fixed" /\ TableFits(asked)
  BY AskedIsValid DEF MadeTable
<1>2. FileShape(file) /\ Openable(file, asked)
  BY <1>1 DEF Shape, MadeInv, FileInv
<1>3. file.size \in Nat /\ file.size >= KFooterSec(asked) + 1
  BY <1>1, <1>2 DEF FileShape, Openable
<1>4. /\ KFooterSec(asked) \in Nat /\ TableEnd(asked) = 3 + BatSectors(asked)
      /\ BatSectors(asked) \in Nat /\ TableEnd(asked) <= KFooterSec(asked)
      /\ Low(asked) = KFooterSec(asked)
  BY <1>1, LowIs
<1>5. SBmp_SizeInSectors(asked) \in Nat \ {0} /\ SectorsPerBlock(asked) \in Nat \ {0}
  BY <1>1, Numbers
<1>6. BlockLen(asked) = SBmp_SizeInSectors(asked) + SectorsPerBlock(asked)
  BY DEF BlockLen
<1> QED BY <1>1, <1>2, <1>3, <1>4, <1>5, <1>6

(* What the entries of a good table are *)
LEMMA GoodEntries ==
  ASSUME NEW r \in Requests, RequestValid(r), r.type # "Fixed", TableFits(r), NEW t,
         \A k \in 0 .. BatSectors(r) - 1 : GoodSector(t[k], k, r), NEW b \in Blocks(r)
  PROVE  IsPlace(Entry(t, b), r)
<1>1. PICK k, i : k = b \div EntriesPerSector /\ i = b % EntriesPerSector
  OBVIOUS
<1>2. /\ k \in 0 .. BatSectors(r) - 1 /\ i \in 0 .. EntriesPerSector - 1
      /\ k * EntriesPerSector + i = b
  BY <1>1, WordOf
<1>3. b < MaxBatEntries(r)
  BY Numbers DEF Blocks
<1>4. GoodEntry(EntryIn(t[k], i), r)
  BY <1>2, <1>3 DEF GoodSector
<1>5. Entry(t, b) = EntryIn(t[k], i)
  BY <1>1 DEF Entry
<1>6. Low(r) = KFooterSec(r)
  BY LowIs
<1> QED BY <1>4, <1>5, <1>6 DEF GoodEntry, IsPlace

LEMMA OpenableEntries ==
  ASSUME NEW r \in Requests, RequestValid(r), r.type # "Fixed", TableFits(r),
         NEW f, FileShape(f), Openable(f, r), NEW b \in Blocks(r)
  PROVE  IsPlace(Entry(TableOf(f, r), b), r)
<1>1. PICK t : t = TableOf(f, r) OBVIOUS
<1>2. \A k \in 0 .. BatSectors(r) - 1 : t[k] = At(f, KBatStartSec + k)
  BY <1>1, TableOfIs, Zenon
<1>3. \A k \in 0 .. BatSectors(r) - 1 : GoodSector(At(f, KBatStartSec + k), k, r)
  BY Zenon DEF Openable, TableThere
<1>4. \A k \in 0 .. BatSectors(r) - 1 : GoodSector(t[k], k, r)
  BY <1>2, <1>3
<1>5. IsPlace(Entry(t, b), r)
  BY <1>4, GoodEntries, Zenon
<1> QED BY <1>1, <1>5, Zenon

(* The entries of the file, of the session, and of what was synced *)
LEMMA EntriesArePlaces ==
  ASSUME Shape, MadeInv, MadeTable, NEW b \in Blocks(asked)
  PROVE  /\ IsPlace(Entry(TableOf(file, asked), b), asked)
         /\ session.open /\ session.cached => IsPlace(Entry(session.table, b), asked)
         /\ IsPlace(Entry(Current, b), asked)
         /\ sound => IsPlace(Entry(TableOf(durable, asked), b), asked)
<1>1. /\ made /\ asked \in Requests /\ RequestValid(asked) /\ asked.type # "Fixed" /\ TableFits(asked)
      /\ FileShape(file) /\ Openable(file, asked)
  BY AskedOfTable
<1>2. IsPlace(Entry(TableOf(file, asked), b), asked)
  BY <1>1, OpenableEntries
<1>3. ASSUME sound PROVE IsPlace(Entry(TableOf(durable, asked), b), asked)
  <2>1. FileShape(durable) /\ Openable(durable, asked)
    BY <1>1, <1>3 DEF Shape, MadeInv, FileInv
  <2> QED BY <1>1, <2>1, OpenableEntries
<1>4. ASSUME session.open, session.cached PROVE IsPlace(Entry(session.table, b), asked)
  <2>1. \A k \in 0 .. BatSectors(asked) - 1 : GoodSector(session.table[k], k, asked)
    BY <1>1, <1>4 DEF MadeInv, SessionInv
  <2>2. PICK t : t = session.table OBVIOUS
  <2>3. IsPlace(Entry(t, b), asked)
    BY <1>1, <2>1, <2>2, GoodEntries
  <2> QED BY <2>2, <2>3
<1>5. IsPlace(Entry(Current, b), asked)
  BY <1>2, <1>4 DEF Current
<1> QED BY <1>2, <1>3, <1>4, <1>5

(* A write to the file finds the sectors of the table as they are, or makes   *)
(* them those of the session.                                                 *)
LEMMA TableSectors ==
  ASSUME Shape, MadeInv, MadeTable, NEW g, Wrote(file, g, Pending), NEW k \in 0 .. BatSectors(asked) - 1
  PROVE  \/ At(g, KBatStartSec + k) = At(file, KBatStartSec + k)
         \/ session.open /\ session.cached /\ At(g, KBatStartSec + k) = session.table[k]
<1>0. PICK s : s = KBatStartSec + k OBVIOUS
<1>1. /\ asked \in Requests /\ RequestValid(asked) /\ asked.type # "Fixed" /\ made
      /\ KFooterSec(asked) \in Nat /\ TableEnd(asked) = 3 + BatSectors(asked)
      /\ BatSectors(asked) \in Nat /\ TableEnd(asked) <= KFooterSec(asked)
      /\ Low(asked) = KFooterSec(asked) /\ file.size \in Nat /\ file.size >= KFooterSec(asked) + 1
  BY AskedOfTable
<1>2. s \in Nat /\ s < KFooterSec(asked) /\ s < file.size
  BY <1>0, <1>1, Constants
<1>3. s \notin DOMAIN Pending => At(g, s) = At(file, s)
  BY DEF Wrote
<1>4. CASE call.pc = "AppendFooter"
  <2>1. DOMAIN Pending = {call.place + BlockLen(asked)} /\ call.place \in Nat
    BY <1>4, FooterPending
  <2>2. call.place >= KFooterSec(asked)
    BY <1>1, <1>4 DEF MadeInv, PlaceInv
  <2>3. BlockLen(asked) \in Nat
    BY <1>4, BlockCall
  <2> QED BY <1>0, <1>1, <1>2, <1>3, <2>1, <2>2, <2>3
<1>5. CASE call.pc = "AppendBitmap"
  <2>1. Pending = BitmapAt(call.place) /\ call.place \in Nat
    BY <1>5, BitmapPending
  <2>2. DOMAIN Pending = call.place .. call.place + SBmp_SizeInSectors(asked) - 1
    BY <1>1, <2>1, BitmapRun
  <2>3. call.place >= KFooterSec(asked)
    BY <1>1, <1>5 DEF MadeInv, PlaceInv
  <2> QED BY <1>0, <1>1, <1>2, <1>3, <2>1, <2>2, <2>3
<1>6. CASE call.pc = "WriteData"
  <2>1. DOMAIN Pending = {call.place + SBmp_SizeInSectors(asked)}
    BY <1>6, DataPending
  <2>2. call.place \in Nat /\ call.place >= KFooterSec(asked)
    BY <1>1, <1>6, PlaceLow
  <2>3. SBmp_SizeInSectors(asked) \in Nat
    BY <1>1, Numbers
  <2> QED BY <1>0, <1>1, <1>2, <1>3, <2>1, <2>2, <2>3
<1>7. CASE call.pc = "FlushBat" /\ session.dirty
  <2>1. s \in DOMAIN Pending /\ Pending[s] = session.table[k]
    BY <1>0, <1>7, TablePending
  <2>2. session.open /\ session.cached
    BY <1>7, FlushCall, OpenSession
  <2>3. At(g, s) = At(file, s) \/ At(g, s) = Pending[s]
    BY <1>1, <1>2, <2>1 DEF Wrote
  <2> QED BY <1>0, <2>1, <2>2, <2>3
<1>8. CASE call.pc = "FlushBits" /\ call.bits # {}
  <2>1. PICK p : p = CHOOSE q \in call.bits : TRUE OBVIOUS
  <2>2. p \in session.bits /\ p \in Nat /\ Pending = BitmapAt(p)
    BY <1>8, <2>1, BitsPending
  <2>3. DOMAIN Pending = p .. p + SBmp_SizeInSectors(asked) - 1
    BY <1>1, <2>2, BitmapRun
  <2>4. session.open
    BY <1>8, FlushCall
  <2>5. p >= KFooterSec(asked)
    BY <1>1, <2>2, <2>4 DEF MadeInv, SessionInv
  <2> QED BY <1>0, <1>1, <1>2, <1>3, <2>2, <2>3, <2>5
<1>9. CASE /\ call.pc # "AppendFooter" /\ call.pc # "AppendBitmap" /\ call.pc # "WriteData"
           /\ ~(call.pc = "FlushBat" /\ session.dirty) /\ ~(call.pc = "FlushBits" /\ call.bits # {})
  <2>1. call.pc # "Generate"
    BY <1>1 DEF Shape, CallShape, CreateShape
  <2>2. Pending = <<>>
    BY <1>9, <2>1 DEF Pending
  <2>3. DOMAIN <<>> = {}
    OBVIOUS
  <2> QED BY <1>0, <1>3, <2>2, <2>3
<1> QED BY <1>4, <1>5, <1>6, <1>7, <1>8, <1>9

LEMMA EntriesKept ==
  ASSUME Shape, MadeInv, MadeTable, NEW g, Wrote(file, g, Pending), NEW b \in Blocks(asked)
  PROVE  \/ Entry(TableOf(g, asked), b) = Entry(TableOf(file, asked), b)
         \/ Entry(TableOf(g, asked), b) = Entry(Current, b)
<1>1. PICK k, i, t, u : /\ k = b \div EntriesPerSector /\ i = b % EntriesPerSector
                        /\ t = TableOf(g, asked) /\ u = TableOf(file, asked)
  OBVIOUS
<1>2. asked \in Requests /\ RequestValid(asked) /\ FileShape(file)
  BY AskedOfTable
<1>3. k \in 0 .. BatSectors(asked) - 1
  BY <1>1, <1>2, WordOf
<1>4. t[k] = At(g, KBatStartSec + k) /\ u[k] = At(file, KBatStartSec + k)
  <2>1. FileShape(g) BY DEF Wrote
  <2>2. \A j \in 0 .. BatSectors(asked) - 1 : TableOf(g, asked)[j] = At(g, KBatStartSec + j)
    BY <2>1, TableOfIs, Zenon
  <2>3. \A j \in 0 .. BatSectors(asked) - 1 : TableOf(file, asked)[j] = At(file, KBatStartSec + j)
    BY <1>2, TableOfIs, Zenon
  <2> QED BY <1>1, <1>3, <2>2, <2>3
<1>5. t[k] = u[k] \/ (session.open /\ session.cached /\ t[k] = session.table[k])
  BY <1>3, <1>4, TableSectors
<1>6. /\ Entry(t, b) = EntryIn(t[k], i) /\ Entry(u, b) = EntryIn(u[k], i)
      /\ Entry(session.table, b) = EntryIn(session.table[k], i)
  BY <1>1 DEF Entry
<1>7. session.open /\ session.cached => Current = session.table
  BY DEF Current
<1>8. Entry(t, b) = Entry(u, b) \/ Entry(t, b) = Entry(Current, b)
  BY <1>5, <1>6, <1>7
<1> QED BY <1>1, <1>8, Zenon

(* The table that is written out at last is the table of the session. *)
LEMMA TableWritten ==
  ASSUME Shape, MadeInv, MadeTable, call.pc = "FlushBat", session.dirty, Written, NEW b \in Blocks(asked)
  PROVE  Entry(TableOf(file', asked), b) = Entry(session.table, b)
<1>1. PICK k, i, t, g : /\ k = b \div EntriesPerSector /\ i = b % EntriesPerSector
                        /\ t = TableOf(g, asked) /\ g = file'
  OBVIOUS
<1>2. asked \in Requests /\ RequestValid(asked) /\ FileShape(g) /\ WritesAll(file, g, Pending)
  BY <1>1, AskedOfTable, WrittenShape
<1>3. k \in 0 .. BatSectors(asked) - 1
  BY <1>1, <1>2, WordOf
<1>4. t[k] = At(g, KBatStartSec + k)
  <2>1. \A j \in 0 .. BatSectors(asked) - 1 : TableOf(g, asked)[j] = At(g, KBatStartSec + j)
    BY <1>2, TableOfIs, Zenon
  <2> QED BY <1>1, <1>3, <2>1
<1>5. KBatStartSec + k \in DOMAIN Pending /\ Pending[KBatStartSec + k] = session.table[k]
  BY <1>3, TablePending
<1>6. Pending # <<>>
  <2>1. DOMAIN <<>> = {} OBVIOUS
  <2> QED BY <1>5, <2>1
<1>7. At(g, KBatStartSec + k) = session.table[k]
  BY <1>2, <1>5, <1>6 DEF WritesAll, WroteAll
<1>8. Entry(t, b) = EntryIn(t[k], i) /\ Entry(session.table, b) = EntryIn(session.table[k], i)
  BY <1>1 DEF Entry
<1>9. Entry(t, b) = Entry(session.table, b)
  BY <1>4, <1>7, <1>8
<1> QED BY <1>1, <1>9, Zenon

(* The block at p is not in the way of any write that the state may make. *)
Spared(p) ==
  /\ p \in Nat /\ p >= KFooterSec(asked) /\ InFile(file, p, asked)
  /\ call.pc = "AppendBitmap" => p + BlockLen(asked) <= call.place
  /\ call.pc = "WriteData" => call.place = p \/ Clear(call.place, p, asked)
  /\ session.open => \A e \in session.bits : e = p \/ Clear(e, p, asked)

LEMMA BlockKept ==
  ASSUME Shape, MadeInv, MadeTable, NEW p, Spared(p), NEW g, Wrote(file, g, Pending)
  PROVE  InFile(g, p, asked)
<1>1. /\ asked \in Requests /\ RequestValid(asked) /\ asked.type # "Fixed" /\ made
      /\ KFooterSec(asked) \in Nat /\ TableEnd(asked) = 3 + BatSectors(asked)
      /\ BatSectors(asked) \in Nat /\ TableEnd(asked) <= KFooterSec(asked)
      /\ Low(asked) = KFooterSec(asked) /\ file.size \in Nat
      /\ SBmp_SizeInSectors(asked) \in Nat \ {0} /\ SectorsPerBlock(asked) \in Nat \ {0}
      /\ BlockLen(asked) = SBmp_SizeInSectors(asked) + SectorsPerBlock(asked)
  BY AskedOfTable
<1>2. PICK m, n, d : m = SBmp_SizeInSectors(asked) /\ n = BlockLen(asked) /\ d = SectorsPerBlock(asked)
  OBVIOUS
<1>3. m \in Nat \ {0} /\ d \in Nat \ {0} /\ n = m + d
  BY <1>1, <1>2
<1>4. p \in Nat /\ p >= KFooterSec(asked) /\ p + n + 1 <= file.size
  BY <1>2 DEF Spared, InFile
<1>5. g.size \in Nat /\ file.size <= g.size
  BY DEF Wrote, FileShape
<1>6. ASSUME NEW s \in p .. p + m - 1 PROVE At(g, s).kind = "Bitmap"
  <2>1. s \in Nat /\ s >= p /\ s < p + m /\ s < file.size
    BY <1>1, <1>3, <1>4
  <2>2. At(file, s).kind = "Bitmap"
    BY <1>2 DEF Spared, InFile, HasBitmap
  <2>3. s \notin DOMAIN Pending => At(g, s) = At(file, s)
    BY DEF Wrote
  <2>4. CASE call.pc = "AppendFooter"
    <3>1. DOMAIN Pending = {call.place + n} /\ call.place \in Nat
      BY <1>2, <2>4, FooterPending
    <3>2. call.place = file.size - 1
      BY <2>4 DEF Shape, CallShape, AppendShape
    <3> QED BY <1>1, <1>3, <2>1, <2>2, <2>3, <3>1, <3>2
  <2>5. CASE call.pc = "AppendBitmap"
    <3>1. Pending = BitmapAt(call.place) /\ call.place \in Nat
      BY <2>5, BitmapPending
    <3>2. DOMAIN Pending = call.place .. call.place + m - 1
      BY <1>1, <1>2, <3>1, BitmapRun
    <3>3. p + n <= call.place
      BY <1>2, <2>5 DEF Spared
    <3> QED BY <1>3, <1>4, <2>1, <2>2, <2>3, <3>1, <3>2, <3>3
  <2>6. CASE call.pc = "WriteData"
    <3>1. DOMAIN Pending = {call.place + m}
      BY <1>2, <2>6, DataPending
    <3>2. call.place \in Nat
      BY <2>6 DEF Shape, CallShape, AppendShape
    <3>3. call.place = p \/ call.place + n <= p \/ p + n <= call.place
      BY <1>2, <2>6 DEF Spared, Clear
    <3>4. call.place + m # s
      BY <1>3, <1>4, <2>1, <3>2, <3>3
    <3> QED BY <2>2, <2>3, <3>1, <3>4
  <2>7. CASE call.pc = "FlushBat" /\ session.dirty
    <3>1. DOMAIN Pending = KBatStartSec .. KBatStartSec + BatSectors(asked) - 1
      BY <2>7, TablePending
    <3> QED BY <1>1, <1>4, <2>1, <2>2, <2>3, <3>1, Constants
  <2>8. CASE call.pc = "FlushBits" /\ call.bits # {}
    <3>1. PICK e : e = CHOOSE q \in call.bits : TRUE OBVIOUS
    <3>2. e \in session.bits /\ e \in Nat /\ Pending = BitmapAt(e)
      BY <2>8, <3>1, BitsPending
    <3>3. /\ DOMAIN Pending = e .. e + m - 1
          /\ \A t \in DOMAIN Pending : Pending[t] = Plain("Bitmap")
      BY <1>1, <1>2, <3>2, BitmapRun
    <3>4. session.open
      BY <2>8, FlushCall
    <3>5. e = p \/ e + n <= p \/ p + n <= e
      BY <1>2, <3>2, <3>4 DEF Spared, Clear
    <3>6. CASE s \in DOMAIN Pending
      <4>1. At(g, s) = At(file, s) \/ At(g, s) = Pending[s]
        BY <1>1, <2>1, <3>6 DEF Wrote
      <4>2. Pending[s].kind = "Bitmap"
        BY <3>3, <3>6, KindOfPlain
      <4> QED BY <2>2, <4>1, <4>2
    <3> QED BY <2>2, <2>3, <3>6
  <2>9. CASE /\ call.pc # "AppendFooter" /\ call.pc # "AppendBitmap" /\ call.pc # "WriteData"
             /\ ~(call.pc = "FlushBat" /\ session.dirty) /\ ~(call.pc = "FlushBits" /\ call.bits # {})
    <3>1. call.pc # "Generate"
      BY <1>1 DEF Shape, CallShape, CreateShape
    <3>2. Pending = <<>>
      BY <2>9, <3>1 DEF Pending
    <3>3. DOMAIN <<>> = {}
      OBVIOUS
    <3> QED BY <2>2, <2>3, <3>2, <3>3
  <2> QED BY <2>4, <2>5, <2>6, <2>7, <2>8, <2>9
<1>7. p + n + 1 <= g.size
  BY <1>1, <1>3, <1>4, <1>5
<1> QED BY <1>2, <1>6, <1>7 DEF InFile, HasBitmap

-----------------------------------------------------------------------------
(* What a step does with the table that is in force, and with what is noted    *)

TableMove ==
  \/ Current' = Current
  \/ ~(session'.open /\ session'.cached) /\ Current' = TableOf(file', asked)
  \/ call.pc = "AppendBitmap" /\ Written /\ Current' = WithEntry(Current, call.block, call.place)

BitsMove ==
  session'.open => \A e \in session'.bits :
    (session.open /\ e \in session.bits) \/ (call.pc = "WriteData" /\ e = call.place)

PlaceMove ==
  call'.pc = "AppendBitmap" =>
    call.pc = "AppendFooter" /\ Current' = Current /\ call'.place = file.size - 1

CleanMove ==
  session'.open /\ session'.cached /\ ~session'.dirty =>
    \/ session.open /\ session.cached /\ ~session.dirty /\ session'.table = session.table
    \/ Tables(session'.table, TableOf(file', asked), asked)

FailMove ==
  call'.pc = "FlushBits" /\ ~call'.failed =>
    \/ ~session'.dirty
    \/ call.pc = "FlushBits" /\ ~call.failed /\ session'.dirty = session.dirty

Moves == TableMove /\ BitsMove /\ PlaceMove /\ CleanMove /\ FailMove

(* The session is closed, or was not open. *)
LEMMA ClosedMoves ==
  ASSUME asked' = asked, ~session'.open, call'.pc \notin {"AppendBitmap", "FlushBits"} PROVE Moves
<1>1. Current' = TableOf(file', asked) BY DEF Current
<1> QED BY <1>1 DEF Moves, TableMove, BitsMove, PlaceMove, CleanMove, FailMove

(* The session stays, or its lists are changed, while its table stays. *)
LEMMA HeldMoves ==
  ASSUME asked' = asked, session.open, session'.open, session'.cached = session.cached,
         session'.table = session.table, session.cached \/ file' = file,
         BitsMove, PlaceMove \/ call'.pc # "AppendBitmap", CleanMove \/ session'.dirty = session.dirty,
         FailMove \/ call'.pc # "FlushBits"
  PROVE  Moves
<1>1. Current' = Current BY DEF Current
<1>2. CleanMove
  <2>1. CASE session'.dirty = session.dirty BY <2>1 DEF CleanMove
  <2> QED BY <2>1
<1>3. PlaceMove /\ FailMove BY Zenon DEF PlaceMove, FailMove
<1> QED BY <1>1, <1>2, <1>3, Zenon DEF Moves, TableMove

LEMMA SameMoves ==
  ASSUME asked' = asked, session.open, session' = session, session.cached \/ file' = file,
         PlaceMove \/ call'.pc # "AppendBitmap", FailMove \/ call'.pc # "FlushBits"
  PROVE  Moves
<1>1. BitsMove BY Zenon DEF BitsMove
<1> QED BY <1>1, HeldMoves

LEMMA WriteBlockMoves == ASSUME Shape, NEW b \in Blocks(asked), WriteBlock(b) PROVE Moves
<1>1. PICK t : t = IF session.cached THEN session.table ELSE TableOf(file, asked) OBVIOUS
<1>2. /\ UNCHANGED fileVars /\ session.open /\ asked.type # "Fixed"
      /\ Holds(session', TRUE, t, session.dirty, session.bits)
      /\ call'.pc \in {"AppendBlock", "WriteData"}
  BY <1>1, WriteBlockDoes
<1>3. /\ session'.open /\ session'.cached /\ session'.table = t
      /\ session'.dirty = session.dirty /\ session'.bits = session.bits
  BY <1>2, Zenon DEF Holds
<1>4. file' = file /\ asked' = asked BY <1>2 DEF fileVars
<1>5. Current' = t BY <1>3 DEF Current
<1>6. Current = t BY <1>1, <1>2 DEF Current
<1>7. TableMove BY <1>5, <1>6, Zenon DEF TableMove
<1>8. BitsMove BY <1>2, <1>3 DEF BitsMove
<1>9. PlaceMove /\ FailMove BY <1>2 DEF PlaceMove, FailMove
<1>10. CleanMove
  <2>1. CASE session.cached
    BY <1>1, <1>2, <1>3, <2>1 DEF CleanMove
  <2>2. CASE ~session.cached
    <3>1. session'.table = TableOf(file', asked)
      BY <1>1, <1>3, <1>4, <2>2
    <3>2. Tables(session'.table, TableOf(file', asked), asked)
      BY <3>1, Zenon DEF Tables
    <3> QED BY <3>2, Zenon DEF CleanMove
  <2> QED BY <2>1, <2>2
<1> QED BY <1>7, <1>8, <1>9, <1>10, Zenon DEF Moves

LEMMA AppendMoves ==
  ASSUME Shape, AppendBlock \/ AppendFooter PROVE Moves
<1>1. CASE AppendBlock
  <2>1. call.pc = "AppendBlock" /\ UNCHANGED <<fileVars, session>> /\ call'.pc \in {"none", "AppendFooter"}
    BY <1>1, AppendBlockDoes, NotOpened
  <2>2. session.open /\ session.cached BY <2>1, BlockCall
  <2> QED BY <2>1, <2>2, SameMoves DEF fileVars
<1>2. CASE AppendFooter
  <2>1. /\ call.pc = "AppendFooter" /\ session' = session
        /\ \/ NotWritten /\ call' = NoCall
           \/ Written /\ call'.pc = "AppendBitmap" /\ call'.place = call.place
    BY <1>2, AppendFooterDoes
  <2>2. session.open /\ session.cached BY <2>1, BlockCall
  <2>3. asked' = asked BY <2>1 DEF Written, NotWritten, OnlyFile
  <2>4. PlaceMove \/ call'.pc # "AppendBitmap"
    <3>1. Current' = Current BY <2>1, <2>2 DEF Current
    <3>2. call.place = file.size - 1 BY <2>1 DEF Shape, CallShape, AppendShape
    <3> QED BY <2>1, <3>1, <3>2, NotOpened DEF PlaceMove
  <2>5. call'.pc # "FlushBits" BY <2>1, NotOpened
  <2> QED BY <2>1, <2>2, <2>3, <2>4, <2>5, SameMoves
<1> QED BY <1>1, <1>2

LEMMA AppendBitmapMoves == ASSUME Shape, AppendBitmap PROVE Moves
<1>1. PICK u : u = WithEntry(session.table, call.block, call.place) OBVIOUS
<1>2. /\ call.pc = "AppendBitmap"
      /\ \/ NotWritten /\ call' = NoCall /\ session' = session
         \/ /\ Written /\ call'.pc = "WriteData" /\ call'.place = call.place
            /\ Holds(session', TRUE, u, TRUE, session.bits)
  BY <1>1, AppendBitmapDoes
<1>3. session.open /\ session.cached BY <1>2, BlockCall
<1>4. asked' = asked BY <1>2 DEF Written, NotWritten, OnlyFile
<1>5. CASE NotWritten /\ call' = NoCall /\ session' = session
  BY <1>3, <1>4, <1>5, NotOpened, SameMoves
<1>6. CASE /\ Written /\ call'.pc = "WriteData" /\ call'.place = call.place
           /\ Holds(session', TRUE, u, TRUE, session.bits)
  <2>1. session'.open /\ session'.cached /\ session'.table = u /\ session'.dirty /\ session'.bits = session.bits
    BY <1>6, Zenon DEF Holds
  <2>2. Current' = u /\ Current = session.table
    BY <1>3, <2>1 DEF Current
  <2>3. TableMove
    BY <1>1, <1>2, <1>6, <2>2, Zenon DEF TableMove
  <2>4. BitsMove /\ PlaceMove /\ CleanMove /\ FailMove
    BY <1>3, <1>6, <2>1 DEF BitsMove, PlaceMove, CleanMove, FailMove
  <2> QED BY <2>3, <2>4, Zenon DEF Moves
<1> QED BY <1>2, <1>5, <1>6

LEMMA WriteDataMoves == ASSUME Shape, WriteData PROVE Moves
<1>1. /\ call.pc = "WriteData"
      /\ \/ NotWritten /\ call' = NoCall /\ session' = session
         \/ /\ Written /\ Holds(session', TRUE, session.table, session.dirty, session.bits \cup {call.place})
            /\ call' = NoCall \/ (call'.pc = "FlushBat" /\ call'.failed = FALSE)
  BY WriteDataDoes
<1>2. session.open /\ session.cached = TRUE
  <2>1. session = [open |-> TRUE, cached |-> TRUE, table |-> session.table,
                   dirty |-> session.dirty, bits |-> session.bits]
    BY <1>1, BlockCall
  <2> QED BY <2>1
<1>3. asked' = asked BY <1>1 DEF Written, NotWritten, OnlyFile
<1>4. CASE NotWritten /\ call' = NoCall /\ session' = session
  BY <1>2, <1>3, <1>4, NotOpened, SameMoves
<1>5. CASE /\ Holds(session', TRUE, session.table, session.dirty, session.bits \cup {call.place})
           /\ call' = NoCall \/ (call'.pc = "FlushBat" /\ call'.failed = FALSE)
  <2>1. /\ session'.open /\ session'.cached = TRUE /\ session'.table = session.table
        /\ session'.dirty = session.dirty /\ session'.bits = session.bits \cup {call.place}
    BY <1>5, Zenon DEF Holds
  <2>2. BitsMove BY <1>1, <1>2, <2>1 DEF BitsMove
  <2>3. call'.pc \notin {"AppendBitmap", "FlushBits"} BY <1>5, NotOpened
  <2>4. session'.cached = session.cached BY <1>2, <2>1
  <2> QED BY <1>2, <1>3, <2>1, <2>2, <2>3, <2>4, HeldMoves
<1> QED BY <1>1, <1>4, <1>5

LEMMA FlushBatMoves ==
  ASSUME Shape, MadeInv, MadeTable, FlushBat PROVE Moves
<1>1. /\ call.pc = "FlushBat" /\ session.open /\ call'.pc = "FlushBits"
      /\ \/ /\ session.dirty /\ NotWritten /\ session' = session /\ call'.failed = TRUE
         \/ /\ Written /\ call'.failed = call.failed
            /\ Holds(session', session.cached, session.table, FALSE, session.bits)
  BY FlushBatDoes
<1>2. asked' = asked BY <1>1 DEF Written, NotWritten, OnlyFile
<1>3. session.dirty => session.cached BY <1>1, OpenSession
<1>4. CASE session.dirty /\ NotWritten /\ session' = session /\ call'.failed = TRUE
  <2>1. FailMove BY <1>4 DEF FailMove
  <2> QED BY <1>1, <1>2, <1>3, <1>4, <2>1, SameMoves
<1>5. CASE Written /\ Holds(session', session.cached, session.table, FALSE, session.bits)
  <2>1. /\ session'.open /\ session'.cached = session.cached /\ session'.table = session.table
        /\ ~session'.dirty /\ session'.bits = session.bits
    BY <1>5, Zenon DEF Holds
  <2>2. BitsMove BY <1>1, <2>1 DEF BitsMove
  <2>3. FailMove BY <2>1 DEF FailMove
  <2>4. session.dirty \/ file' = file
    <3>1. ASSUME ~session.dirty PROVE file' = file
      <4>1. Pending = <<>> BY <1>1, <3>1 DEF Pending
      <4> QED BY <1>5, <4>1, WrittenShape DEF WritesAll
    <3> QED BY <3>1
  <2>5. CleanMove
    <3>1. CASE session.dirty
      <4>1. \A b \in Blocks(asked) : Entry(TableOf(file', asked), b) = Entry(session.table, b)
        BY <1>1, <1>5, <3>1, TableWritten
      <4>2. Tables(session'.table, TableOf(file', asked), asked)
        BY <2>1, <4>1, Zenon DEF Tables
      <4> QED BY <4>2, Zenon DEF CleanMove
    <3>2. CASE ~session.dirty
      BY <1>1, <2>1, <3>2 DEF CleanMove
    <3> QED BY <3>1, <3>2
  <2> QED BY <1>1, <1>2, <1>3, <2>1, <2>2, <2>3, <2>4, <2>5, HeldMoves
<1> QED BY <1>1, <1>4, <1>5

LEMMA FlushBitsMoves == ASSUME Shape, FlushBits PROVE Moves
<1>1. PICK p : p = CHOOSE q \in call.bits : TRUE OBVIOUS
<1>2. /\ call.pc = "FlushBits" /\ session.open /\ call'.pc = "FlushBits" /\ p \in session.bits
      /\ \/ NotWritten /\ session' = session /\ call'.failed = TRUE
         \/ /\ Written /\ call'.failed = call.failed
            /\ Holds(session', session.cached, session.table, session.dirty, session.bits \ {p})
  BY <1>1, FlushBitsDoes
<1>3. asked' = asked BY <1>2 DEF Written, NotWritten, OnlyFile
<1>4. session.cached
  <2>1. session.bits # {} BY <1>2
  <2> QED BY <1>2, <2>1, OpenSession
<1>5. CASE NotWritten /\ session' = session /\ call'.failed = TRUE
  <2>1. FailMove BY <1>5 DEF FailMove
  <2> QED BY <1>2, <1>3, <1>4, <1>5, <2>1, SameMoves
<1>6. CASE /\ call'.failed = call.failed
           /\ Holds(session', session.cached, session.table, session.dirty, session.bits \ {p})
  <2>1. /\ session'.open /\ session'.cached = session.cached /\ session'.table = session.table
        /\ session'.dirty = session.dirty /\ session'.bits = session.bits \ {p}
    BY <1>6, Zenon DEF Holds
  <2>2. BitsMove BY <1>2, <2>1 DEF BitsMove
  <2>3. FailMove BY <1>2, <1>6, <2>1 DEF FailMove
  <2> QED BY <1>2, <1>3, <1>4, <2>1, <2>2, <2>3, HeldMoves
<1> QED BY <1>2, <1>5, <1>6

(* Every step but the loss of power *)
LEMMA StepsMove ==
  ASSUME Shape, MadeInv, MadeTable, [Next]_vars, ~PowerFails
  PROVE  Moves \/ UNCHANGED vars
<1>0. made BY DEF MadeTable
<1>1. CASE VHD_Open
  <2>1. asked' = asked /\ ~session'.open /\ call'.pc = "Open" BY <1>1 DEF VHD_Open, fileVars
  <2> QED BY <2>1, ClosedMoves
<1>2. CASE Open
  <2>1. UNCHANGED fileVars /\ call'.pc = "none" /\ ~session.open BY <1>2, OpenDoes, NotOpened
  <2>2. CASE session' = Closed
    BY <2>1, <2>2, NotOpened, ClosedMoves DEF fileVars
  <2>3. CASE Holds(session', FALSE, <<>>, FALSE, {})
    <3>1. session'.open /\ ~session'.cached /\ session'.bits = {} BY <2>3, Zenon DEF Holds
    <3>2. Current' = TableOf(file', asked) BY <2>1, <3>1 DEF Current, fileVars
    <3> QED BY <2>1, <3>1, <3>2 DEF Moves, TableMove, BitsMove, PlaceMove, CleanMove, FailMove
  <2> QED BY <1>2, <2>2, <2>3, OpenDoes
<1>3. CASE \E why : VHD_Flush(why)
  <2>1. UNCHANGED <<fileVars, session>> /\ session.open /\ call'.pc = "FlushBat" BY <1>3, FlushDoes
  <2> QED BY <2>1, SameMoves DEF fileVars
<1>4. CASE Sync
  <2>1. /\ call.pc = "FlushBits" /\ session.open /\ call'.pc = "none"
        /\ session' = session \/ session' = Closed
        /\ file' = file /\ asked' = asked
    BY <1>4, SyncDoes, NotOpened
  <2>2. CASE session' = session BY <2>1, <2>2, SameMoves
  <2>3. CASE session' = Closed BY <2>1, <2>3, NotOpened, ClosedMoves
  <2> QED BY <2>1, <2>2, <2>3
<1>5. CASE ProcessDies
  <2>1. session' = Closed /\ call' = NoCall /\ asked' = asked BY <1>5 DEF ProcessDies, OnlyFile
  <2> QED BY <2>1, NotOpened, ClosedMoves
<1> QED BY <1>0, <1>1, <1>2, <1>3, <1>4, <1>5, ActionsOfMade, WriteBlockMoves, AppendMoves,
           AppendBitmapMoves, WriteDataMoves, FlushBatMoves, FlushBitsMoves

-----------------------------------------------------------------------------
(* Before the power fails: the blocks of the table that is in force are in the *)
(* file, apart from each other, and the table of the file has no others.      *)

Laid(t, f, r) == AllIn(t, f, r) /\ Separate(t, r) /\ Tables(TableOf(f, r), t, r)

(* What was synced is in the table on the disk, and in that of the file. *)
SyncedBlocks ==
  /\ ~sound => synced = <<>>
  /\ sound =>
       /\ Tables(TableOf(durable, asked), TableOf(file, asked), asked)
       /\ durable.size <= file.size
       /\ \A b \in DOMAIN synced :
            /\ b \in Blocks(asked) /\ synced[b] # Unused
            /\ Entry(TableOf(durable, asked), b) = synced[b]
            /\ InFile(durable, synced[b], asked)

BlocksInv ==
  MadeTable /\ ~cut =>
    /\ Laid(Current, file, asked)
    /\ call.pc = "AppendBitmap" => AllBefore(Current, call.place, asked)
    /\ session.open /\ session.cached /\ ~session.dirty =>
         Tables(session.table, TableOf(file, asked), asked)
    /\ session.open => \A p \in session.bits : InTable(session.table, p, asked)
    /\ call.pc = "FlushBits" /\ ~call.failed => ~session.dirty
    /\ SyncedBlocks

(* Nothing is synced of a file that is not made, nor of a fixed disk. *)
StartInv ==
  ~file.exists \/ call.pc \in {"OpenParent", "Generate"} \/ asked.type = "Fixed" => synced = <<>>

LEMMA LaidClosed ==
  ASSUME NEW r, NEW f, NEW t, Laid(t, f, r)
  PROVE  Laid(TableOf(f, r), f, r)
<1>1. PICK u : u = TableOf(f, r) OBVIOUS
<1>2. AllIn(t, f, r) /\ Separate(t, r) /\ Tables(u, t, r) BY <1>1, Zenon DEF Laid
<1>3. AllIn(u, f, r) BY <1>2 DEF AllIn, Tables
<1>4. Separate(u, r)
  <2> SUFFICES ASSUME NEW b \in Blocks(r), NEW c \in Blocks(r), b # c, Entry(u, b) # Unused, Entry(u, c) # Unused
      PROVE  Clear(Entry(u, b), Entry(u, c), r)
    BY Zenon DEF Separate
  <2>1. Entry(u, b) = Entry(t, b) /\ Entry(u, c) = Entry(t, c) BY <1>2 DEF Tables
  <2>2. Clear(Entry(t, b), Entry(t, c), r) BY <1>2, <2>1 DEF Separate
  <2> QED BY <2>1, <2>2
<1>5. Tables(u, u, r) BY Zenon DEF Tables
<1> QED BY <1>1, <1>3, <1>4, <1>5, Zenon DEF Laid

(* The place that is written to is one of the table in force. *)
LEMMA PlaceOfBlock ==
  ASSUME Shape, call.pc = "WriteData"
  PROVE  /\ call.place \in Nat /\ call.place # Unused /\ call.block \in Blocks(asked)
         /\ call.place = Entry(Current, call.block) /\ Current = session.table
<1>1. session.open /\ session.cached /\ call.block \in Blocks(asked) BY BlockCall
<1>2. call.place \in Nat /\ call.place = Entry(session.table, call.block)
  BY DEF Shape, CallShape, AppendShape
<1>3. Current = session.table BY <1>1 DEF Current
<1>4. call.place # Unused BY <1>2, Constants
<1> QED BY <1>1, <1>2, <1>3, <1>4

LEMMA SparedBlocks ==
  ASSUME Shape, MadeInv, MadeTable, BlocksInv, ~cut, NEW b \in Blocks(asked), Entry(Current, b) # Unused
  PROVE  Spared(Entry(Current, b))
<1>1. PICK p : p = Entry(Current, b) OBVIOUS
<1>2. /\ AllIn(Current, file, asked) /\ Separate(Current, asked)
      /\ call.pc = "AppendBitmap" => AllBefore(Current, call.place, asked)
      /\ session.open => \A e \in session.bits : InTable(session.table, e, asked)
  BY DEF BlocksInv, Laid
<1>3. p \in Nat /\ p >= KFooterSec(asked)
  BY <1>1, EntriesArePlaces DEF IsPlace
<1>4. InFile(file, p, asked) BY <1>1, <1>2 DEF AllIn
<1>5. call.pc = "AppendBitmap" => p + BlockLen(asked) <= call.place
  BY <1>1, <1>2 DEF AllBefore
<1>6. ASSUME NEW c \in Blocks(asked), Entry(Current, c) # Unused
      PROVE  Entry(Current, c) = p \/ Clear(Entry(Current, c), p, asked)
  BY <1>1, <1>2, <1>6 DEF Separate
<1>7. call.pc = "WriteData" => call.place = p \/ Clear(call.place, p, asked)
  BY <1>6, PlaceOfBlock
<1>8. ASSUME session.open, NEW e \in session.bits PROVE e = p \/ Clear(e, p, asked)
  <2>1. session.cached
    <3>1. session.bits # {} BY <1>8
    <3> QED BY <1>8, <3>1, OpenSession
  <2>2. Current = session.table BY <1>8, <2>1 DEF Current
  <2>3. PICK c \in Blocks(asked) : e = Entry(Current, c) /\ e # Unused
    BY <1>2, <1>8, <2>2, Zenon DEF InTable
  <2> QED BY <1>6, <2>3
<1>9. Spared(p) BY <1>3, <1>4, <1>5, <1>7, <1>8 DEF Spared
<1> QED BY <1>1, <1>9, Zenon

(* A write that is finished or not leaves every block, and adds none. *)
LEMMA LaidKept ==
  ASSUME Shape, MadeInv, MadeTable, BlocksInv, ~cut, NEW g, Wrote(file, g, Pending)
  PROVE  Laid(Current, g, asked)
<1>1. Separate(Current, asked) /\ Tables(TableOf(file, asked), Current, asked)
  BY DEF BlocksInv, Laid
<1>2. AllIn(Current, g, asked)
  <2> SUFFICES ASSUME NEW b \in Blocks(asked), Entry(Current, b) # Unused
      PROVE  InFile(g, Entry(Current, b), asked)
    BY Zenon DEF AllIn
  <2>1. Spared(Entry(Current, b)) BY SparedBlocks
  <2> QED BY <2>1, BlockKept, Zenon
<1>3. Tables(TableOf(g, asked), Current, asked)
  <2> SUFFICES ASSUME NEW b \in Blocks(asked)
      PROVE  Entry(TableOf(g, asked), b) = Unused \/ Entry(TableOf(g, asked), b) = Entry(Current, b)
    BY Zenon DEF Tables
  <2>1. \/ Entry(TableOf(g, asked), b) = Entry(TableOf(file, asked), b)
        \/ Entry(TableOf(g, asked), b) = Entry(Current, b)
    BY EntriesKept, Zenon
  <2>2. Entry(TableOf(file, asked), b) = Unused \/ Entry(TableOf(file, asked), b) = Entry(Current, b)
    BY <1>1, Zenon DEF Tables
  <2> QED BY <2>1, <2>2, Zenon
<1> QED BY <1>1, <1>2, <1>3, Zenon DEF Laid

(* The block that is appended is behind all others. *)
LEMMA LaidAppended ==
  ASSUME Shape, MadeInv, MadeTable, BlocksInv, ~cut, call.pc = "AppendBitmap", Written,
         NEW u, u = WithEntry(Current, call.block, call.place)
  PROVE  /\ Laid(u, file', asked) /\ call.block \in Blocks(asked)
         /\ Entry(Current, call.block) = Unused /\ Others(Current, u, asked, call.block)
<1>1. PICK t, b, p, r, g : t = Current /\ b = call.block /\ p = call.place /\ r = asked /\ g = file'
  OBVIOUS
<1>2. session.open /\ session.cached /\ b \in Blocks(r) /\ TableShape(t, r) /\ Entry(t, b) = Unused /\ p \in Nat
  <2>1. session.open /\ session.cached /\ call.block \in Blocks(asked) /\ TableShape(session.table, asked)
    BY BlockCall
  <2>2. call.place \in Nat /\ Entry(session.table, call.block) = Unused
    BY DEF Shape, CallShape, AppendShape
  <2>3. Current = session.table BY <2>1 DEF Current
  <2> QED BY <1>1, <2>1, <2>2, <2>3
<1>3. r \in Requests /\ RequestValid(r) /\ Entry(t, b) # NoPlace
  BY <1>1, <1>2, AskedOfTable, Constants
<1>4. Entry(u, b) = p /\ Others(t, u, r, b)
  <2>1. u = WithEntry(t, b, p) BY <1>1
  <2>2. r \in Requests BY <1>3
  <2>3. RequestValid(r) /\ Entry(t, b) # NoPlace BY <1>3
  <2>4. TableShape(t, r) /\ p \in Nat BY <1>2
  <2>5. b \in Blocks(r) BY <1>2
  <2>6. Others(t, u, r, b) /\ TableShape(u, r) /\ Words(t, u, r, p)
    BY ONLY <2>1, <2>2, <2>3, <2>4, <2>5, WithEntryIs, Zenon
  <2>7. Entry(u, b) = p
    BY ONLY <2>1, <2>2, <2>3, <2>4, <2>5, WithEntryIs, SMT
  <2> QED BY <2>6, <2>7
<1>5. WritesAll(file, g, Pending) BY <1>1, WrittenShape
<1>6. Laid(t, g, r) /\ AllBefore(t, p, r)
  <2>1. Wrote(file, g, Pending) BY <1>5 DEF WritesAll
  <2>2. Laid(Current, g, asked) BY <2>1, LaidKept, Zenon
  <2>3. AllBefore(Current, call.place, asked) BY DEF BlocksInv
  <2> QED BY <1>1, <2>2, <2>3
<1>7. InFile(g, p, r)
  <2>1. /\ Pending = BitmapAt(p)
        /\ DOMAIN Pending = p .. p + SBmp_SizeInSectors(r) - 1
        /\ \A s \in DOMAIN Pending : Pending[s] = Plain("Bitmap")
    BY <1>1, <1>2, BitmapPending, BitmapRun
  <2>2. Pending # <<>>
    <3>1. SBmp_SizeInSectors(r) \in Nat \ {0} BY <1>3, Numbers
    <3>2. p \in DOMAIN Pending BY <1>2, <2>1, <3>1
    <3>3. DOMAIN <<>> = {} OBVIOUS
    <3> QED BY <3>2, <3>3
  <2>3. \A s \in DOMAIN Pending : At(g, s) = Plain("Bitmap")
    BY <1>5, <2>1, <2>2 DEF WritesAll, WroteAll
  <2>4. HasBitmap(g, p, r) BY <2>1, <2>3, KindOfPlain DEF HasBitmap
  <2>5. p + BlockLen(r) + 1 <= g.size
    <3>1. p + BlockLen(r) + 1 = file.size BY <1>1 DEF Shape, CallShape, AppendShape
    <3>2. file.size <= g.size BY <1>5 DEF WritesAll, Wrote
    <3> QED BY <3>1, <3>2
  <2> QED BY <2>4, <2>5 DEF InFile
<1>8. AllIn(u, g, r)
  <2> SUFFICES ASSUME NEW c \in Blocks(r), Entry(u, c) # Unused PROVE InFile(g, Entry(u, c), r)
    BY Zenon DEF AllIn
  <2>1. CASE c = b BY <1>4, <1>7, <2>1
  <2>2. CASE c # b
    <3>1. Entry(u, c) = Entry(t, c) BY <1>4, <2>2 DEF Others
    <3> QED BY <1>6, <3>1 DEF Laid, AllIn
  <2> QED BY <2>1, <2>2
<1>9. Separate(u, r)
  <2>1. ASSUME NEW c \in Blocks(r), c # b, Entry(u, c) # Unused
        PROVE  Clear(Entry(u, c), p, r) /\ Clear(p, Entry(u, c), r) /\ Entry(u, c) = Entry(t, c)
    <3>1. Entry(u, c) = Entry(t, c) BY <1>4, <2>1 DEF Others
    <3>2. Entry(u, c) + BlockLen(r) <= p BY <1>6, <2>1, <3>1 DEF AllBefore
    <3> QED BY <3>1, <3>2, Zenon DEF Clear
  <2> SUFFICES ASSUME NEW c \in Blocks(r), NEW d \in Blocks(r), c # d, Entry(u, c) # Unused, Entry(u, d) # Unused
      PROVE  Clear(Entry(u, c), Entry(u, d), r)
    BY Zenon DEF Separate
  <2>2. CASE c = b BY <1>4, <2>1, <2>2
  <2>3. CASE d = b BY <1>4, <2>1, <2>3
  <2>4. CASE c # b /\ d # b
    <3>1. Entry(u, c) = Entry(t, c) /\ Entry(u, d) = Entry(t, d) BY <2>1, <2>4
    <3>2. Clear(Entry(t, c), Entry(t, d), r) BY <1>6, <3>1 DEF Laid, Separate
    <3> QED BY <3>1, <3>2
  <2> QED BY <2>2, <2>3, <2>4
<1>10. Tables(TableOf(g, r), u, r)
  <2> SUFFICES ASSUME NEW c \in Blocks(r)
      PROVE  Entry(TableOf(g, r), c) = Unused \/ Entry(TableOf(g, r), c) = Entry(u, c)
    BY Zenon DEF Tables
  <2>1. Entry(TableOf(g, r), c) = Unused \/ Entry(TableOf(g, r), c) = Entry(t, c)
    BY <1>6, Zenon DEF Laid, Tables
  <2>2. CASE c = b BY <1>2, <2>1, <2>2
  <2>3. CASE c # b
    <3>1. Entry(u, c) = Entry(t, c) BY <1>4, <2>3 DEF Others
    <3> QED BY <2>1, <3>1
  <2> QED BY <2>2, <2>3
<1>11. Laid(u, g, r) BY <1>8, <1>9, <1>10, Zenon DEF Laid
<1> QED BY <1>1, <1>2, <1>4, <1>11, Zenon

(* What changes in a step, of a file that was made, when the power does not fail *)
LEMMA StepsOfTable ==
  ASSUME Shape, MadeInv, MadeTable, [Next]_vars, ~PowerFails
  PROVE  /\ UNCHANGED <<asked, made, cut>> /\ Wrote(file, file', Pending) /\ file.size <= file'.size
         /\ (Sync /\ file' = file) \/ UNCHANGED <<durable, sound, synced>>
<1>1. made /\ FileShape(file) BY AskedOfTable
<1>2. UNCHANGED <<asked, made, cut>> /\ Wrote(file, file', Pending)
  <2>1. CASE NothingStep
    <3>1. file' = file /\ UNCHANGED <<asked, made, cut>> BY <2>1 DEF NothingStep, fileVars
    <3>2. Wrote(file, file, Pending) BY <1>1, NothingWritten, Zenon
    <3> QED BY <3>1, <3>2, Zenon
  <2>2. CASE WriteStep
    BY <2>2 DEF WriteStep, OnlyFile
  <2>3. CASE SyncStep
    <3>1. file' = file /\ UNCHANGED <<asked, made, cut>> BY <2>3 DEF SyncStep
    <3>2. Wrote(file, file, Pending) BY <1>1, NothingWritten, Zenon
    <3> QED BY <3>1, <3>2, Zenon
  <2> QED BY <1>1, <2>1, <2>2, <2>3, StepsOfMade, Zenon
<1>3. file.size <= file'.size BY <1>2 DEF Wrote
<1>4. (Sync /\ file' = file) \/ UNCHANGED <<durable, sound, synced>>
  <2>1. AppendFooter \/ AppendBitmap \/ WriteData \/ FlushBat \/ FlushBits => Written \/ NotWritten
    BY DEF AppendFooter, AppendBitmap, WriteData, FlushBat, FlushBits
  <2>2. Written \/ NotWritten => OnlyFile BY DEF Written, NotWritten
  <2>3. ProcessDies => OnlyFile BY DEF ProcessDies
  <2>4. OnlyFile => UNCHANGED <<durable, sound, synced>> BY DEF OnlyFile
  <2>5. VHD_Open \/ Open \/ AppendBlock => UNCHANGED <<durable, sound, synced>>
    BY DEF VHD_Open, Open, AppendBlock, fileVars
  <2>6. ASSUME NEW why, VHD_Flush(why) PROVE UNCHANGED <<durable, sound, synced>>
    BY <2>6 DEF VHD_Flush, fileVars
  <2>7. ASSUME NEW b, WriteBlock(b) PROVE UNCHANGED <<durable, sound, synced>>
    BY <2>7 DEF WriteBlock, fileVars
  <2>8. Sync => file' = file BY DEF Sync
  <2>9. UNCHANGED vars => UNCHANGED <<durable, sound, synced>> BY DEF vars, fileVars
  <2> QED BY <1>1, <2>1, <2>2, <2>3, <2>4, <2>5, <2>6, <2>7, <2>8, <2>9, ActionsOfMade
<1> QED BY <1>2, <1>3, <1>4

(* A step that is no loss of power moves the table as StepsMove has it, or     *)
(* leaves it.                                                                  *)
LEMMA LaidMoves ==
  ASSUME Shape, MadeInv, MadeTable, BlocksInv, ~cut, [Next]_vars, ~PowerFails, TableMove
  PROVE  Laid(Current', file', asked)
<1>1. PICK u, g : u = Current' /\ g = file' OBVIOUS
<1>2. Wrote(file, g, Pending) BY <1>1, StepsOfTable
<1>3. Laid(Current, g, asked) BY <1>2, LaidKept, Zenon
<1>4. CASE Current' = Current
  BY <1>1, <1>3, <1>4
<1>5. CASE Current' = TableOf(file', asked')
  <2>1. asked' = asked BY StepsOfTable
  <2>2. u = TableOf(g, asked) BY <1>1, <1>5, <2>1
  <2>3. Laid(TableOf(g, asked), g, asked) BY <1>3, LaidClosed, Zenon
  <2> QED BY <1>1, <2>2, <2>3
<1>6. CASE call.pc = "AppendBitmap" /\ Written /\ Current' = WithEntry(Current, call.block, call.place)
  <2>1. u = WithEntry(Current, call.block, call.place) BY <1>1, <1>6
  <2>2. Laid(u, file', asked) BY <1>6, <2>1, LaidAppended
  <2> QED BY <1>1, <2>2
<1>7. asked' = asked BY StepsOfTable
<1> QED BY <1>4, <1>5, <1>6, <1>7 DEF TableMove

(* An entry in a table that is held stays. *)
LEMMA EntryStays ==
  ASSUME Shape, MadeInv, MadeTable, BlocksInv, ~cut, [Next]_vars, ~PowerFails, TableMove,
         session'.open, session'.cached, NEW b \in Blocks(asked), Entry(Current, b) # Unused,
         NEW u, u = Current'
  PROVE  Entry(u, b) = Entry(Current, b)
<1>1. CASE Current' = Current BY <1>1
<1>2. CASE call.pc = "AppendBitmap" /\ Written /\ Current' = WithEntry(Current, call.block, call.place)
  <2>1. u = WithEntry(Current, call.block, call.place) BY <1>2
  <2>2. Entry(Current, call.block) = Unused /\ Others(Current, u, asked, call.block)
    BY <1>2, <2>1, LaidAppended
  <2>3. b # call.block BY <2>2
  <2> QED BY <2>2, <2>3 DEF Others
<1> QED BY <1>1, <1>2 DEF TableMove

LEMMA PlaceKept ==
  ASSUME Shape, MadeInv, MadeTable, BlocksInv, ~cut, [Next]_vars, ~PowerFails, PlaceMove
  PROVE  call'.pc = "AppendBitmap" => AllBefore(Current', call'.place, asked)
<1> SUFFICES ASSUME call'.pc = "AppendBitmap" PROVE AllBefore(Current', call'.place, asked)
  OBVIOUS
<1>1. Current' = Current /\ call'.place = file.size - 1 BY DEF PlaceMove
<1>2. PICK t, p : t = Current /\ p = call'.place OBVIOUS
<1>3. AllIn(t, file, asked) BY <1>2 DEF BlocksInv, Laid
<1>4. AllBefore(t, p, asked)
  <2> SUFFICES ASSUME NEW b \in Blocks(asked), Entry(t, b) # Unused PROVE Entry(t, b) + BlockLen(asked) <= p
    BY Zenon DEF AllBefore
  <2>1. Entry(t, b) \in Nat BY <1>2, EntriesArePlaces DEF IsPlace
  <2>2. Entry(t, b) + BlockLen(asked) + 1 <= file.size BY <1>3 DEF AllIn, InFile
  <2>3. BlockLen(asked) \in Nat /\ file.size \in Nat BY AskedOfTable
  <2> QED BY <1>1, <1>2, <2>1, <2>2, <2>3
<1> QED BY <1>1, <1>2, <1>4

LEMMA CleanKept ==
  ASSUME Shape, MadeInv, MadeTable, BlocksInv, ~cut, [Next]_vars, ~PowerFails, CleanMove
  PROVE  session'.open /\ session'.cached /\ ~session'.dirty =>
           Tables(session'.table, TableOf(file', asked), asked)
<1> SUFFICES ASSUME session'.open, session'.cached, ~session'.dirty
    PROVE  Tables(session'.table, TableOf(file', asked), asked)
  OBVIOUS
<1>1. asked' = asked BY StepsOfTable
<1>2. CASE Tables(session'.table, TableOf(file', asked'), asked') BY <1>1, <1>2
<1>3. CASE session.open /\ session.cached /\ ~session.dirty /\ session'.table = session.table
  <2>1. PICK t, g : t = session.table /\ g = file' OBVIOUS
  <2>2. t = Current BY <1>3, <2>1 DEF Current
  <2>3. Tables(t, TableOf(file, asked), asked) BY <1>3, <2>1 DEF BlocksInv
  <2>4. Wrote(file, g, Pending) BY <2>1, StepsOfTable
  <2>5. ASSUME NEW b \in Blocks(asked) PROVE Entry(t, b) = Unused \/ Entry(t, b) = Entry(TableOf(g, asked), b)
    <3>1. Entry(t, b) = Unused \/ Entry(t, b) = Entry(TableOf(file, asked), b)
      BY <2>3, Zenon DEF Tables
    <3>2. \/ Entry(TableOf(g, asked), b) = Entry(TableOf(file, asked), b)
          \/ Entry(TableOf(g, asked), b) = Entry(Current, b)
      BY <2>4, EntriesKept, Zenon
    <3> QED BY <2>2, <3>1, <3>2
  <2>6. Tables(t, TableOf(g, asked), asked) BY <2>5, Zenon DEF Tables
  <2> QED BY <1>3, <2>1, <2>6
<1> QED BY <1>2, <1>3 DEF CleanMove

LEMMA BitsKept ==
  ASSUME Shape, MadeInv, MadeTable, BlocksInv, ~cut, [Next]_vars, ~PowerFails, TableMove, BitsMove
  PROVE  session'.open => \A p \in session'.bits : InTable(session'.table, p, asked)
<1> SUFFICES ASSUME session'.open, NEW p \in session'.bits PROVE InTable(session'.table, p, asked)
  OBVIOUS
<1>1. session'.cached
  <2>1. SessionShape' BY NextKeepsShape DEF Shape
  <2>2. session' # Closed BY NotOpened
  <2>3. session'.bits # {} OBVIOUS
  <2> QED BY <2>1, <2>2, <2>3 DEF SessionShape
<1>2. PICK u : u = Current' OBVIOUS
<1>3. u = session'.table BY <1>1, <1>2 DEF Current
<1>4. \E b \in Blocks(asked) : p = Entry(Current, b) /\ p # Unused
  <2>1. CASE session.open /\ p \in session.bits
    <3>1. session.cached
      <4>1. session.bits # {} BY <2>1
      <4> QED BY <2>1, <4>1, OpenSession
    <3>2. Current = session.table BY <2>1, <3>1 DEF Current
    <3>3. InTable(session.table, p, asked) BY <2>1 DEF BlocksInv
    <3> QED BY <3>2, <3>3 DEF InTable
  <2>2. CASE call.pc = "WriteData" /\ p = call.place
    BY <2>2, PlaceOfBlock
  <2> QED BY <2>1, <2>2 DEF BitsMove
<1>5. PICK b \in Blocks(asked) : p = Entry(Current, b) /\ p # Unused BY <1>4
<1>6. Entry(u, b) = p BY <1>1, <1>2, <1>5, EntryStays
<1>7. InTable(u, p, asked) BY <1>5, <1>6 DEF InTable
<1> QED BY <1>3, <1>7

LEMMA FailKept ==
  ASSUME BlocksInv, MadeTable, ~cut, FailMove
  PROVE  call'.pc = "FlushBits" /\ ~call'.failed => ~session'.dirty
BY DEF BlocksInv, FailMove

(* What was synced before *)
LEMMA SyncedIn ==
  ASSUME Shape, MadeInv, MadeTable, BlocksInv, ~cut, NEW b \in DOMAIN synced
  PROVE  /\ b \in Blocks(asked) /\ synced[b] # Unused /\ sound
         /\ Entry(TableOf(durable, asked), b) = synced[b] /\ InFile(durable, synced[b], asked)
         /\ Entry(TableOf(file, asked), b) = synced[b] /\ Entry(Current, b) = synced[b]
         /\ InFile(file, synced[b], asked)
<1>1. SyncedBlocks /\ Laid(Current, file, asked) BY DEF BlocksInv
<1>2. sound
  <2>1. DOMAIN <<>> = {} OBVIOUS
  <2> QED BY <1>1, <2>1 DEF SyncedBlocks
<1>3. /\ b \in Blocks(asked) /\ synced[b] # Unused
      /\ Entry(TableOf(durable, asked), b) = synced[b] /\ InFile(durable, synced[b], asked)
  BY <1>1, <1>2 DEF SyncedBlocks
<1>4. Entry(TableOf(file, asked), b) = synced[b]
  <2>1. Tables(TableOf(durable, asked), TableOf(file, asked), asked) BY <1>1, <1>2 DEF SyncedBlocks
  <2> QED BY <1>3, <2>1 DEF Tables
<1>5. Entry(Current, b) = synced[b]
  <2>1. Tables(TableOf(file, asked), Current, asked) BY <1>1 DEF Laid
  <2> QED BY <1>3, <1>4, <2>1 DEF Tables
<1>6. InFile(file, synced[b], asked)
  BY <1>1, <1>3, <1>5 DEF Laid, AllIn
<1> QED BY <1>2, <1>3, <1>4, <1>5, <1>6

LEMMA SyncedKept ==
  ASSUME Shape, MadeInv, MadeTable, BlocksInv, ~cut, [Next]_vars, ~PowerFails
  PROVE  SyncedBlocks'
<1>0. SyncedBlocks BY DEF BlocksInv
<1>1. UNCHANGED <<asked, made, cut>> /\ Wrote(file, file', Pending) /\ file.size <= file'.size
  BY StepsOfTable
<1>2. CASE UNCHANGED <<durable, sound, synced>>
  <2>1. CASE ~sound
    BY <1>0, <1>2, <2>1 DEF SyncedBlocks
  <2>2. CASE sound
    <3>1. PICK g, d : g = file' /\ d = durable OBVIOUS
    <3>2. Tables(TableOf(d, asked), TableOf(file, asked), asked) /\ d.size <= file.size
      BY <1>0, <2>2, <3>1 DEF SyncedBlocks
    <3>3. ASSUME NEW b \in Blocks(asked)
          PROVE  \/ Entry(TableOf(d, asked), b) = Unused
                 \/ Entry(TableOf(d, asked), b) = Entry(TableOf(g, asked), b)
      <4>1. \/ Entry(TableOf(d, asked), b) = Unused
            \/ Entry(TableOf(d, asked), b) = Entry(TableOf(file, asked), b)
        BY <3>2, Zenon DEF Tables
      <4>2. Entry(TableOf(file, asked), b) = Unused \/ Entry(TableOf(file, asked), b) = Entry(Current, b)
        <5>1. Tables(TableOf(file, asked), Current, asked) BY DEF BlocksInv, Laid
        <5> QED BY <5>1, Zenon DEF Tables
      <4>3. Wrote(file, g, Pending) BY <1>1, <3>1
      <4>4. \/ Entry(TableOf(g, asked), b) = Entry(TableOf(file, asked), b)
            \/ Entry(TableOf(g, asked), b) = Entry(Current, b)
        BY <4>3, EntriesKept, Zenon
      <4> QED BY <4>1, <4>2, <4>4
    <3>4. Tables(TableOf(d, asked), TableOf(g, asked), asked) BY <3>3, Zenon DEF Tables
    <3>5. d.size <= g.size
      <4>1. d.size \in Nat /\ file.size \in Nat /\ g.size \in Nat
        BY <1>1, <3>1 DEF Shape, FileShape, Wrote
      <4> QED BY <1>1, <3>1, <3>2, <4>1
    <3>6. \A b \in DOMAIN synced :
            /\ b \in Blocks(asked) /\ synced[b] # Unused
            /\ Entry(TableOf(durable, asked), b) = synced[b]
            /\ InFile(durable, synced[b], asked)
      BY SyncedIn
    <3>7. durable' = durable /\ sound' = sound /\ synced' = synced /\ asked' = asked
      BY <1>1, <1>2
    <3>8. Tables(TableOf(durable, asked), TableOf(file', asked), asked) /\ durable.size <= file'.size
      BY <3>1, <3>4, <3>5
    <3> QED BY <2>2, <3>6, <3>7, <3>8, Zenon DEF SyncedBlocks
  <2> QED BY <2>1, <2>2
<1>3. CASE Sync /\ file' = file
  <2>1. CASE durable' = file /\ sound' = (sound \/ made) /\ synced' = Synced
    <3>1. made /\ call.pc = "FlushBits" /\ session.open BY <1>3, SyncDoes DEF MadeTable
    <3>2. PICK T : T = TableOf(file, asked) OBVIOUS
    <3>3. ASSUME NEW b \in DOMAIN Synced
          PROVE  b \in Blocks(asked) /\ Synced[b] # Unused /\ Entry(T, b) = Synced[b]
                 /\ InFile(file, Synced[b], asked)
      <4>1. CASE Synced = synced
        BY <3>2, <4>1, SyncedIn
      <4>2. CASE Synced = Placed(session.table) /\ ~call.failed /\ session.cached
        <5>1. PICK t : t = session.table OBVIOUS
        <5>2. b \in Blocks(asked) /\ Entry(t, b) # Unused /\ Synced[b] = Entry(t, b)
          BY <3>3, <4>2, <5>1 DEF Placed
        <5>3. ~session.dirty BY <3>1, <4>2 DEF BlocksInv
        <5>4. Tables(t, T, asked) BY <3>1, <3>2, <4>2, <5>1, <5>3 DEF BlocksInv
        <5>5. Entry(T, b) = Entry(t, b) BY <5>2, <5>4 DEF Tables
        <5>6. Current = t BY <3>1, <4>2, <5>1 DEF Current
        <5>7. InFile(file, Entry(t, b), asked)
          BY <5>2, <5>6 DEF BlocksInv, Laid, AllIn
        <5> QED BY <5>2, <5>5, <5>7
      <4> QED BY <4>1, <4>2 DEF Synced
    <3>4. Tables(T, T, asked) BY Zenon DEF Tables
    <3>5. file.size <= file.size BY DEF Shape, FileShape
    <3>6. asked' = asked /\ sound' = TRUE BY <1>1, <2>1, <3>1
    <3>7. durable' = file /\ file' = file /\ synced' = Synced BY <1>3, <2>1
    <3>8. Tables(TableOf(file, asked), TableOf(file, asked), asked) BY <3>2, <3>4
    <3>9. \A b \in DOMAIN Synced :
            /\ b \in Blocks(asked) /\ Synced[b] # Unused
            /\ Entry(TableOf(file, asked), b) = Synced[b]
            /\ InFile(file, Synced[b], asked)
      BY <3>2, <3>3
    <3> QED BY <3>5, <3>6, <3>7, <3>8, <3>9, Zenon DEF SyncedBlocks
  <2> QED BY <1>2, <1>3, <2>1, SyncDoes
<1> QED BY <1>2, <1>3, StepsOfTable

LEMMA BlocksGoOn ==
  ASSUME Shape, MadeInv, MadeTable, BlocksInv, ~cut, [Next]_vars, ~PowerFails
  PROVE  BlocksInv'
<1>1. asked' = asked BY StepsOfTable
<1>2. SyncedBlocks' BY SyncedKept
<1>3. CASE Moves
  <2>1. TableMove /\ BitsMove /\ PlaceMove /\ CleanMove /\ FailMove BY <1>3 DEF Moves
  <2>2. Laid(Current', file', asked') BY <1>1, <2>1, LaidMoves
  <2>3. call'.pc = "AppendBitmap" => AllBefore(Current', call'.place, asked')
    BY <1>1, <2>1, PlaceKept
  <2>4. session'.open /\ session'.cached /\ ~session'.dirty =>
          Tables(session'.table, TableOf(file', asked'), asked')
    BY <1>1, <2>1, CleanKept
  <2>5. session'.open => \A p \in session'.bits : InTable(session'.table, p, asked')
    BY <1>1, <2>1, BitsKept
  <2>6. call'.pc = "FlushBits" /\ ~call'.failed => ~session'.dirty
    BY <2>1, FailKept
  <2> QED BY <1>2, <2>2, <2>3, <2>4, <2>5, <2>6, Zenon DEF BlocksInv
<1>4. CASE UNCHANGED vars
  <2>1. /\ file' = file /\ durable' = durable /\ asked' = asked /\ made' = made /\ sound' = sound
        /\ cut' = cut /\ synced' = synced /\ session' = session /\ call' = call
    BY <1>4 DEF vars, fileVars
  <2>2. Current' = Current BY <2>1 DEF Current
  <2>3. MadeTable' <=> MadeTable BY <2>1 DEF MadeTable
  <2> QED BY <1>2, <2>1, <2>2, <2>3, Zenon DEF BlocksInv
<1> QED BY <1>3, <1>4, StepsMove

(* What was synced stays in the list, but for a call that syncs. *)
LEMMA SyncedStays ==
  ASSUME Shape, [Next]_vars
  PROVE  \/ \E r \in Requests : VHD_Create(r)
         \/ OpenParent \/ Generate \/ Generated \/ Sync
         \/ asked' = asked /\ synced' = synced /\ file'.exists = file.exists
<1>1. CASE Client
  <2>1. CASE VHD_Open
    BY <2>1 DEF VHD_Open, fileVars
  <2>2. CASE \E why \in {"flush", "close"} : VHD_Flush(why)
    <3>1. PICK why \in {"flush", "close"} : VHD_Flush(why) BY <2>2
    <3> QED BY <3>1 DEF VHD_Flush, fileVars
  <2>3. CASE \E b \in Blocks(asked) : WriteBlock(b)
    <3>1. PICK b \in Blocks(asked) : WriteBlock(b) BY <2>3
    <3> QED BY <3>1 DEF WriteBlock, fileVars
  <2> QED BY <1>1, <2>1, <2>2, <2>3, BlocksWritten DEF Client
<1>2. CASE Step
  <2>1. Open \/ AppendBlock => asked' = asked /\ synced' = synced /\ file' = file
    BY DEF Open, AppendBlock, fileVars
  <2>2. AppendFooter \/ AppendBitmap \/ WriteData \/ FlushBat \/ FlushBits => Written \/ NotWritten
    BY DEF AppendFooter, AppendBitmap, WriteData, FlushBat, FlushBits
  <2>3. Written \/ NotWritten => OnlyFile BY DEF Written, NotWritten
  <2>4. Written \/ NotWritten => file'.exists = file.exists
    BY WrittenShape, NotWrittenDoes DEF Wrote
  <2>5. OnlyFile => asked' = asked /\ synced' = synced BY DEF OnlyFile
  <2> QED BY <1>2, <2>1, <2>2, <2>3, <2>4, <2>5 DEF Step
<1>3. CASE ProcessDies
  <2>1. OnlyFile BY <1>3 DEF ProcessDies
  <2>2. file'.exists = file.exists BY <1>3, DiesDoes DEF Wrote
  <2> QED BY <2>1, <2>2 DEF OnlyFile
<1>4. CASE PowerFails
  <2>1. asked' = asked /\ synced' = synced /\ made /\ file'.exists = TRUE
    BY <1>4, PowerDoes DEF Lost
  <2>2. file.exists BY <2>1 DEF Shape, FlagsShape
  <2>3. file.exists \in BOOLEAN BY DEF Shape, FileShape
  <2> QED BY <2>1, <2>2, <2>3
<1>5. CASE UNCHANGED vars
  BY <1>5 DEF vars, fileVars
<1> QED BY <1>1, <1>2, <1>3, <1>4, <1>5 DEF Next

LEMMA StartInvKept == ASSUME Shape, StartInv, [Next]_vars PROVE StartInv'
<1>1. CASE \E r \in Requests : VHD_Create(r)
  <2>1. PICK r \in Requests : VHD_Create(r) BY <1>1
  <2> QED BY <2>1 DEF VHD_Create, StartInv
<1>2. CASE OpenParent \/ Generate \/ Generated
  <2>1. call.pc \in {"OpenParent", "Generate"} BY <1>2 DEF OpenParent, Generate, Generated, At_
  <2>2. synced' = synced
    BY <1>2 DEF OpenParent, Generate, Generated, Unlink, OnlyFile, fileVars
  <2> QED BY <2>1, <2>2 DEF StartInv
<1>3. CASE UNCHANGED vars
  BY <1>3 DEF vars, fileVars, StartInv
<1>4. CASE Sync
  <2>1. /\ session.open /\ call' = NoCall /\ file' = file /\ asked' = asked
        /\ synced' = Synced \/ synced' = synced
    BY <1>4, SyncDoes
  <2>2. file.exists BY <2>1, OpenSession
  <2>3. call'.pc = "none" BY <2>1, NotOpened
  <2>4. CASE asked.type = "Fixed"
    <3>1. ~session.cached BY <2>1, <2>4, OpenSession
    <3>2. Synced = synced BY <3>1 DEF Synced
    <3>3. synced = <<>> BY <2>4 DEF StartInv
    <3> QED BY <2>1, <3>2, <3>3 DEF StartInv
  <2> QED BY <2>1, <2>2, <2>3, <2>4 DEF StartInv
<1>5. CASE /\ asked' = asked /\ synced' = synced /\ file'.exists = file.exists
           /\ call'.pc \notin {"OpenParent", "Generate", "OpenNew"}
  BY <1>5 DEF StartInv
<1> QED BY <1>1, <1>2, <1>3, <1>4, <1>5, SyncedStays, CallsMove

(* A file that was just made has no blocks. *)
LEMMA BlocksBegin ==
  ASSUME Shape, MadeInv, StartInv, Generated
  PROVE  BlocksInv'
<1> SUFFICES ASSUME MadeTable' PROVE BlocksInv'
  BY Zenon DEF BlocksInv
<1>1. /\ call.pc = "Generate" /\ made' = TRUE /\ call' = [pc |-> "OpenNew"]
      /\ session' = session /\ sound' = sound /\ synced' = synced
  BY DEF Generated, At_
<1>2. ~session'.open /\ ~made /\ call'.pc = "OpenNew"
  BY <1>1 DEF Shape, CallShape, CreateShape
<1>3. NoBlocks(file', asked')
  <2>1. FreshInv' BY GeneratedMakes
  <2> QED BY <1>1, <1>2, <2>1 DEF FreshInv, MadeTable
<1>4. ~sound' /\ synced' = <<>>
  BY <1>1, <1>2 DEF Shape, FlagsShape, StartInv
<1>5. SyncedBlocks' BY <1>4 DEF SyncedBlocks
<1>6. Laid(Current', file', asked')
  <2>1. Current' = TableOf(file', asked') BY <1>2 DEF Current
  <2>2. PICK t, f, r : t = TableOf(f, r) /\ f = file' /\ r = asked' OBVIOUS
  <2>3. \A b \in Blocks(r) : Entry(t, b) = Unused BY <1>3, <2>2 DEF NoBlocks
  <2>4. AllIn(t, f, r) /\ Separate(t, r) /\ Tables(t, t, r) BY <2>3, Zenon DEF AllIn, Separate, Tables
  <2>5. Laid(t, f, r) BY <2>2, <2>4, Zenon DEF Laid
  <2> QED BY <2>1, <2>2, <2>5
<1> QED BY <1>2, <1>5, <1>6, Zenon DEF BlocksInv

LEMMA BlocksInvKept ==
  ASSUME Shape, MadeInv, StartInv, BlocksInv, [Next]_vars PROVE BlocksInv'
<1>1. CASE ~made
  <2>1. CASE ~made' BY <2>1 DEF BlocksInv, MadeTable
  <2> QED BY <1>1, <2>1, StepsOfUnmade, BlocksBegin
<1>2. CASE made /\ PowerFails
  BY <1>2, PowerDoes DEF BlocksInv
<1>3. CASE made /\ ~PowerFails
  <2>1. CASE MadeTable /\ ~cut BY <1>3, <2>1, BlocksGoOn
  <2>2. CASE ~(MadeTable /\ ~cut)
    <3>1. asked' = asked /\ made' = made /\ cut' = cut
      <4>1. NothingStep \/ WriteStep \/ SyncStep BY <1>3, StepsOfMade
      <4> QED BY <4>1 DEF NothingStep, WriteStep, SyncStep, OnlyFile, fileVars
    <3>2. ~(MadeTable' /\ ~cut') BY <2>2, <3>1 DEF MadeTable
    <3> QED BY <3>2, Zenon DEF BlocksInv
  <2> QED BY <2>1, <2>2
<1> QED BY <1>1, <1>2, <1>3

-----------------------------------------------------------------------------
(* After the power failed: the blocks that were synced before are where they  *)
(* were, whatever else the table has by then.                                 *)

(* No block of the table t is across the block at q. *)
Away(t, q, r) == \A b \in Blocks(r) : Entry(t, b) = Unused \/ Entry(t, b) = q \/ Clear(Entry(t, b), q, r)

Firm(c, q) ==
  /\ c \in Blocks(asked) /\ q \in Nat /\ q >= KFooterSec(asked) /\ InFile(file, q, asked)
  /\ Entry(TableOf(file, asked), c) = q /\ Entry(Current, c) = q
  /\ Away(TableOf(file, asked), q, asked) /\ Away(Current, q, asked)
  /\ call.pc = "AppendBitmap" => q + BlockLen(asked) <= call.place
  /\ session.open => \A e \in session.bits : e = q \/ Clear(e, q, asked)

FirmInv == MadeTable /\ cut => \A c \in DOMAIN synced : Firm(c, synced[c])

LEMMA FirmSpared == ASSUME Shape, NEW c, NEW q, Firm(c, q) PROVE Spared(q)
<1>1. /\ q \in Nat /\ q >= KFooterSec(asked) /\ InFile(file, q, asked) /\ Away(Current, q, asked)
      /\ call.pc = "AppendBitmap" => q + BlockLen(asked) <= call.place
      /\ session.open => \A e \in session.bits : e = q \/ Clear(e, q, asked)
  BY DEF Firm
<1>2. call.pc = "WriteData" => call.place = q \/ Clear(call.place, q, asked)
  BY <1>1, PlaceOfBlock DEF Away
<1> QED BY <1>1, <1>2 DEF Spared

(* The entries that are left are those of the file, or those on the disk. *)
LEMMA LostEntries ==
  ASSUME NEW r \in Requests, RequestValid(r), r.type # "Fixed", TableFits(r), NEW f, FileShape(f),
         NEW d, FileShape(d), NEW g, Lost(f, d, g), Openable(g, r), NEW b \in Blocks(r)
  PROVE  \/ Entry(TableOf(g, r), b) = Entry(TableOf(f, r), b)
         \/ Entry(TableOf(g, r), b) = Entry(TableOf(d, r), b)
<1>1. PICK k, i, t, u, v : /\ k = b \div EntriesPerSector /\ i = b % EntriesPerSector
                           /\ t = TableOf(g, r) /\ u = TableOf(f, r) /\ v = TableOf(d, r)
  OBVIOUS
<1>2. k \in 0 .. BatSectors(r) - 1 BY <1>1, WordOf
<1>3. FileShape(g) BY DEF Lost
<1>4. /\ t[k] = At(g, KBatStartSec + k) /\ u[k] = At(f, KBatStartSec + k)
      /\ v[k] = At(d, KBatStartSec + k)
  <2>1. \A j \in 0 .. BatSectors(r) - 1 : t[j] = At(g, KBatStartSec + j) BY <1>1, <1>3, TableOfIs, Zenon
  <2>2. \A j \in 0 .. BatSectors(r) - 1 : u[j] = At(f, KBatStartSec + j) BY <1>1, TableOfIs, Zenon
  <2>3. \A j \in 0 .. BatSectors(r) - 1 : v[j] = At(d, KBatStartSec + j) BY <1>1, TableOfIs, Zenon
  <2> QED BY <1>2, <2>1, <2>2, <2>3
<1>5. At(g, KBatStartSec + k) = At(f, KBatStartSec + k) \/ At(g, KBatStartSec + k) = At(d, KBatStartSec + k)
  <2>1. /\ KFooterSec(r) \in Nat /\ TableEnd(r) = 3 + BatSectors(r)
        /\ BatSectors(r) \in Nat /\ TableEnd(r) <= KFooterSec(r)
    BY LowIs
  <2>2. g.size \in Nat /\ g.size >= KFooterSec(r) + 1 /\ g.size <= End(g)
    BY <1>3 DEF FileShape, Openable, End
  <2>3. KBatStartSec + k \in Nat /\ KBatStartSec + k < End(g)
    <3>1. End(g) \in Nat BY <1>3 DEF FileShape, End
    <3> QED BY <1>2, <2>1, <2>2, <3>1, Constants
  <2> QED BY <2>3 DEF Lost
<1>6. /\ Entry(t, b) = EntryIn(t[k], i) /\ Entry(u, b) = EntryIn(u[k], i) /\ Entry(v, b) = EntryIn(v[k], i)
  BY <1>1 DEF Entry
<1>7. Entry(t, b) = Entry(u, b) \/ Entry(t, b) = Entry(v, b) BY <1>4, <1>5, <1>6
<1> QED BY <1>1, <1>7, Zenon

LEMMA LostBlock ==
  ASSUME NEW r \in Requests, RequestValid(r), NEW f, FileShape(f), NEW d, FileShape(d), NEW g, Lost(f, d, g),
         d.size <= f.size, NEW q \in Nat, InFile(f, q, r), InFile(d, q, r)
  PROVE  InFile(g, q, r)
<1>1. f.size \in Nat /\ d.size \in Nat /\ g.size \in Nat /\ g.size <= End(g) /\ End(g) \in Nat
  BY DEF FileShape, Lost, End
<1>2. PICK m, n : m = SBmp_SizeInSectors(r) /\ n = BlockLen(r) OBVIOUS
<1>3. m \in Nat \ {0} /\ n \in Nat /\ m <= n
  BY <1>2, Numbers DEF BlockLen
<1>4. q + n + 1 <= d.size BY <1>2 DEF InFile
<1>5. q + n + 1 <= g.size
  <2>1. g.size = f.size \/ g.size = d.size BY DEF Lost
  <2> QED BY <1>1, <1>3, <1>4, <2>1
<1>6. ASSUME NEW s \in q .. q + m - 1 PROVE At(g, s).kind = "Bitmap"
  <2>1. s \in Nat /\ s < End(g) BY <1>1, <1>3, <1>5
  <2>2. At(g, s) = At(f, s) \/ At(g, s) = At(d, s) BY <2>1 DEF Lost
  <2>3. At(f, s).kind = "Bitmap" /\ At(d, s).kind = "Bitmap" BY <1>2 DEF InFile, HasBitmap
  <2> QED BY <2>2, <2>3
<1> QED BY <1>2, <1>5, <1>6 DEF InFile, HasBitmap

LEMMA FirmBegins ==
  ASSUME Shape, MadeInv, BlocksInv, PowerFails
  PROVE  FirmInv'
<1>1. /\ Lost(file, durable, file') /\ sound /\ made /\ ~cut
      /\ session' = Closed /\ call' = NoCall /\ asked' = asked /\ made' = made /\ synced' = synced
  BY PowerDoes
<1> SUFFICES ASSUME MadeTable, NEW c \in DOMAIN synced PROVE Firm(c, synced[c])'
  BY <1>1, Zenon DEF FirmInv, MadeTable
<1>2. PICK q, r, g : q = synced[c] /\ r = asked /\ g = file' OBVIOUS
<1>3. /\ made /\ r \in Requests /\ RequestValid(r) /\ r.type # "Fixed" /\ TableFits(r)
      /\ FileShape(file) /\ FileShape(durable)
  BY <1>2, AskedOfTable DEF Shape
<1>4. Openable(g, r)
  <2>1. Openable(file, asked) /\ Openable(durable, asked)
    BY <1>1, <1>2, <1>3 DEF MadeInv, FileInv
  <2> QED BY <1>1, <1>2, <1>3, <2>1, LostOpenable
<1>5. /\ c \in Blocks(r) /\ q # Unused
      /\ Entry(TableOf(durable, r), c) = q /\ InFile(durable, q, r)
      /\ Entry(TableOf(file, r), c) = q /\ Entry(Current, c) = q /\ InFile(file, q, r)
  BY <1>1, <1>2, SyncedIn
<1>6. q \in Nat /\ q >= KFooterSec(r)
  BY <1>2, <1>5, EntriesArePlaces DEF IsPlace
<1>7. InFile(g, q, r)
  <2>1. durable.size <= file.size BY <1>1 DEF BlocksInv, SyncedBlocks
  <2> QED BY <1>1, <1>2, <1>3, <1>5, <1>6, <2>1, LostBlock
<1>8. ASSUME NEW b \in Blocks(r)
      PROVE  \/ Entry(TableOf(g, r), b) = Entry(TableOf(file, r), b)
             \/ Entry(TableOf(g, r), b) = Entry(TableOf(durable, r), b)
  BY <1>1, <1>2, <1>3, <1>4, LostEntries
<1>9. Entry(TableOf(g, r), c) = q BY <1>5, <1>8
<1>10. Away(TableOf(g, r), q, r)
  <2> SUFFICES ASSUME NEW b \in Blocks(r)
      PROVE  Entry(TableOf(g, r), b) = Unused \/ Entry(TableOf(g, r), b) = q
             \/ Clear(Entry(TableOf(g, r), b), q, r)
    BY Zenon DEF Away
  <2>1. CASE b = c BY <1>9, <2>1
  <2>2. CASE b # c /\ Entry(TableOf(g, r), b) # Unused
    <3>1. \/ Entry(TableOf(durable, r), b) = Unused
          \/ Entry(TableOf(durable, r), b) = Entry(TableOf(file, r), b)
      BY <1>1, <1>2 DEF BlocksInv, SyncedBlocks, Tables
    <3>2. Entry(TableOf(g, r), b) = Entry(TableOf(file, r), b) BY <1>8, <2>2, <3>1
    <3>3. Laid(Current, file, r) BY <1>1, <1>2 DEF BlocksInv
    <3>4. Entry(Current, b) = Entry(TableOf(file, r), b)
      BY <2>2, <3>2, <3>3 DEF Laid, Tables
    <3>5. Clear(Entry(Current, b), Entry(Current, c), r)
      BY <1>5, <2>2, <3>2, <3>3, <3>4 DEF Laid, Separate
    <3> QED BY <1>5, <3>2, <3>4, <3>5
  <2> QED BY <2>1, <2>2
<1>11. Current' = TableOf(g, r) BY <1>1, <1>2, NotOpened DEF Current
<1>12. ~session'.open /\ call'.pc # "AppendBitmap" BY <1>1, NotOpened
<1>13. asked' = r /\ file' = g /\ synced[c]' = q
  BY <1>1, <1>2
<1> QED BY <1>5, <1>6, <1>7, <1>9, <1>10, <1>11, <1>12, <1>13, Zenon DEF Firm

(* The block that is appended is behind the blocks that are firm. *)
LEMMA FirmAppended ==
  ASSUME Shape, MadeInv, MadeTable, call.pc = "AppendBitmap", NEW c, NEW q, Firm(c, q),
         NEW u, u = WithEntry(Current, call.block, call.place)
  PROVE  Entry(u, c) = q /\ Away(u, q, asked)
<1>1. PICK t, b, p, r : t = Current /\ b = call.block /\ p = call.place /\ r = asked
  OBVIOUS
<1>2. session.open /\ session.cached /\ b \in Blocks(r) /\ TableShape(t, r) /\ Entry(t, b) = Unused /\ p \in Nat
  <2>1. session.open /\ session.cached /\ call.block \in Blocks(asked) /\ TableShape(session.table, asked)
    BY BlockCall
  <2>2. call.place \in Nat /\ Entry(session.table, call.block) = Unused
    BY DEF Shape, CallShape, AppendShape
  <2>3. Current = session.table BY <2>1 DEF Current
  <2> QED BY <1>1, <2>1, <2>2, <2>3
<1>3. r \in Requests /\ RequestValid(r) /\ Entry(t, b) # NoPlace
  BY <1>1, <1>2, AskedOfTable, Constants
<1>4. Entry(u, b) = p /\ Others(t, u, r, b)
  <2>1. u = WithEntry(t, b, p) BY <1>1
  <2>2. r \in Requests BY <1>3
  <2>3. RequestValid(r) /\ Entry(t, b) # NoPlace BY <1>3
  <2>4. TableShape(t, r) /\ p \in Nat BY <1>2
  <2>5. b \in Blocks(r) BY <1>2
  <2>6. Others(t, u, r, b) /\ TableShape(u, r) /\ Words(t, u, r, p)
    BY ONLY <2>1, <2>2, <2>3, <2>4, <2>5, WithEntryIs, Zenon
  <2>7. Entry(u, b) = p
    BY ONLY <2>1, <2>2, <2>3, <2>4, <2>5, WithEntryIs, SMT
  <2> QED BY <2>6, <2>7
<1>5. /\ c \in Blocks(r) /\ q \in Nat /\ Entry(t, c) = q /\ Away(t, q, r) /\ q + BlockLen(r) <= p
  BY <1>1 DEF Firm
<1>6. Entry(u, c) = q
  <2>1. c # b BY <1>2, <1>5, Constants
  <2> QED BY <1>4, <1>5, <2>1 DEF Others
<1>7. Away(u, q, r)
  <2> SUFFICES ASSUME NEW e \in Blocks(r)
      PROVE  Entry(u, e) = Unused \/ Entry(u, e) = q \/ Clear(Entry(u, e), q, r)
    BY Zenon DEF Away
  <2>1. CASE e = b BY <1>4, <1>5, <2>1 DEF Clear
  <2>2. CASE e # b
    <3>1. Entry(u, e) = Entry(t, e) BY <1>4, <2>2 DEF Others
    <3> QED BY <1>5, <3>1 DEF Away
  <2> QED BY <2>1, <2>2
<1> QED BY <1>1, <1>6, <1>7, Zenon

LEMMA FirmGoesOn ==
  ASSUME Shape, MadeInv, MadeTable, [Next]_vars, ~PowerFails, Moves, NEW c, NEW q, Firm(c, q)
  PROVE  Firm(c, q)'
<1>1. PICK r, g : r = asked /\ g = file' OBVIOUS
<1>2. asked' = r /\ Wrote(file, g, Pending)
  BY <1>1, StepsOfTable
<1>3. /\ c \in Blocks(r) /\ q \in Nat /\ q >= KFooterSec(r) /\ InFile(file, q, r)
      /\ Entry(TableOf(file, r), c) = q /\ Entry(Current, c) = q
      /\ Away(TableOf(file, r), q, r) /\ Away(Current, q, r)
  BY <1>1, Zenon DEF Firm
<1>4. InFile(g, q, r)
  <2>1. Spared(q) BY FirmSpared
  <2> QED BY <1>1, <1>2, <2>1, BlockKept
<1>5. ASSUME NEW b \in Blocks(r)
      PROVE  \/ Entry(TableOf(g, r), b) = Entry(TableOf(file, r), b)
             \/ Entry(TableOf(g, r), b) = Entry(Current, b)
  BY <1>1, <1>2, EntriesKept
<1>6. Entry(TableOf(g, r), c) = q BY <1>3, <1>5
<1>7. Away(TableOf(g, r), q, r)
  <2> SUFFICES ASSUME NEW b \in Blocks(r)
      PROVE  Entry(TableOf(g, r), b) = Unused \/ Entry(TableOf(g, r), b) = q
             \/ Clear(Entry(TableOf(g, r), b), q, r)
    BY Zenon DEF Away
  <2>1. CASE Entry(TableOf(g, r), b) = Entry(TableOf(file, r), b) BY <1>3, <2>1 DEF Away
  <2>2. CASE Entry(TableOf(g, r), b) = Entry(Current, b) BY <1>3, <2>2 DEF Away
  <2> QED BY <1>5, <2>1, <2>2
<1>8. Entry(Current', c) = q /\ Away(Current', q, r)
  <2>0. PICK u : u = Current' OBVIOUS
  <2> SUFFICES Entry(u, c) = q /\ Away(u, q, r) BY <2>0
  <2>1. CASE u = Current BY <1>3, <2>1
  <2>2. CASE u = TableOf(g, r) BY <1>6, <1>7, <2>2
  <2>3. CASE call.pc = "AppendBitmap" /\ u = WithEntry(Current, call.block, call.place)
    <3>1. Entry(u, c) = q /\ Away(u, q, asked) BY <2>3, FirmAppended
    <3> QED BY <1>1, <3>1
  <2>4. \/ u = Current \/ u = TableOf(g, r)
        \/ call.pc = "AppendBitmap" /\ u = WithEntry(Current, call.block, call.place)
    <3>1. TableMove BY DEF Moves
    <3> QED BY <1>1, <1>2, <2>0, <3>1 DEF TableMove
  <2> QED BY <2>1, <2>2, <2>3, <2>4
<1>9. call'.pc = "AppendBitmap" => q + BlockLen(r) <= call'.place
  <2> SUFFICES ASSUME call'.pc = "AppendBitmap" PROVE q + BlockLen(r) <= call'.place
    OBVIOUS
  <2>1. call'.place = file.size - 1 BY DEF Moves, PlaceMove
  <2>2. q + BlockLen(r) + 1 <= file.size BY <1>3 DEF InFile
  <2>3. file.size \in Nat BY AskedOfTable
  <2>4. BlockLen(r) \in Nat BY <1>1, AskedOfTable
  <2> QED BY <1>3, <2>1, <2>2, <2>3, <2>4
<1>10. session'.open => \A e \in session'.bits : e = q \/ Clear(e, q, r)
  <2> SUFFICES ASSUME session'.open, NEW e \in session'.bits PROVE e = q \/ Clear(e, q, r)
    OBVIOUS
  <2>1. CASE session.open /\ e \in session.bits BY <1>1, <2>1 DEF Firm
  <2>2. CASE call.pc = "WriteData" /\ e = call.place
    BY <1>1, <1>3, <2>2, PlaceOfBlock DEF Away
  <2> QED BY <2>1, <2>2 DEF Moves, BitsMove
<1>11. file' = g /\ asked' = r BY <1>1, <1>2
<1> QED BY <1>3, <1>4, <1>6, <1>7, <1>8, <1>9, <1>10, <1>11, Zenon DEF Firm

LEMMA FirmInvKept ==
  ASSUME Shape, MadeInv, BlocksInv, FirmInv, [Next]_vars PROVE FirmInv'
<1>1. CASE ~made
  <2>1. ~cut BY <1>1 DEF Shape, FlagsShape
  <2>2. CASE ~made' BY <2>2 DEF FirmInv, MadeTable
  <2>3. CASE Generated
    <3>1. ~cut' BY <2>1, <2>3 DEF Generated
    <3> QED BY <3>1 DEF FirmInv
  <2> QED BY <1>1, <2>2, <2>3, StepsOfUnmade
<1>2. CASE made /\ PowerFails
  BY <1>2, FirmBegins
<1>3. CASE made /\ ~PowerFails
  <2>1. asked' = asked /\ made' = made /\ cut' = cut
    <3>1. NothingStep \/ WriteStep \/ SyncStep BY <1>3, StepsOfMade
    <3> QED BY <3>1 DEF NothingStep, WriteStep, SyncStep, OnlyFile, fileVars
  <2>2. CASE ~(MadeTable /\ cut)
    <3>1. ~(MadeTable' /\ cut') BY <2>1, <2>2 DEF MadeTable
    <3> QED BY <3>1, Zenon DEF FirmInv
  <2>3. CASE MadeTable /\ cut
    <3>1. synced' = synced
      <4>1. Synced = synced BY <2>3 DEF Synced
      <4> QED BY <1>3, <2>3, <4>1, StepsOfTable, SyncDoes
    <3>2. CASE Moves
      <4>1. ASSUME NEW c \in DOMAIN synced PROVE Firm(c, synced[c])'
        <5>1. PICK q : q = synced[c] OBVIOUS
        <5>2. Firm(c, q) BY <2>3, <5>1, Zenon DEF FirmInv
        <5>3. Firm(c, q)' BY <1>3, <2>3, <3>2, <5>2, FirmGoesOn
        <5> QED BY <3>1, <5>1, <5>3
      <4> QED BY <3>1, <4>1, Zenon DEF FirmInv
    <3>3. CASE UNCHANGED vars
      <4>1. /\ file' = file /\ asked' = asked /\ made' = made /\ cut' = cut /\ synced' = synced
            /\ session' = session /\ call' = call
        BY <3>3 DEF vars, fileVars
      <4>2. Current' = Current BY <4>1 DEF Current
      <4> QED BY <4>1, <4>2, Zenon DEF FirmInv, MadeTable, Firm
    <3> QED BY <1>3, <2>3, <3>2, <3>3, StepsMove
  <2> QED BY <2>2, <2>3
<1> QED BY <1>1, <1>2, <1>3

-----------------------------------------------------------------------------
(* The blocks, in every state *)

LEMMA InitBlocks == ASSUME Init PROVE StartInv /\ BlocksInv /\ FirmInv
<1>1. made = FALSE /\ synced = <<>> BY DEF Init
<1>2. ~MadeTable BY <1>1 DEF MadeTable
<1> QED BY <1>1, <1>2 DEF StartInv, BlocksInv, FirmInv

(* While the power does not fail, the blocks of the table in force are in the *)
(* file and apart, and the table on the disk has no block that this one has   *)
(* not; and after it failed, the blocks that were synced before are left alone *)
(* by all that the table has by then.                                         *)
THEOREM BlocksInvariance == Spec => [](Shape /\ MadeInv /\ StartInv /\ BlocksInv /\ FirmInv)
<1>1. Init => Shape /\ MadeInv /\ StartInv /\ BlocksInv /\ FirmInv
  BY InitShape, InitMade, InitBlocks
<1>2. (Shape /\ MadeInv /\ StartInv /\ BlocksInv /\ FirmInv) /\ [Next]_vars
        => (Shape /\ MadeInv /\ StartInv /\ BlocksInv /\ FirmInv)'
  BY NextKeepsShape, NextKeepsMade, StartInvKept, BlocksInvKept, FirmInvKept
<1> QED BY <1>1, <1>2, PTL DEF Spec

LEMMA SyncedSurvives ==
  ASSUME Shape, MadeInv, StartInv, BlocksInv, FirmInv, TablesFit PROVE EntriesSurvive
<1> SUFFICES ASSUME sound, NEW b \in DOMAIN synced
    PROVE  /\ Entry(TableOf(file, asked), b) = synced[b]
           /\ \A s \in DOMAIN BitmapAt(synced[b]) : At(file, s).kind = "Bitmap"
  BY DEF EntriesSurvive
<1>1. made /\ asked \in Requests /\ RequestValid(asked)
  BY AskedIsValid DEF Shape, FlagsShape
<1>2. asked.type # "Fixed"
  <2>1. DOMAIN <<>> = {} OBVIOUS
  <2> QED BY <2>1 DEF StartInv
<1>3. MadeTable BY <1>1, <1>2 DEF MadeTable, TablesFit
<1>4. PICK q : q = synced[b] OBVIOUS
<1>5. q \in Nat /\ Entry(TableOf(file, asked), b) = q /\ InFile(file, q, asked)
  <2>1. CASE cut
    <3>1. Firm(b, q) BY <1>3, <1>4, <2>1 DEF FirmInv
    <3> QED BY <3>1 DEF Firm
  <2>2. CASE ~cut
    <3>1. /\ b \in Blocks(asked) /\ q # Unused
          /\ Entry(TableOf(file, asked), b) = q /\ InFile(file, q, asked)
      BY <1>3, <1>4, <2>2, SyncedIn
    <3>2. IsPlace(Entry(TableOf(file, asked), b), asked) BY <1>3, <3>1, EntriesArePlaces
    <3> QED BY <3>1, <3>2 DEF IsPlace
  <2> QED BY <2>1, <2>2
<1>6. DOMAIN BitmapAt(q) = q .. q + SBmp_SizeInSectors(asked) - 1
  BY DEF BitmapAt
<1>7. HasBitmap(file, q, asked) BY <1>5 DEF InFile
<1> QED BY <1>4, <1>5, <1>6, <1>7 DEF HasBitmap

(* What a call has synced, before the power ever failed, stays: its entries in *)
(* the table, and its bitmaps at the places they name.  Whatever write fails   *)
(* after that, whenever the process dies, and whatever a loss of power takes;  *)
(* for every request whose table fits the place that is left for it.           *)
THEOREM EntriesAlwaysSurvive == ASSUME TablesFit PROVE Spec => []EntriesSurvive
<1>1. Shape /\ MadeInv /\ StartInv /\ BlocksInv /\ FirmInv => EntriesSurvive
  BY SyncedSurvives
<1> QED BY <1>1, BlocksInvariance, PTL

(* What BlocksApart says of a table *)
ApartIn(t) ==
  /\ Cardinality(PlacesIn(t)) = Cardinality(DOMAIN Placed(t))
  /\ \A p \in PlacesIn(t) :
       /\ p >= KFooterSec(asked) /\ p >= KBatStartSec + BatSectors(asked)
       /\ p + SBmp_SizeInSectors(asked) + SectorsPerBlock(asked) <= file.size
       /\ \A q \in PlacesIn(t) :
            p < q => p + Cardinality(p .. p + SBmp_SizeInSectors(asked) + SectorsPerBlock(asked) - 1) <= q

LEMMA LaidIsApart ==
  ASSUME Shape, MadeInv, MadeTable, NEW t, AllIn(t, file, asked), Separate(t, asked),
         \A b \in Blocks(asked) : IsPlace(Entry(t, b), asked)
  PROVE  ApartIn(t)
<1>1. /\ asked \in Requests /\ RequestValid(asked)
      /\ KFooterSec(asked) \in Nat /\ TableEnd(asked) = 3 + BatSectors(asked)
      /\ BatSectors(asked) \in Nat /\ TableEnd(asked) <= KFooterSec(asked) /\ file.size \in Nat
      /\ SBmp_SizeInSectors(asked) \in Nat \ {0} /\ SectorsPerBlock(asked) \in Nat \ {0}
      /\ BlockLen(asked) = SBmp_SizeInSectors(asked) + SectorsPerBlock(asked)
  BY AskedOfTable
<1>2. PICK D : D = DOMAIN Placed(t) OBVIOUS
<1>3. D = {c \in Blocks(asked) : Entry(t, c) \notin {Unused, NoPlace}}
  BY <1>2 DEF Placed
<1>4. PlacesIn(t) = {Entry(t, b) : b \in D}
  BY <1>2 DEF PlacesIn
<1>5. ASSUME NEW b \in D
      PROVE  /\ b \in Blocks(asked) /\ Entry(t, b) # Unused /\ Entry(t, b) \in Nat
             /\ Entry(t, b) >= KFooterSec(asked) /\ Entry(t, b) + BlockLen(asked) + 1 <= file.size
  <2>1. b \in Blocks(asked) /\ Entry(t, b) # Unused BY <1>3
  <2>2. InFile(file, Entry(t, b), asked) BY <2>1 DEF AllIn
  <2>3. IsPlace(Entry(t, b), asked) BY <2>1
  <2> QED BY <2>1, <2>2, <2>3 DEF InFile, IsPlace
<1>6. ASSUME NEW b \in D, NEW c \in D, b # c
      PROVE  \/ Entry(t, b) + BlockLen(asked) <= Entry(t, c)
             \/ Entry(t, c) + BlockLen(asked) <= Entry(t, b)
  <2>1. Clear(Entry(t, b), Entry(t, c), asked) BY <1>5, <1>6 DEF Separate
  <2> QED BY <2>1 DEF Clear
<1>7. Cardinality(PlacesIn(t)) = Cardinality(DOMAIN Placed(t))
  <2>1. PICK f : f = [b \in D |-> Entry(t, b)] OBVIOUS
  <2>2. IsFiniteSet(D)
    <3>1. MaxBatEntries(asked) \in Nat BY <1>1, Numbers
    <3>2. IsFiniteSet(0 .. MaxBatEntries(asked) - 1) BY <3>1, FS_Interval
    <3>3. D \in SUBSET (0 .. MaxBatEntries(asked) - 1) BY <1>3 DEF Blocks
    <3> QED BY <3>2, <3>3, FS_Subset
  <2>3. PICK P : P = PlacesIn(t) OBVIOUS
  <2>4. P = {Entry(t, b) : b \in D} BY <1>4, <2>3
  <2>5. f \in [D -> P] BY <2>1, <2>4
  <2>6. \A p \in P : \E b \in D : f[b] = p BY <2>1, <2>4
  <2>7. f \in Surjection(D, P) BY <2>5, <2>6 DEF Surjection
  <2>8. IsInjective(f)
    <3> SUFFICES ASSUME NEW b \in D, NEW c \in D, b # c PROVE Entry(t, b) # Entry(t, c)
      BY <2>1 DEF IsInjective
    <3>1. Entry(t, b) \in Nat /\ Entry(t, c) \in Nat BY <1>5
    <3> QED BY <1>1, <1>6, <3>1
  <2>9. f \in Injection(D, P) BY <2>5, <2>8 DEF Injection
  <2>10. ExistsBijection(D, P) BY <2>7, <2>9 DEF ExistsBijection, Bijection
  <2>11. Cardinality(P) = Cardinality(D) BY <2>2, <2>10, FS_Bijection
  <2> QED BY <1>2, <2>3, <2>11
<1>8. ASSUME NEW p \in PlacesIn(t)
      PROVE  /\ p >= KFooterSec(asked) /\ p >= KBatStartSec + BatSectors(asked)
             /\ p + SBmp_SizeInSectors(asked) + SectorsPerBlock(asked) <= file.size
             /\ \A q \in PlacesIn(t) :
                  p < q => p + Cardinality(p .. p + SBmp_SizeInSectors(asked) + SectorsPerBlock(asked) - 1) <= q
  <2>1. PICK b \in D : p = Entry(t, b) BY <1>4, <1>8
  <2>2. p \in Nat /\ p >= KFooterSec(asked) /\ p + BlockLen(asked) + 1 <= file.size
    BY <1>5, <2>1
  <2>3. PICK m, d : m = SBmp_SizeInSectors(asked) /\ d = SectorsPerBlock(asked) OBVIOUS
  <2>4. m \in Nat \ {0} /\ d \in Nat \ {0} /\ BlockLen(asked) = m + d BY <1>1, <2>3
  <2>5. Cardinality(p .. p + m + d - 1) = m + d
    <3>1. p \in Int /\ p + m + d - 1 \in Int BY <2>2, <2>4
    <3>2. PICK z : z = p + m + d - 1 OBVIOUS
    <3>3. Cardinality(p .. z) = IF p > z THEN 0 ELSE z - p + 1 BY <3>1, <3>2, FS_Interval
    <3>4. ~(p > z) /\ z - p + 1 = m + d BY <2>2, <2>4, <3>2
    <3> QED BY <3>2, <3>3, <3>4
  <2>6. ASSUME NEW q \in PlacesIn(t), p < q PROVE p + (m + d) <= q
    <3>1. PICK c \in D : q = Entry(t, c) BY <1>4, <2>6
    <3>2. q \in Nat BY <1>5, <3>1
    <3>3. b # c BY <2>1, <2>2, <2>6, <3>1, <3>2
    <3>4. p + (m + d) <= q \/ q + (m + d) <= p BY <1>6, <2>1, <2>4, <3>1, <3>3
    <3> QED BY <2>2, <2>4, <2>6, <3>2, <3>4
  <2>7. p >= KBatStartSec + BatSectors(asked) BY <1>1, <2>2, Constants
  <2>8. p + m + d <= file.size BY <1>1, <2>2, <2>4
  <2> QED BY <2>2, <2>3, <2>5, <2>6, <2>7, <2>8
<1> QED BY <1>7, <1>8 DEF ApartIn

LEMMA MadeApart == ASSUME Shape, MadeInv, BlocksInv, TablesFit PROVE BlocksApart
<1> SUFFICES ASSUME made, ~cut, Dynamic
    PROVE  ApartIn(TableOf(file, asked)) /\ (session.open /\ session.cached => ApartIn(session.table))
  BY DEF BlocksApart, ApartIn
<1>1. MadeTable
  BY AskedIsValid DEF MadeTable, TablesFit, Dynamic
<1>2. Laid(Current, file, asked) BY <1>1 DEF BlocksInv
<1>3. PICK t, u : t = TableOf(file, asked) /\ u = Current OBVIOUS
<1>4. Laid(t, file, asked) BY <1>2, <1>3, LaidClosed, Zenon
<1>5. ApartIn(t)
  <2>1. \A b \in Blocks(asked) : IsPlace(Entry(t, b), asked) BY <1>1, <1>3, EntriesArePlaces
  <2>2. AllIn(t, file, asked) /\ Separate(t, asked) BY <1>4 DEF Laid
  <2> QED BY <1>1, <2>1, <2>2, LaidIsApart
<1>6. ApartIn(u)
  <2>1. \A b \in Blocks(asked) : IsPlace(Entry(u, b), asked) BY <1>1, <1>3, EntriesArePlaces
  <2>2. AllIn(u, file, asked) /\ Separate(u, asked) BY <1>2, <1>3 DEF Laid
  <2> QED BY <1>1, <2>1, <2>2, LaidIsApart
<1>7. session.open /\ session.cached => session.table = u BY <1>3 DEF Current
<1> QED BY <1>3, <1>5, <1>6, <1>7

(* As long as the power does not fail, no two blocks of a file that was made   *)
(* share a sector, none has one of the structures before them, and all end in *)
(* the file, for every request whose table fits the place that is left for it: *)
(* in the table of the file and in that of the session.                       *)
THEOREM BlocksAlwaysApart == ASSUME TablesFit PROVE Spec => []BlocksApart
<1>1. Shape /\ MadeInv /\ StartInv /\ BlocksInv /\ FirmInv => BlocksApart
  BY MadeApart
<1> QED BY <1>1, BlocksInvariance, PTL
=============================================================================
