---------------------------- MODULE VhdGeometry ----------------------------
(***************************************************************************)
(* The arithmetic of a VHD file: the size of the disk as cylinders, heads  *)
(* and sectors, and the places of the structures in the file.  Places and  *)
(* sizes are in sectors of 512 bytes, with the numbers of the code.        *)
(***************************************************************************)
EXTENDS Integers

KDefSecSize == 512
KDefSecPerBlockLog2 == 12
EntriesPerSector == KDefSecSize \div 4

RoundUp(val, log2) == ((val + 2^log2 - 1) \div 2^log2) * 2^log2

(* DG_SectorsToCHS, which is the algorithm of the VHD specification *)
MaxSectors == 65535 * 16 * 255

LimitedSize(sectors) == IF sectors > MaxSectors THEN MaxSectors ELSE sectors

GeometryOf_NoLargest(secs) ==
  LET cth17 == secs \div 17
      heads17 == LET h == (cth17 + 1023) \div 1024 IN IF h < 4 THEN 4 ELSE h
      CHS(cth, heads, spt) == [cylinders |-> cth \div heads, heads |-> heads, spt |-> spt]
  IN  IF cth17 < heads17 * 1024 /\ heads17 <= 16 THEN CHS(cth17, heads17, 17)
      ELSE IF secs \div 31 < 16 * 1024 THEN CHS(secs \div 31, 16, 31)
      ELSE CHS(secs \div 63, 16, 63)

GeometryOf(secs) ==
  LET cth17 == secs \div 17
      heads17 == LET h == (cth17 + 1023) \div 1024 IN IF h < 4 THEN 4 ELSE h
      CHS(cth, heads, spt) == [cylinders |-> cth \div heads, heads |-> heads, spt |-> spt]
  IN  IF secs >= 65535 * 16 * 63 THEN CHS(secs \div 255, 16, 255)
      ELSE IF cth17 < heads17 * 1024 /\ heads17 <= 16 THEN CHS(cth17, heads17, 17)
      ELSE IF secs \div 31 < 16 * 1024 THEN CHS(secs \div 31, 16, 31)
      ELSE CHS(secs \div 63, 16, 63)

SectorsToCHS(sectors) == GeometryOf(LimitedSize(sectors))

ChsToSectors(chs) == chs.cylinders * chs.heads * chs.spt

-----------------------------------------------------------------------------
(* What the structures of a file say; r is what was asked for: the type of  *)
(* the disk, its sectors, the logarithm of the sectors in a block.          *)

(* What is left of the size that was asked for *)
ChsSectors(r) == ChsToSectors(SectorsToCHS(r.sectors))

(* iCurrSize of the footer *)
CurrSize(r) == RoundUp(ChsSectors(r), r.secPerBlockLog2)

MaxBatEntries_RoundDown(r) == ChsSectors(r) \div 2^r.secPerBlockLog2

MaxBatEntries(r) == 1 + (ChsSectors(r) - 1) \div 2^r.secPerBlockLog2

(* What the disk is taken for when it is opened *)
CHS_DiskSzInSectors(r) ==
  IF r.type # "Fixed" /\ CurrSize(r) > ChsSectors(r)
  THEN RoundUp(ChsSectors(r), KDefSecPerBlockLog2)
  ELSE ChsSectors(r)

SizeAccepted(r) == CHS_DiskSzInSectors(r) >= 2 /\ CHS_DiskSzInSectors(r) <= CurrSize(r)

-----------------------------------------------------------------------------
KHdrStartSec == 1
KBatStartSec == 3

(* KBatSizeInSectors, which divides the number of entries, and not their    *)
(* bytes, by the size of a sector                                           *)
KBatSizeInSectors(r) == 1 + (MaxBatEntries(r) - 1) \div KDefSecSize

(* The sectors the entries really take, as BatEntryValid has them *)
BatSectors(r) == (MaxBatEntries(r) + EntriesPerSector - 1) \div EntriesPerSector

SectorsPerBlock(r) == 2^r.secPerBlockLog2
SBmp_SizeInSectors(r) == RoundUp(SectorsPerBlock(r) \div 8, 9) \div KDefSecSize

(* Locators take one sector each: paths are shorter than that. *)
KNumLocators == 4
KLocatorsStartSec(r) == KBatStartSec + KBatSizeInSectors(r) + 1

KFooterSec_OneLess(r) ==
  CASE r.type = "Fixed" -> CurrSize(r)
    [] r.type = "Dynamic" -> KBatStartSec + KBatSizeInSectors(r) - 1
    [] r.type = "Diff" -> KLocatorsStartSec(r) + KNumLocators

KFooterSec(r) ==
  CASE r.type = "Fixed" -> CurrSize(r)
    [] r.type = "Dynamic" -> KBatStartSec + KBatSizeInSectors(r)
    [] r.type = "Diff" -> KLocatorsStartSec(r) + KNumLocators
=============================================================================
