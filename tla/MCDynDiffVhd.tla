---------------------------- MODULE MCDynDiffVhd ----------------------------
(***************************************************************************)
(* Finite instances of DynDiffVhd for TLC.  The last block of the disk is  *)
(* partly used when there are more sectors than the disk's size.           *)
(***************************************************************************)
EXTENDS DynDiffVhd, TLC

ParentSectors == [s \in 0 .. VhdSizeInSectors - 1 |-> IF s = 0 THEN "p0" ELSE IF s = 1 THEN "p1" ELSE "p2"]

AllData == {"zero", "new", "p0", "p1", "p2"}

New == {"new"}

\* Ranges: within a block, over the blocks of the disk, the whole disk.
MixedRanges == {<<0, 0>>, <<1, 2>>, <<0, 2>>}

\* A block, and parts of two blocks.
BlockRanges == {<<0, 1>>, <<1, 2>>}

\* The last block may be in the file when a call writes to both.
LastOrWhole == {<<2, 2>>, <<0, 2>>}

BothSectors == {<<0, 0>>, <<0, 1>>}

AllModes == {{}, {"RDWR"}, {"RDWR", "PURE"}, {"RDWR", "TRIM"}}

WritingModes == AllModes \ {{}}

PlainMode == {{"RDWR"}}

=============================================================================
