----------------------------- MODULE DynDiffVhd -----------------------------
(***************************************************************************)
(* CVhdDynDiffBase, CVhdFileDynamic and CVhdFileDiff (vhd_file.cpp,        *)
(* vhd_file_dynamic.cpp, vhd_file_diff.cpp): a dynamic or differencing VHD *)
(* from opening to closing.  The calls proceed one system call at a time,  *)
(* so that any of them can fail and the process can die between any two.   *)
(*                                                                         *)
(* The file is a sequence of slots of one block each, a bitmap sector and  *)
(* the data sectors, and a footer in the sector after the last slot.  The  *)
(* Block Allocation Table (module Bat) maps blocks to slots.  The bitmaps  *)
(* are behind the cache of SectorMapper, used here through what it was     *)
(* shown to implement, AllocBitmaps.  Blocks are of 2MB or more: a bitmap  *)
(* has as many bits as its block has sectors.                              *)
(***************************************************************************)
EXTENDS Naturals, FiniteSets

CONSTANTS
    DiskType,           \* "EVhd_Dynamic" or "EVhd_Diff"
    NumBlocks,          \* Header().MaxBatEntries()
    SectorsPerBlock,
    VhdSizeInSectors,   \* from the geometry: the last block may be partly used
    Data,               \* contents of a sector
    Zero,               \* a sector filled with zeros
    Parent,             \* Parent[s]: sector s of the parent of a differencing VHD
    Garbage,            \* what a buffer holds that no read of the disk has filled
    Written,            \* bound: the contents the clients write
    MaxSlots,           \* bound: how many blocks the file system has room for
    Ranges,             \* bound: the ranges <<first, last>> the clients use
    Modes,              \* the sets of VHD_Open flags the clients use
    Faults              \* the kinds of system calls that may fail

FaultKinds == {"read", "write", "fsync", "batRead"}

Flags == {"RDWR", "PURE", "TRIM"}

ASSUME DiskTypeAssumption == DiskType \in {"EVhd_Dynamic", "EVhd_Diff"}
ASSUME SizeAssumption ==
    /\ NumBlocks \in Nat \ {0} /\ SectorsPerBlock \in Nat \ {0} /\ MaxSlots \in Nat \ {0}
    /\ VhdSizeInSectors \in 1 .. NumBlocks * SectorsPerBlock
ASSUME DataAssumption ==
    /\ Zero \in Data /\ Written \subseteq Data /\ Garbage \notin Data
    /\ Parent \in [0 .. VhdSizeInSectors - 1 -> Data]
ASSUME RangesAssumption ==
    Ranges \subseteq {r \in (0 .. VhdSizeInSectors - 1) \X (0 .. VhdSizeInSectors - 1) : r[1] <= r[2]}
\* VHD_Open refuses PURE with TRIM.
ASSUME ModesAssumption == \A m \in Modes : m \subseteq Flags /\ ~{"PURE", "TRIM"} \subseteq m
ASSUME FaultsAssumption == Faults \subseteq FaultKinds

VARIABLES
    batOnMedia, iBatBuffer, batState,   \* the table, see Bat
    bitmap, bitmapOnMedia,              \* the bitmaps of the slots, see AllocBitmaps
    data,       \* data[x][i]: sector i of the block in slot x
    end,        \* the slot whose place is the last sector of the file
    footers,    \* places that hold a footer
    session,    \* State(), and the flags the file was opened with
    call,       \* the call being executed, and its local variables
    reply       \* what the last call returned

diskVars == <<data, end, footers>>
batVars == <<batOnMedia, iBatBuffer, batState>>
bitmapVars == <<bitmap, bitmapOnMedia>>
vars == <<batVars, bitmapVars, diskVars, session, call, reply>>

Sectors == 0 .. VhdSizeInSectors - 1
Blocks == 0 .. NumBlocks - 1
BlockSectors == 0 .. SectorsPerBlock - 1
Slots == 0 .. MaxSlots - 1

\* Not slots: a free entry, and an error code taken for an entry, a number of 32
\* bits so high that adding a few sectors to it wraps to the start of the file.
Unused == MaxSlots + 1
Bogus == MaxSlots + 2

BAT == INSTANCE Bat WITH Places <- Slots

Mapper == INSTANCE AllocBitmaps WITH
    Blocks <- Slots, Bits <- BlockSectors, TrimEnabled <- TRUE,
    current <- bitmap, durable <- bitmapOnMedia

Dynamic == DiskType = "EVhd_Dynamic"

ReadOnly == "RDWR" \notin session.flags
BlockPureMode == "PURE" \in session.flags
TrimEnabled == "TRIM" \in session.flags

Closed == [open |-> FALSE, flags |-> {}]

SectorToBlockNumber(s) == s \div SectorsPerBlock
SectorInBlock(s) == s % SectorsPerBlock

\* A sector that is not in the file: zeros, or the parent's.
Background == IF Dynamic THEN [s \in Sectors |-> Zero] ELSE Parent

-----------------------------------------------------------------------------
(***************************************************************************)
(* Calls                                                                   *)
(***************************************************************************)

Reply(kind, vals) == [kind |-> kind, vals |-> vals]

NoCall == [op |-> "none", pc |-> "none", first |-> 0, cur |-> 0, last |-> 0, val |-> Zero,
           slot |-> 0, fresh |-> FALSE, flush |-> FALSE, failed |-> FALSE]

Ready == session.open /\ call = NoCall

Begin(op, pc, r, v) ==
    /\ call' = [NoCall EXCEPT !.op = op, !.pc = pc, !.first = r[1], !.cur = r[1],
                              !.last = r[2], !.val = v]
    /\ reply' = Reply("none", <<>>)

At(op, pc) == call.op = op /\ call.pc = pc

Goto(pc) == call' = [call EXCEPT !.pc = pc] /\ UNCHANGED reply

Return(kind) == call' = NoCall /\ reply' = Reply(kind, <<>>)

Refuse == reply' = Reply("error", <<>>) /\ UNCHANGED call

CanFail(kind) == kind \in Faults

\* The part of the range of the call that is in the current block.
CurrBlock == SectorToBlockNumber(call.cur)
CurrRange == {s \in call.cur .. call.last : SectorToBlockNumber(s) = CurrBlock}
CurrSectors == {SectorInBlock(s) : s \in CurrRange}

LastBlock == CurrBlock = SectorToBlockNumber(call.last)

\* Mutant: the block number is not advanced.
NextBlock_SameBlock(pc) ==
    /\ call' = [call EXCEPT !.pc = pc, !.fresh = FALSE]
    /\ UNCHANGED reply

\* Mutant: iFlushMetadata is reset for every block.
NextBlock_NoFlush(pc) ==
    /\ call' = [call EXCEPT !.pc = pc, !.cur = (CurrBlock + 1) * SectorsPerBlock,
                            !.fresh = FALSE, !.flush = FALSE]
    /\ UNCHANGED reply

NextBlock(pc) ==
    /\ call' = [call EXCEPT !.pc = pc, !.cur = (CurrBlock + 1) * SectorsPerBlock, !.fresh = FALSE]
    /\ UNCHANGED reply

\* A file write of the sectors in "all" of slot x: it writes them all and the
\* call goes on, or it fails having written any of them.
WriteSlot(x, all, values, goOn, giveUp) ==
    \E W \in SUBSET all :
      /\ data' = [data EXCEPT ![x] = [i \in BlockSectors |-> IF i \in W THEN values[i] ELSE @[i]]]
      /\ \/ W = all /\ goOn
         \/ giveUp

BackgroundOf(b) ==
    [i \in BlockSectors |->
        LET s == b * SectorsPerBlock + i IN IF s \in Sectors THEN Background[s] ELSE Zero]

\* A file opened for reading is not written.
KeepsMedia == ReadOnly => UNCHANGED bitmapOnMedia

InUse(b) == {i \in BlockSectors : b * SectorsPerBlock + i \in Sectors}

-----------------------------------------------------------------------------
(***************************************************************************)
(* Reading                                                                 *)
(***************************************************************************)

\* Mutant: a sector is in the file as soon as its block is.
FromFile_NoBitmap(s) == BAT!Table[SectorToBlockNumber(s)] # Unused

\* Is sector s read from this file?
FromFile(s) ==
    LET x == BAT!Table[SectorToBlockNumber(s)]
    IN  x # Unused /\ (BlockPureMode \/ SectorInBlock(s) \in bitmap[x])

\* The sectors of range r that are read together with s: those of its block.
PartOf(r, s) == {t \in r[1] .. r[2] : SectorToBlockNumber(t) = SectorToBlockNumber(s)}

\* The sectors read with s that are before its extent, the run of sectors that
\* are all in the file, or all not.
Before(r, s) == {t \in PartOf(r, s) : t < s /\ \E u \in t .. s : FromFile(u) # FromFile(s)}

\* DoReadSectorsFromBlock reads every extent that is not in the file from the
\* sectors of the parent where the request starts, not from where the extent
\* does: "ExtStartPos() - sectorInBlock" is 0 in every round of its loop.
ReadValue(r, s) ==
    IF FromFile(s) THEN data[BAT!Table[SectorToBlockNumber(s)]][SectorInBlock(s)]
    ELSE IF Dynamic THEN Zero
    ELSE Parent[s - Cardinality(Before(r, s))]

\* The content of the disk, according to the caches.
Content ==
    [s \in Sectors |->
        LET x == BAT!Table[SectorToBlockNumber(s)]
            i == SectorInBlock(s)
        IN  IF x # Unused /\ i \in bitmap[x] THEN data[x][i] ELSE Background[s]]

\* Reading bitmaps makes the mapper populate pages; in pure mode it is not used.
PopulateBitmaps == IF BlockPureMode THEN UNCHANGED bitmapVars ELSE Mapper!KeepBits /\ KeepsMedia

ReadSectors(r) ==
    /\ Ready
    /\ BAT!ReadBAT
    /\ PopulateBitmaps
    /\ reply' = Reply("ok", [s \in r[1] .. r[2] |-> ReadValue(r, s)])
    /\ UNCHANGED <<diskVars, session, call>>

\* The table, a bitmap or some sectors cannot be read.  A table that cannot be
\* read gives an error code for the entry, and there is no bitmap at such a place.
ReadSectorsFails ==
    /\ Ready
    /\ \/ CanFail("read") /\ BAT!ReadBAT
       \/ CanFail("batRead") /\ ~BAT!StateValid /\ UNCHANGED batVars
    /\ PopulateBitmaps
    /\ Refuse
    /\ UNCHANGED <<diskVars, session>>

\* CVhdFileDiff reads a block with a mixed bitmap extent by extent, and looks at
\* the result of the last one only: sectors of earlier extents that could not be
\* read, from the file or from the parent, are reported as read.
ErrorsMissed(r) ==
    {F \in SUBSET (r[1] .. r[2]) :
       \A s \in F :
         /\ BAT!Table[SectorToBlockNumber(s)] # Unused
         /\ \E t \in PartOf(r, s) : s < t /\ FromFile(s) # FromFile(t)}

\* In pure mode the sectors of a block are read from where an error code leads
\* that was taken for its entry: of the first blocks of the range, until the
\* table can be read.
ReadAnywhere(r, F) ==
    \E t \in r[1] .. r[2] :
      /\ F = {s \in r[1] .. r[2] : SectorToBlockNumber(s) <= SectorToBlockNumber(t)}
      /\ IF r[2] \in F THEN UNCHANGED batVars ELSE BAT!ReadBAT

ReadSectorsMissesError(r) ==
    /\ Ready
    /\ \E F \in SUBSET (r[1] .. r[2]) :
         /\ \/ CanFail("read") /\ ~Dynamic /\ ~BlockPureMode /\ F \in ErrorsMissed(r) /\ BAT!ReadBAT
            \/ CanFail("batRead") /\ ~BAT!StateValid /\ BlockPureMode /\ ReadAnywhere(r, F)
         /\ reply' = Reply("ok", [s \in r[1] .. r[2] |-> IF s \in F THEN Garbage ELSE ReadValue(r, s)])
    /\ PopulateBitmaps
    /\ UNCHANGED <<diskVars, session, call>>

-----------------------------------------------------------------------------
(***************************************************************************)
(* Writing                                                                 *)
(***************************************************************************)

WriteSectors(r, v) ==
    /\ Ready
    /\ IF ReadOnly THEN Refuse ELSE Begin("write", "readEntry", r, v)
    /\ UNCHANGED <<batVars, bitmapVars, diskVars, session>>

\* Mutant: a free entry is taken for the place of the block.
ReadBlockEntry_NoAppend ==
    /\ At("write", "readEntry")
    /\ BAT!ReadBAT
    /\ call' = [call EXCEPT !.pc = "writeData", !.slot = BAT!Table[CurrBlock]]
    /\ UNCHANGED <<bitmapVars, diskVars, session, reply>>

\* The entry of the block: it may have to be appended first.
ReadBlockEntry ==
    /\ At("write", "readEntry")
    /\ \/ /\ BAT!ReadEntry(CurrBlock, Unused)
          /\ Goto("appendFooter")
       \/ \E x \in Slots \cup {Bogus} :
            /\ BAT!ReadEntry(CurrBlock, x) \/ (CanFail("batRead") /\ BAT!ReadEntryFails(x))
            /\ call' = [call EXCEPT !.pc = "writeData", !.slot = x]
            /\ UNCHANGED reply
    /\ UNCHANGED <<bitmapVars, diskVars, session>>

\* Mutant: the new block is in the table before its bitmap is in the file.
AppendFooter_PlacesEntry ==
    /\ At("write", "appendFooter")
    /\ end < MaxSlots
    /\ footers' = footers \cup {end + 1}
    /\ end' = end + 1
    /\ BAT!WriteEntry(CurrBlock, end)
    /\ call' = [call EXCEPT !.pc = "appendBitmap", !.slot = end]
    /\ UNCHANGED <<bitmapVars, data, session, reply>>

\* Mutant: the file grows before the footer is written behind the new block.
AppendFooter_NotWritten ==
    /\ At("write", "appendFooter")
    /\ end < MaxSlots
    /\ end' = end + 1
    /\ call' = [call EXCEPT !.pc = "appendBitmap", !.slot = end]
    /\ UNCHANGED <<batVars, bitmapVars, footers, data, session, reply>>

\* AppendBlock reads the footer and writes it after the new block ...
AppendFooter ==
    /\ At("write", "appendFooter")
    /\ \/ /\ end < MaxSlots
          /\ footers' = IF end \in footers THEN footers \cup {end + 1} ELSE footers
          /\ end' = end + 1
          /\ \/ call' = [call EXCEPT !.pc = "appendBitmap", !.slot = end] /\ UNCHANGED reply
             \/ CanFail("write") /\ Return("error")
       \/ /\ CanFail("write") \/ CanFail("read") \/ end >= MaxSlots
          /\ Return("error")
          /\ UNCHANGED <<end, footers>>
    /\ UNCHANGED <<batVars, bitmapVars, data, session>>

\* Mutant: pure mode is forgotten.
SetAllBmpBits_NotPure == Dynamic /\ ~TrimEnabled

\* Which blocks are created with all bits set.
SetAllBmpBits == (Dynamic \/ BlockPureMode) /\ ~TrimEnabled

\* ... then the bitmap, over the old footer.
AppendBitmap ==
    /\ At("write", "appendBitmap")
    /\ \/ /\ Mapper!CreateBits(call.slot, IF SetAllBmpBits THEN BlockSectors ELSE {})
          /\ footers' = footers \ {call.slot}
          /\ Goto("fill") \/ (CanFail("write") /\ Return("error"))
       \/ /\ CanFail("write")
          /\ Return("error")
          /\ UNCHANGED <<bitmapVars, footers>>
    /\ UNCHANGED <<batVars, data, end, session>>

\* Mutant: the sectors around the new data are left as they are.
FillAndPlaceEntry_NoFill ==
    /\ At("write", "fill")
    /\ BAT!WriteEntry(CurrBlock, call.slot)
    /\ call' = [call EXCEPT !.pc = "writeData", !.fresh = TRUE, !.flush = TRUE]
    /\ UNCHANGED <<bitmapVars, diskVars, session, reply>>

\* The sectors around the new data are zeroed, or copied from the parent when
\* the new block must not need it, and the entry goes to the cached table.
FillAndPlaceEntry ==
    /\ At("write", "fill")
    /\ LET rest == IF Dynamic THEN BlockSectors \ CurrSectors
                   ELSE IF SetAllBmpBits THEN InUse(CurrBlock) \ CurrSectors
                   ELSE {}
       IN  WriteSlot(call.slot, rest, BackgroundOf(CurrBlock),
                     /\ BAT!WriteEntry(CurrBlock, call.slot)
                     /\ call' = [call EXCEPT !.pc = "writeData", !.fresh = TRUE, !.flush = TRUE]
                     /\ UNCHANGED reply,
                     /\ CanFail("write") \/ (CanFail("read") /\ ~Dynamic)
                     /\ rest # {}
                     /\ Return("error")
                     /\ UNCHANGED batVars)
    /\ UNCHANGED <<bitmapVars, end, footers, session>>

WriteData ==
    /\ At("write", "writeData")
    /\ call.slot # Bogus
    /\ WriteSlot(call.slot, CurrSectors, [i \in BlockSectors |-> call.val],
                 Goto("setBits"), CanFail("write") /\ Return("error"))
    /\ UNCHANGED <<batVars, bitmapVars, end, footers, session>>

\* The bits of the new sectors, and the end of the loop over the blocks.  When
\* the mapper fails it returns NULL, which kills the process: see ProcessDies.
SetBits ==
    /\ At("write", "setBits")
    /\ IF BlockPureMode
       THEN UNCHANGED bitmapVars
       ELSE Mapper!SetBits(call.slot,
                           IF call.fresh /\ SetAllBmpBits THEN BlockSectors ELSE CurrSectors)
    /\ IF ~LastBlock THEN NextBlock("readEntry")
       ELSE IF call.flush THEN Goto("flushBat")
       ELSE Return("ok")
    /\ UNCHANGED <<batVars, diskVars, session>>

-----------------------------------------------------------------------------
(***************************************************************************)
(* Discarding                                                              *)
(***************************************************************************)

DiscardSectors(r) ==
    /\ Ready
    /\ IF ~TrimEnabled \/ (Dynamic /\ ReadOnly)
       THEN Refuse
       ELSE Begin("discard", "resetBits", r, Zero)
    /\ UNCHANGED <<batVars, bitmapVars, diskVars, session>>

ResetBits ==
    /\ At("discard", "resetBits")
    /\ \/ BAT!ReadEntry(CurrBlock, Unused) /\ UNCHANGED bitmapVars
       \/ \E x \in Slots : BAT!ReadEntry(CurrBlock, x) /\ Mapper!ResetBits(x, CurrSectors) /\ KeepsMedia
    /\ IF LastBlock THEN Return("ok") ELSE NextBlock("resetBits")
    /\ UNCHANGED <<diskVars, session>>

-----------------------------------------------------------------------------
(***************************************************************************)
(* Flushing, dropping caches and closing                                   *)
(***************************************************************************)

\* Fault on dirty data, in the table or the bitmaps, is in ProcessDies.
InvalidateCaches ==
    /\ Ready
    /\ batState # "EDirty" /\ bitmap = bitmapOnMedia
    /\ BAT!InvalidateCache
    /\ reply' = Reply("ok", <<>>)
    /\ UNCHANGED <<bitmapVars, diskVars, session, call>>

Flush ==
    /\ Ready
    /\ Begin("flush", "flushBat", <<0, 0>>, Zero)
    /\ UNCHANGED <<batVars, bitmapVars, diskVars, session>>

Close ==
    /\ Ready
    /\ Begin("close", "flushBat", <<0, 0>>, Zero)
    /\ UNCHANGED <<batVars, bitmapVars, diskVars, session>>

\* Table, bitmaps and file are flushed in turn, whether or not one fails.
FlushFailed(pc) == call' = [call EXCEPT !.pc = pc, !.failed = TRUE] /\ UNCHANGED reply

\* Mutant: the bitmaps are not flushed.
FlushBat_SkipsMapper ==
    /\ call.pc = "flushBat"
    /\ BAT!Flush
    /\ Goto("fsync")
    /\ UNCHANGED <<bitmapVars, diskVars, session>>

FlushBat ==
    /\ call.pc = "flushBat"
    /\ \/ BAT!Flush /\ Goto("flushMapper")
       \/ CanFail("write") /\ BAT!FlushFails /\ FlushFailed("flushMapper")
    /\ UNCHANGED <<bitmapVars, diskVars, session>>

FlushMapper ==
    /\ call.pc = "flushMapper"
    /\ \/ Mapper!FlushBits /\ Goto("fsync")
       \/ /\ CanFail("write") \/ ReadOnly
          /\ bitmap # bitmapOnMedia
          /\ Mapper!KeepBits
          /\ FlushFailed("fsync")
    /\ KeepsMedia
    /\ UNCHANGED <<batVars, diskVars, session>>

\* fsync is the last step of a flush; what follows depends on the call.
FlushOutcomes == {call.failed} \cup IF CanFail("fsync") THEN {TRUE} ELSE {}

FlushReturns ==
    /\ call.pc = "fsync" /\ call.op \in {"write", "flush"}
    /\ \E failed \in FlushOutcomes : Return(IF failed THEN "error" ELSE "ok")
    /\ UNCHANGED <<batVars, bitmapVars, diskVars, session>>

\* The object is gone, with what its caches could not write.
DropSession(kind) ==
    /\ BAT!InvalidateCache
    /\ session' = Closed
    /\ Return(kind)

\* The sector number wraps, and the data goes over the copy of the footer, the
\* header, the table and the first blocks; or it does not, and the data goes two
\* terabytes beyond them, if it can.  A file that was written so, be it by a write
\* that failed half-way, has no content that could be followed: it is given up, and
\* not opened again.
WriteDataAnywhere ==
    /\ At("write", "writeData")
    /\ call.slot = Bogus
    /\ \/ end' = Bogus /\ Mapper!LoseBits /\ DropSession("lost") /\ UNCHANGED <<data, footers>>
       \/ CanFail("write") /\ Return("error") /\ UNCHANGED <<batVars, bitmapVars, diskVars, session>>

\* Close flushes once more, and forces its caches closed if the first failed.
CloseReturns ==
    /\ At("close", "fsync")
    /\ \/ /\ ~call.failed
          /\ UNCHANGED bitmapVars
          /\ DropSession("ok")
       \/ /\ TRUE \in FlushOutcomes
          /\ Mapper!LoseBits /\ KeepsMedia
          /\ \E W \in SUBSET Blocks :
               batOnMedia' = [b \in Blocks |-> IF b \in W THEN BAT!Table[b] ELSE batOnMedia[b]]
          /\ iBatBuffer' = BAT!EmptyTable /\ batState' = "EInvalid"
          /\ session' = Closed
          /\ Return("lost")
    /\ UNCHANGED diskVars

\* The process is killed, or aborts: it invalidates dirty caches, it uses a NULL
\* or freed bitmap page.  A write it was in the middle of is one that failed.
ProcessDies ==
    /\ session.open
    /\ Mapper!LoseBits /\ KeepsMedia
    /\ DropSession("lost")
    /\ UNCHANGED diskVars

-----------------------------------------------------------------------------
(***************************************************************************)
(* Opening                                                                 *)
(***************************************************************************)

\* In pure mode the blocks of a writable file are processed before the first
\* call.
Open(flags) ==
    /\ ~session.open
    /\ end # Bogus
    /\ session' = [open |-> TRUE, flags |-> flags]
    /\ IF {"RDWR", "PURE"} \subseteq flags
       THEN Begin("open", "scan", <<0, 0>>, Zero)
       ELSE reply' = Reply("ok", <<>>) /\ UNCHANGED call
    /\ UNCHANGED <<batVars, bitmapVars, diskVars>>

OpenRefused ==
    /\ ~session.open
    /\ end = Bogus
    /\ Refuse
    /\ UNCHANGED <<batVars, bitmapVars, diskVars, session>>

\* ProcessPureBlocksMode gives up: the caches are dropped and the file closed.
OpenFails ==
    /\ Mapper!LoseBits
    /\ DropSession("error")

\* The next block of the loop, call.cur, or the flush after the last.
ScanNext ==
    /\ call' = IF call.cur + 1 < NumBlocks
               THEN [call EXCEPT !.pc = "scan", !.cur = @ + 1]
               ELSE [call EXCEPT !.pc = "flushBat"]
    /\ UNCHANGED reply

ScanBlock ==
    /\ At("open", "scan")
    /\ \/ /\ BAT!ReadEntry(call.cur, Unused)
          /\ ScanNext
          /\ UNCHANGED <<bitmapVars, session>>
       \/ \E x \in Slots :
            /\ BAT!ReadEntry(call.cur, x)
            /\ Mapper!KeepBits
            /\ IF bitmap[x] = BlockSectors
               THEN ScanNext
               ELSE call' = [call EXCEPT !.pc = "fillUnset", !.slot = x] /\ UNCHANGED reply
            /\ UNCHANGED session
       \/ /\ CanFail("read") \/ (CanFail("batRead") /\ ~BAT!StateValid)
          /\ OpenFails
    /\ UNCHANGED diskVars

\* Sectors whose bit is not set are zeroed, or copied from the parent.
FillUnset ==
    /\ At("open", "fillUnset")
    /\ WriteSlot(call.slot,
                 (IF Dynamic THEN BlockSectors ELSE InUse(call.cur)) \ bitmap[call.slot],
                 BackgroundOf(call.cur),
                 Goto("setUnset") /\ UNCHANGED <<batVars, bitmapVars, session>>,
                 (CanFail("write") \/ CanFail("read")) /\ OpenFails)
    /\ UNCHANGED <<end, footers>>

\* Mutant: the bits of a processed block stay as they are.
SetUnset_NotSet ==
    /\ At("open", "setUnset")
    /\ ScanNext
    /\ UNCHANGED <<batVars, bitmapVars, diskVars, session>>

SetUnset ==
    /\ At("open", "setUnset")
    /\ Mapper!SetBits(call.slot, BlockSectors)
    /\ ScanNext
    /\ UNCHANGED <<batVars, diskVars, session>>

\* A failed Flush closes the file; CVhdFileDynamic first closes the mapper, which
\* aborts the process if bitmaps are still dirty.
OpenReturns ==
    /\ At("open", "fsync")
    /\ \/ /\ ~call.failed
          /\ Return("ok")
          /\ UNCHANGED <<batVars, bitmapVars, session>>
       \/ /\ TRUE \in FlushOutcomes
          /\ Mapper!LoseBits
          /\ DropSession(IF Dynamic /\ call.failed THEN "lost" ELSE "error")
    /\ UNCHANGED diskVars

-----------------------------------------------------------------------------

\* The file as VHD_Create leaves it, without blocks.
Init ==
    /\ BAT!Init
    /\ bitmap = [x \in Slots |-> {}]
    /\ bitmapOnMedia = bitmap
    /\ data = [x \in Slots |-> [i \in BlockSectors |-> Zero]]
    /\ end = 0
    /\ footers = {0}
    /\ session = Closed
    /\ call = NoCall
    /\ reply = Reply("lost", <<>>)

Step ==
    \/ ReadBlockEntry \/ AppendFooter \/ AppendBitmap \/ FillAndPlaceEntry
    \/ WriteData \/ WriteDataAnywhere \/ SetBits
    \/ ResetBits
    \/ FlushBat \/ FlushMapper \/ FlushReturns \/ CloseReturns
    \/ ScanBlock \/ FillUnset \/ SetUnset \/ OpenReturns

Client ==
    \/ \E flags \in Modes : Open(flags)
    \/ OpenRefused
    \/ \E r \in Ranges :
         \/ ReadSectors(r)
         \/ ReadSectorsMissesError(r)
         \/ \E v \in Written : WriteSectors(r, v)
         \/ DiscardSectors(r)
    \/ ReadSectorsFails
    \/ InvalidateCaches
    \/ Flush
    \/ Close

Next == Step \/ Client \/ ProcessDies

Spec == Init /\ [][Next]_vars

\* A call goes on until it returns: it runs in a thread of the client.
FairSpec == Spec /\ WF_vars(Step)

-----------------------------------------------------------------------------
(***************************************************************************)
(* Properties                                                              *)
(***************************************************************************)

\* The types of the variables of an open VHD.
TypeOK ==
    /\ BAT!BatTypeOK
    /\ bitmap \in Mapper!Bitmaps /\ bitmapOnMedia \in Mapper!Bitmaps
    /\ data \in [Slots -> [BlockSectors -> Data]]
    /\ end \in 0 .. MaxSlots \cup {Bogus}
    /\ footers \subseteq 0 .. MaxSlots
    /\ session \in [open : BOOLEAN, flags : SUBSET Flags]
    /\ call.op \in {"none", "open", "write", "discard", "flush", "close"}
    /\ call.cur \in Nat /\ call.last \in Nat /\ call.slot \in Slots \cup {Bogus}
    /\ reply.kind \in {"none", "ok", "error", "lost"}

\* A table is sound if its blocks have places of their own, within the file,
\* which hold a bitmap and not the footer of an append that was interrupted.
SoundTable(t) ==
    \A b \in Blocks : t[b] # Unused =>
        /\ t[b] < end
        /\ t[b] \notin footers
        /\ \A c \in Blocks \ {b} : t[c] # t[b]

\* Wherever an append, a flush or the process stops, no two blocks share a place
\* in the file, in the cached table or in the one a later session will read,
\* nor across the two.
TablesSound ==
    /\ SoundTable(batOnMedia)
    /\ SoundTable(BAT!Table)
    /\ \A b, c \in Blocks : BAT!Table[b] = batOnMedia[c] /\ batOnMedia[c] # Unused => b = c

\* The last sector of the file is a footer at every step: AppendBlock takes it
\* for one without looking, and writes the bitmap of the next block over it.
FooterAtEnd == end \in footers

\* "it is _guaranteed_ that the bitmap contains all bits set to 1 and all sectors
\* contain valid data" (vhd_file_dynamic.cpp:235, vhd_file_diff.cpp:716): what
\* lets a pure session ignore the bitmaps, in the file too.
PureBitmapsFull ==
    session.open /\ ~ReadOnly /\ BlockPureMode /\ call.op # "open" =>
        \A b \in Blocks : BAT!Table[b] # Unused =>
            /\ bitmap[BAT!Table[b]] = BlockSectors
            /\ bitmapOnMedia[BAT!Table[b]] = BlockSectors

\* A call that appended blocks flushed the table before it returned, unless a
\* later block of the call could not be appended: the early return of
\* WriteSectors leaves the flush to some later call.  Where no write fails, this
\* is for lack of space.
AppendedBlocksFlushed == call.op = "none" /\ batState = "EDirty" => end >= MaxSlots

\* A cached table that is not dirty is the one in the file.
BatCoherent == BAT!BatCoherent

\* "KErrNone on success, negative value corresponding system error code
\* otherwise" (vhd_file_diff.cpp:689): a read that succeeds has read every sector.
NoGarbageRead ==
    [][call.op = "none" /\ reply'.kind = "ok" =>
         \A s \in DOMAIN reply'.vals : reply'.vals[s] # Garbage]_vars

\* "found an extent of '0's, read corresponding sectors from parent VHDs"
\* (vhd_file_diff.cpp:772): what a read returns is the content, sector by sector.
ReadsReturnContent ==
    [][call.op = "none" /\ reply'.kind = "ok" =>
         \A s \in DOMAIN reply'.vals : reply'.vals[s] = Content[s]]_vars

\* The sectors of R that are in the block of s are all in the file, or all not.
Uniform(R, s) ==
    \A t \in R : SectorToBlockNumber(t) = SectorToBlockNumber(s) => FromFile(t) = FromFile(s)

\* A read that succeeds returns the content, as far as it does not read a block
\* extent by extent, where errors and places in the parent are lost: through
\* cached and stale bitmaps and tables, in sessions of every mode that follow one
\* another, and after what failed or died half-way.
UniformReadsReturnContent ==
    [][call.op = "none" /\ reply'.kind = "ok" =>
         \A s \in DOMAIN reply'.vals :
            Uniform(DOMAIN reply'.vals, s) => reply'.vals[s] = Content[s]]_vars

\* Every call returns, unless the process dies.
CallsReturn == call.op # "none" ~> call.op = "none"

=============================================================================
