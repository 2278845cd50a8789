# libvhd2 in TLA+

libvhd2 reads and writes virtual hard disks in the VHD format: *fixed* disks, *dynamic*
disks, whose blocks are appended to the file when they are first written, and
*differencing* disks, which hold what changed since a parent VHD was left alone.  This
directory specifies the part of the library that decides what a client reads back: the
files as they are created, recognised and extended; the Block Allocation Table, the sector
bitmaps, their write-back caches, and the calls that open, read, write, discard, flush and
close a dynamic or differencing disk; the coalescing of chains of differencing disks; and
the handles, descriptors and locks of processes that share files - with system calls that
fail, processes that die between any two of them, and the loss of power.

## The system

| Component | State | Operations | Works with |
|---|---|---|---|
| `CSectorMapper`, `CSectorBmpPage` (`block_mng.cpp`) | LRU list of pages, each with a state and a bit vector; a state for the whole cache | set and reset bits, get a bitmap, flush, invalidate, close | raw I/O of the file; called by dynamic and differencing VHDs and by coalescing |
| `CBat` (`block_mng.cpp`) | a buffer for the whole table, a state | read and write an entry, flush, invalidate, close | raw I/O; called by the same |
| `CVhdDynDiffBase` (`vhd_file.cpp`) | footer, header, file descriptor, the two caches | open, close, flush, invalidate, read, write, append a block | calls the leaf classes block by block |
| `CVhdFileDynamic`, `CVhdFileDiff` | mode flags; the parent's object | read and write sectors of one block, discard, process blocks for pure mode | table, bitmaps, raw I/O, parent |
| `CVhdFileFixed` | file descriptor | read, write | raw I/O |
| coalescing (`vhd_file_coalesce.cpp`) | names of files, a temporary VHD | copy blocks of parents into the tail or into a temporary file, change the parent, rename, delete | a whole chain of VHDs |
| API and handles (`libvhd2.cpp`, `CHandleMapper`) | a table of open objects and their number | the `VHD_*` calls | everything above |
| raw I/O, opening, locking (`vhd_file.cpp`) | descriptor, record lock | open and recognise a file, read and write sectors, sync | the kernel; all VHDs |
| creation (`vhd_create.cpp`) | none | write an empty VHD, delete it if that fails | file structures, raw I/O |
| file structures (`data_structures.cpp`) | footer, header, locators | encode, decode, check, geometry | opening, creation, coalescing |
| bit vectors (`utils.cpp`) | words of bits | fill, test, and/or/invert, find extents | bitmap cache, coalescing |

What is hard here is failure and order.  The library has no threads, but several processes
may work on the same files, kept apart by record locks only.  What it has is three
write-back caches in front of one file (the table, the bitmaps, the kernel's), many steps in
every call, and a client that may call in any order.  A cached page has five states, two of
which drop its buffer; an append is three or more writes; a write that fails half-way leaves
its earlier steps behind; a session may use the bitmaps, ignore them ("pure" mode), or
switch bits off again (TRIM), and the next session need not use the same mode.
`PROJECT.json` lists these hazards at their lines, each with the properties that watch it or
the reason why none does yet.

What makes each component right:

* bitmap cache: no bit is lost or invented by caching, eviction, partial failure; a flush
  that reports success leaves every bitmap in the file;
* table cache: a clean cache is the file; an entry reaches the file by the flush its append
  asks for;
* dynamic and differencing VHD: no two blocks share a place in the file; the footer is
  always where the next append looks for it; a pure session finds the bitmaps it ignores
  full; a read returns what was last written (which the code breaks for reads of several
  sectors of a partly copied block, see below); a call changes nothing outside its range; after
  a crash a sector has one of its recent contents;
* files: a new file has its structures where every later call computes them; what was synced
  once opens ever after, whichever footer is lost; blocks never share a sector;
* sessions: a process that writes a file is alone with it; no descriptor, lock or handle is
  left behind by a call that failed; a finished file is never deleted by another's failure;
* bit vectors: an operation on words changes the bits it is asked to and no other, and a scan
  meets every bit once;
* chains: a file's parent is the one whose UUID it records, found by its locators;
* coalescing: the content of the disk is the same before, between and after its steps, as the
  client reads it and as it is on disk (until it copies what the code reads from the wrong
  place); no file that the chain needs is deleted; a failure or
  a crash leaves a chain that opens, except where the code says that it may not.

## The modules

| Module | What it is |
|---|---|
| `AllocBitmaps` | abstract: a store of bitmaps with a current and a durable value each |
| `SectorMapper` | `CSectorMapper` and `CSectorBmpPage`, call by call |
| `SectorMapperProofs` | theorems of `SectorMapper` |
| `MCSectorMapper` | instances of `SectorMapper` for TLC |
| `Bat` | `CBat`: its state, and one operator for each thing it does to it |
| `DynDiffVhd` | a dynamic or differencing VHD from opening to closing, one system call at a time; composes `Bat` and, for the bitmaps, `AllocBitmaps` |
| `VirtualDisk` | abstract: the disk a client of libvhd2 sees |
| `DynDiffVhdHistory` | `DynDiffVhd` with the history variable that maps it to `VirtualDisk` |
| `DynDiffVhdProofs` | theorems of `DynDiffVhd` |
| `VirtualDiskProofs` | the theorem that `DynDiffVhdHistory` implements `VirtualDisk` |
| `MCDynDiffVhd`, `MCVirtualDisk` | instances of the two for TLC |
| `VhdChain` | a directory of VHD files: finding and opening parents, reading through the chain |
| `Coalesce` | `VHD_CoalesceChain` over a chain, one system call at a time, beside a client that writes |
| `CoalesceHistory` | `Coalesce` with history variables for the content the disk should have |
| `CoalesceProofs` | theorems of `Coalesce` and `CoalesceHistory` |
| `MCCoalesce`, `MCCoalesceHistory` | instances of the two for TLC |
| `VhdGeometry` | the arithmetic of a file: geometry, sizes, places of the structures |
| `VhdFile` | one file sector by sector: creation, recognition, appends, syncs, loss of power |
| `VhdFileProofs` | theorems of `VhdGeometry` and `VhdFile` |
| `MCVhdFile` | instances of `VhdFile` for TLC |
| `Sessions` | processes with handles, descriptors and record locks on the files of a chain |
| `SessionsProofs` | theorems of `Sessions` |
| `MCSessions` | an instance of `Sessions` for TLC |
| `BitScan` | abstract: a walk over the runs of equal bits in a range |
| `BitVector` | `CBitVector` and `TBitExtentFinder`, on words with padding bits |
| `BitVectorProofs` | theorems of `BitVector` |
| `MCBitVector` | an instance of `BitVector` for TLC |
| `NaturalsLemmas` | facts about numbers and finite sets that the proofs share |

The detailed cache and the detailed VHD are not composed directly: the product would be out
of TLC's reach.  `SectorMapper` is shown, and proved, to implement `AllocBitmaps`; then
`DynDiffVhd` uses `AllocBitmaps` in its place, with every behaviour the abstract store allows
(any bitmap may be written back at any call).  The others stand beside these: `VhdFile` has
the places in the file that `DynDiffVhd` counts in slots, and no content; `Sessions` has the
processes and locks, and no data; `BitVector` has the words that the others take for sets of
bits.

### SectorMapper

`pages[b]` is the page of the block that starts at `b`: its `TSectorBitmapState` and its bit
vector, as the set of its '1' bits.  `iPages` is the list, most recently used first, `iState`
the state of the cache, `media` the bitmaps in the file, `reply` the last call and what it returned.
`Populate`, `EvictionFails` and `ImportFails` are the outcomes of `DoGetPopulatedPage`;
`SetAllocBmpBits`, `ResetAllocBmpBits`, `ImportData`, `CleanPage` are the page's own
transitions.  Each call is one action: nothing of a call but its raw I/O is visible outside,
and that I/O is modelled with its failures.

* A failed write leaves the old or the new bitmap in the file.
* A read that fails while populating a page deletes the page and leaves its pointer in the
  list (`"Freed"`).  Whatever call walks the list next uses freed memory; the model lets it
  end the process (`ListUsable` and `ProcessDies`).
* `Fault` (dirty data dropped without leave) ends the process too.
* `AppendBlock` is the one write of a bitmap that goes around the cache.

### DynDiffVhd

The file is a sequence of slots, each a block with its bitmap; `end` is the slot in whose
place the last sector of the file is, and `footers` the places that hold a footer.  `data` is
the content of the slots.  `call` holds the call being executed, a program counter and its
local variables; the actions of `Step` are the pieces of the calls between two system calls:

| Call | Actions, in order |
|---|---|
| `VHD_WriteSectors` | `WriteSectors`, then for each block `ReadBlockEntry`, for a new one `AppendFooter`, `AppendBitmap`, `FillAndPlaceEntry`, and always `WriteData` (or `WriteDataAnywhere`), `SetBits`; at the end of a call that appended, `FlushBat`, `FlushMapper`, `FlushReturns` |
| `VHD_DiscardSectors` | `DiscardSectors`, `ResetBits` for each block |
| `VHD_ReadSectors` | `ReadSectors`, `ReadSectorsFails`, `ReadSectorsMissesError` (one step: a read changes the caches only) |
| `VHD_Flush`, `VHD_Close` | `Flush` or `Close`, `FlushBat`, `FlushMapper`, `FlushReturns` or `CloseReturns` |
| `VHD_Open` | `Open` or `OpenRefused`; in a writable pure session `ScanBlock`, `FillUnset`, `SetUnset` for each block, the flush, `OpenReturns` |
| `VHD_InvalidateCaches` | `InvalidateCaches` |

`DiskType` chooses the class: a sector that is not in the file is zeros in a dynamic VHD and
the parent's in a differencing one (`Background`), the blocks of a dynamic one are created
with all bits set, and only one of them checks for a read-only session when it discards.
`Faults` names the system calls that may fail.  A write that fails has written any part of
what it should; that covers a process that dies in the middle of one as well.

The choices made:

* The process may die at any step (`ProcessDies`); what the kernel was given survives.  Loss
  of power, where the kernel's writes are lost in any order, is in `VhdFile`.
* Release builds: `ASSERT` does nothing, `Fault` aborts.
* Blocks are of 2MB or more, so that a bitmap sector has no padding bits.
* A torn footer counts as a footer or as none; the size of the file is counted in slots.
* An error code taken for a table entry is `Bogus`.  The sector number computed from it has 32
  bits: it wraps, and a write goes over the copy of the footer, the header, the table and the
  first blocks, or it does not, and the write goes two terabytes into the file.  Nothing could
  be said of such a file: `WriteDataAnywhere` gives it up (`end` is `Bogus`), and it is not
  opened again.  A bitmap at such a place is not found, so that reads fail, but in pure mode,
  where they return anything (`ReadAnywhere`).
* A differencing VHD reads a block that has a part of its sectors extent by extent, a run of
  sectors that are all in the file or all in the parent.  The code loses two things there.  An
  extent of the parent is always read from where the request starts
  (`vhd_file_diff.cpp:773`): the sectors before it in the request (`Before`) are missing from
  the place in `ReadValue`.  And an error is returned for the last extent only
  (`ErrorsMissed`).
* `InvalidateCaches` needs clean bitmaps.  The cache faults on a dirty state of the whole;
  `bitmap = bitmapOnMedia` is weaker than that state being clean, and what faults is in
  `ProcessDies`.
* A file opened read-only is not written: flushing dirty bitmaps fails there.

`DynDiffVhdHistory` adds `recent`, for every sector the contents it had or was being given
since all was last durable.  `VirtualDisk` says, in terms of that, what a client may rely on:
reads return the content, of a differencing VHD (`Mixes`) only sectors that are read alone of
their block; a write changes its range only, and only to its value (in pure mode a failed write
to a new block of a differencing VHD may leave zeros, `Hole`); a discard brings back the
background, at worst in other sectors of the blocks it touches; a flush that reports success
makes everything durable; a crash gives each sector one of its recent contents, but not
necessarily the last one, and data that was discarded may come back.

### VhdChain and Coalesce

`files[f]` is the file with the name `f`: its UUID, its parent's UUID, the names its locators
hold, the blocks and bits that are set and the value of every sector.  The names are numbers:
the tail is 0, its parents follow, the head is `NumDiffs`, and `Tmp` is the temporary file.
`DoFindParentFile`, `OpenParentVHD`, `ParentsOf` find the chain as the code does, parent by
parent; a file that was replaced under its name is found by that name and must have the UUID
the child asks for.  `vhd[f]` is the object of the tail or of the temporary file: open or not,
the flags, the header's copy of the parent's UUID, the cached table and bitmaps and which of
these are dirty.  `call` is the `VHD_CoalesceChain` being executed.

| Code | Actions |
|---|---|
| `Do_VHD_CoalesceChain`, `GetInfo` of the parents | `CoalesceChain` |
| `GenerateFile` and opening of the temporary file | `CreateTmp`, `GenerateTmp` |
| `CoalesceDataIn`, `DoCoalesceBlock` | for each block `CoalesceBlock`, if the block is new `AppendBlock`, for each extent `CopyExtent`, `FlushBits` |
| `ChangeParentVHD` | `Detach`, `WriteLocator` for each locator, `WriteHeader` |
| `CoalesceChain_Safely` | after that `FlushTmp`, `CloseTail`, `Rename`, `Reopen`; on errors before it `GiveUp` |
| `DoDeleteStrayParents` | `UnlinkStrays` for each name |

Open, writes, flush and close of the client are one step each here; `DynDiffVhd` has their
steps.  Every file may hold any sectors at first, each with the number of its file, so that
a wrong source shows as a wrong number.  The choices made:

* The sectors of an extent are copied by one read through the chain, in which every file with a
  part of them looks in the wrong place of its parent and misses errors, as above: `Places` says
  where each parent is asked, `ReadRange` what comes back, `ErrorsMissed` which sectors may be
  anything.  Extents of more than 256 sectors, which the code copies in pieces, are copied in
  one.  The client's own content, `Contents`, is that of reads of single sectors.
* Deleting the temporary file may fail, and the code ignores it (`UnlinkTmp`): the file stays,
  and a later creation of it may fail.
* A locator or a header that is written half-way leads nowhere, or is that of no VHD.
* A failed write of sectors leaves any of them written; a failed flush any of the dirty
  bitmaps, and the table or not.  Bitmaps of other blocks may be written at every access to
  the cache (`EvictBut`), for their pages may be evicted then.
* A parent always has the flags of its child without `RDWR`; parents' caches are not modelled,
  for nothing writes to a parent.
* The temporary file is in the directory of the result, so that relative locators mean the
  same in both.
* A pure session that cannot be opened is left as it was; `DynDiffVhd` has what it wrote.
* The chain's geometry matches, names fit into their locators unless `"room"` may fail.
* `fcntl` locks and other processes are in `Sessions`, loss of power in `VhdFile`; neither is
  combined with coalescing.

`CoalesceHistory` adds `content`, what the client is to read, `recent`, what each sector may
hold when the process dies, `risked`, whether a call has begun to change the parent of
the tail itself, and `misread`, whether an extent was copied that a file of the chain holds a
part of (`MeetsMixed`).

### VhdGeometry and VhdFile

`VhdGeometry` has the numbers of the code: `SectorsToCHS`, the sizes `CurrSize` and
`CHS_DiskSzInSectors` that the geometry is rounded to when the file is made and when it is
opened, the entries of the table (`MaxBatEntries`), and the places of table, locators and
footer.  In `VhdFile`, `file` is the file as the system calls have left it and `durable` as it
is if the power fails; a sector is what it is part of and, in a table, how many of its first
words are 0xFFFFFFFF and which hold places.  A file whose size is no multiple of a sector is
`ragged`.

| Code | Actions |
|---|---|
| `VHD_Create`, `GenerateFile` | `VHD_Create`, `OpenParent`, `Generate` for each write of `Layout`, `Generated`, `Open` |
| `DoCreateFromFile`, `Open` | `VHD_Open`, `Open`, with `Recognised` and `SizeAccepted` |
| `VHD_WriteSectors` | `WriteBlock`, for a new block `AppendBlock`, `AppendFooter`, `AppendBitmap`, then `WriteData` and the flush |
| `VHD_Flush`, `VHD_Close` | `VHD_Flush`, `FlushBat`, `FlushBits` for each bitmap, `Sync` |

The choices made:

* A write that fails has written its sectors up to some point, with a part of one only behind
  the end of the file.  A power failure takes back any sectors and the size, each for itself,
  of what was written since the last successful fsync.
* Power is lost once, and after the first sync: `GenerateFile` never syncs, so before that
  nothing is promised.
* All footers and headers of the file are of one request; checksums are a sector that is, or
  is not, a footer.  Locators take one sector each.
* When both footers are gone but the header is there, `DoCreateFromFile` is "not implemented"
  and calls `Fault`: the result is `"Fault"`.
* Of the data of a block, and of the zeros that fill a fixed disk, the first sector is written.
* O_DIRECT and its alignment are left out.

### Sessions

`names` maps file names to inodes; a descriptor and a record lock belong to a process and an
inode, and closing any descriptor of an inode drops the process's lock on it.  Every process
makes one call at a time, in the steps between which others run:

| Code | Actions |
|---|---|
| `VHD_Open`; the lazy opening of a parent | `VHD_Open` or `OpenParentVHD`, then `OpenFile`, `LockFile`, `Recognise` |
| `VHD_Create` | `VHD_Create`, `CreateFile`, `LockNew`, for a differencing VHD the opening of the parent, `Generate`, `Finish`, `CloseParent`, `CloseNew`, on failure `Unlink`, else the steps of `VHD_Open` |
| `VHD_Close` | `VHD_Close`, `CloseFile` for each file of the chain |

The choices made:

* A process uses every file of a chain for one VHD at a time (`OneUse`), as
  `libvhd2/README:46` asks: "Locks seem to work only for different processes".  With a second
  use in one process, closing either would drop the lock of both.
* What is in a file is `"empty"`, `"partial"`, `"whole"` or `"abandoned"`; a file that is not
  whole may be taken for a VHD or refused.  A parent may be refused when whole, because it was
  made anew with another UUID.
* Pure mode opens its parents at another time and is left out.
* A free inode is chosen by `CHOOSE`: inodes differ by nothing else.

### BitScan and BitVector

`data` maps the numbers of the words to the sets of their '1' bits, padding bits of the last
word included; `finder` is the `TBitExtentFinder` of a scan, and `BitScan` the walk it
implements.  A shift by the width of a word is undefined in C++ and shifts by nothing on the
processors the code is built for; the code guards against it and so does `LowBits`.

* `ImportData` that starts inside the vector puts the trailing bits of its stream to the wrong
  byte (`Imported`).  Its only caller, `block_mng.cpp:977`, imports from 0; `Importable` says
  so.
* `IsFilledWith` of a range of one bit returns that bit, whatever value was asked for
  (`RangeIsFilledWith`); `TestsAreOfBits` is of ranges of two bits or more.
* `ExportData`, `Num1Bits` and printing are not modelled.

## The runs

| Run | Shows | Instance |
|---|---|---|
| `sector_mapper` | type invariant, four invariants of the cache, refinement of `AllocBitmaps` | 3 interchangeable blocks, 2 bits, 2 pages, failing I/O, TRIM |
| `dynamic_vhd` | invariants of the file and the tables, refinement of `VirtualDisk` | dynamic, 2 blocks of 2 sectors, the last sector unused, 2 slots, all modes, reads, writes, fsyncs fail |
| `diff_vhd` | coherence of the table cache, full bitmaps in pure mode, refinement of `VirtualDisk`, reads from one place return the content | differencing, 2 slots, ranges of a block and across two, all modes, reads, writes, fsyncs fail |
| `calls_return` | calls return; the flush after an append | dynamic, 3 slots, writable modes, writes to the last block and to both, fsyncs fail and errors of the table's reads are taken for entries, fairness |
| `diff_lost_read_error` | violated: the error of a read is lost | 1 block of 2 sectors, read together; reads fail |
| `diff_misplaced_read` | violated: a read returns another sector of the parent | the same; nothing fails |
| `coalesce` | the chain is at risk only while the parent of the open tail is changed; its content on disk and for the client, until `misread`; strays | 3 diffs and a head, 1 block of 2 sectors, 2 locators; one parent into the tail, two files and the whole chain into the first parent; everything fails |
| `coalesce_returns` | calls return; the temporary file is gone, as long as files can be deleted | 3 diffs, 2 blocks of 1 sector, both ways, creations and renames fail and names do not fit, fairness |
| `bit_vector` | operations, tests and searches on words do what they say bit by bit; refinement of `BitScan`; scans end | 3 words of 4 bits, the last with 1 bit; bytes of 2 bits; fairness |
| `vhd_file` | new files are sound; what was synced opens and stays; blocks are apart; the geometry keeps the size | 8 requests: of each type, with tables that fill a sector exactly and (differencing) need one more, blocks of 256 to 8192 sectors, a disk that is too small and one that is too large; writes, fsyncs, parents and the power fail |
| `bat_overlaps_footer` | violated: the table of 129 entries is written over the footer | 1 request |
| `sessions` | writers are alone; nothing leaks; finished files stay; calls return | 2 processes, a VHD and its child, 3 inodes, 4 sets of flags, 1 handle each; writes fail, processes are killed; fairness |

**Bounds.** Three blocks and two pages are the least for which a page is evicted while
another stays, and evicted again; two bits give the three kinds of bitmap.  Two blocks of two
sectors, the last one partly used, give ranges within a block, over a whole block and across
blocks, and both chunks around new data.  Two slots let both blocks be appended, or one be
lost to a crash and the next append find the disk full; three let two appends follow a lost
one.  Three differencing VHDs
below a client leave, besides the tail, a file that becomes the result and one that becomes a
stray, or two strays; the head is never coalesced.  Two sectors give a block that one parent
holds in part and another in the other part, or with a gap, and two locators a chain that is
found by one after the other was torn.  One written value, distinct from the background, is enough to tell old from new: no
code depends on data.

Two whole words and one bit of a third are the least for which a range spans a word without
ending in it and the last word has padding.  The requests of `vhd_file` are those at which the
layout changes: 128 entries fill a sector of the table, 129 take the spare sector before the
locators.  Writes go to the first and the last block, whose entries are in different sectors
of the table, and the file grows until it is 4500 sectors long, room for a block of each.  Two
processes are enough for a lock to be refused, a VHD and its child for a file that one process
writes and another reads as a parent; with a third inode a name is used again while its old
file is still open.  `KMaxVhdClients` of 1 lets a process meet its limit.

The runs have no constraint: every state reachable with these constants is
explored.

**Fairness.** `FairSpec` assumes `WF_vars(Step)`: a call that can go on does so.  A call runs
in the client's thread and waits for nothing but system calls, so this only says that system
calls return.  Nothing is assumed of clients or of failures.  In `Sessions` the same holds for
each process that is not killed: record locks are asked for with `F_SETLK`, which never waits,
so no step of a call can wait for another process.  In `BitVector` it is the loop over
`FindExtent` that goes on.

**Deadlock** is checked in every run; a client can always call again.

Every property of a passing run has a mutant, a plausible slip in a definition that stands for
code (`X_Slip` beside `X`), under which TLC finds the property violated.

## What the violated runs say

1. `CVhdFileDiff::DoReadSectorsFromBlock` returns the error of the last extent only.
2. It reads an extent that is in the parent from `KStartSectorL + (extFinder.ExtStartPos() -
   sectorInBlock)` (`vhd_file_diff.cpp:773`).  `sectorInBlock` is advanced with every extent
   (`:779`), so that the difference is always 0 and every extent is read from the sectors where
   the request starts.  With sector 0 of a block written and sector 1 not, a read of both
   returns the parent's sector 0 as sector 1.  Reads of sectors from one place
   are right (`UniformReadsReturnContent`), and so are dynamic VHDs, which have no parent.
   Coalescing reads extents through the chain and makes the wrong sectors permanent: with an
   empty tail, sector 0 in its parent and sector 1 in the next, it stores the latter's sector 0
   as sector 1.
3. `KBatSizeInSectors` divides the number of entries, and not their bytes, by the size of a
   sector.  A dynamic VHD with more than 128 blocks has less room for its table than the table
   takes, and the fill of the table with 0xFF goes over the footer that was written before as
   "the footer in the last sector" (`vhd_create.cpp:272-301`).  Up to 256 blocks the file still
   opens by the copy of its footer, but the first append takes the damaged sector for the
   footer, and puts the bitmap of the first block over the end of the table; with some numbers
   beyond that the file is ragged and every append is refused.  In a differencing VHD the
   sector left free before the locators takes the entries up to 256.  The tests make disks of
   16MB only.

The models also do the following, as the code does, without a run of its own:

* `ResetAllocBmpBits` creates the buffer of a page that was imported as fully mapped with
  `DoCreateAllocBitmap`, which zero-fills it, and then resets bits in it
  (`block_mng.cpp:907-919`): discarding some sectors of a full block discards the block.  And
  whether there is anything to reset in a clean page is asked of `IsFilledWith`, which for a
  range of one bit returns the bit itself (`block_mng.cpp:896`, `utils.cpp:617`): a single bit
  that is set stays set.
* The PURE flag of a read-only session is removed from a by-value parameter and not from
  the object (`vhd_file.cpp:417, 487`), so that such a session takes every sector of a present
  block from the file.
* `CBat::ReadEntry` returns an error code as an entry (`block_mng.cpp:209`), and a write may
  then go over the header and the table (`WriteDataAnywhere`).
* The results of `unlink` are ignored (`vhd_file_coalesce.cpp:585, 631, 648`): a temporary file
  that cannot be deleted stays (`UnlinkTmp`), under the UUID of the result.
* VHDs of small blocks whose size is rounded differently are made, and cannot be opened
  (`SizeAccepted`): `VHD_Create` fails and leaves the file, though `libvhd2.cpp:66` says that a
  file is created as it should be or not at all.  The request of 17000 sectors in blocks of 256
  is one.
* A creation that is killed after the header was written, before the table was filled, leaves
  a file that opens, with all entries 0: data would be written over the headers (`VhdFile`;
  `BlocksApart` is of files that were made).
* A power failure may keep the entry of a block and lose the bitmap and the size; the next
  append then gives its place to another block (`BlocksApart` is stated until the power fails).
* `EXCLUSIVE_LOCK` (`libvhd2.h:86`) asks for a write lock on a descriptor that is open for
  reading, which POSIX refuses: it can be had for writable sessions only, whose parents are then
  refused (`CanLock`).  Parents are opened, and locked, when they are first read.
* `GenerateFile` closes a file that it could not finish before it deletes it
  (`vhd_create.cpp:714-722`): another process may open it in between.  `VHD_Create` unlocks the
  new file before it opens it, and leaves it when that fails.

* `DoGetPopulatedPage` is "guaranteed" to return a page and returns NULL on I/O errors;
  `SetSectorAllocBits` and `ResetSectorAllocBits` use it (`UpdateOfNull` of `SectorMapper`).
* `CVhdFileDiff::DiscardSectors` works in a read-only session.
* `CoalesceChain_Safely` closes the tail before it renames, and "leave everything the way it
  was" leaves it closed when the rename fails (`Rename` of `Coalesce`).
* `DoCoalesceBlock` gives a pure tail blocks with part of their bits and data; the session
  then reads the rest of such a block from the file, where nothing was written.

## The proofs

Every theorem is proved for all values of the constants that satisfy the named assumptions of
the modules, which TLC evaluates in every run.  A theorem `Spec => []Inv` goes by an inductive
invariant that TLC checked on the instance of a run before it was proved; there is one lemma
for the initial states, one for each action or kind of step, and one for all of `Next`.

| Module | Theorems | Property of a run |
|---|---|---|
| `SectorMapperProofs` | `TypeCorrectness`, `Coherence`, `DirtyPagesTracked`, `NoLostPages`, `CacheBounded` | `TypeOK`, `CacheCoherent`, `DirtyTracked`, `ValidPagesListed`, `ListWellFormed` |
| | `Refinement` | `ImplementsAllocBitmaps` |
| `DynDiffVhdProofs` | `TypeCorrectness`, `BatCoherence`, `BlocksKeepPlaces`, `FooterKept`, `PureSessions`, `AppendsAreFlushed` | `TypeOK`, `BatCoherent`, `TablesSound`, `FooterAtEnd`, `PureBitmapsFull`, `AppendedBlocksFlushed` |
| `VirtualDiskProofs` | `Refinement`, `ReadsAreContent` | `ImplementsVirtualDisk`, `UniformReadsReturnContent` |
| | `DynamicReadsAreContent` | none: `ReadsReturnContent` of dynamic VHDs, which a run violates for differencing ones |
| `CoalesceProofs` | `TypesAreKept`, `NoFileOfTheChainIsDeleted`, `TemporaryFileIsGone`, `OnlyLinksAreAtRisk` | `TypeOK`, `StraysAreUnlinked`, `NoTemporaryFileLeft`, `OnlyChangingParentBreaks` |
| | `DiskIsKept`, `ClientReadsContent` | `DiskKeepsContent`, `ClientSeesContent` |
| | `ChainIsWhole` | the invariant of the others |
| `SessionsProofs` | `NothingEverLeaks`, `WritersAreAlwaysAlone`, `WholeFilesAlwaysStay` | `NothingLeaks`, `WritersAlone`, `WholeFilesStay` |
| `BitVectorProofs` | `TypeCorrectness`, `TestsSeeBits`, `SearchesFindNearest`, `UpdatesAreExact` | `TypeOK`, `TestsAreOfBits`, `FindsNearest`, `UpdatesExact` |
| | `Refinement` | `ImplementsBitScan` |
| `VhdFileProofs` | `SizeKept`, `EverySectorHasAnEntry` | `GeometryKeepsSize` |
| | `AlwaysOpenable`, `EntriesAlwaysSurvive`, `BlocksAlwaysApart` | `StaysOpenable`, `EntriesSurvive`, `BlocksApart` |
| | `TypeCorrect`, `FreshIsSound` | `TypeOK`, `FreshFileSound` |
| | `WhichTablesFit`, `BlocksInvariance` | the hypothesis and the invariant of the others |

**The bitmap cache**, for any set of blocks, any number of bits and of pages, with or without
TRIM and I/O failures.  The four invariants are conjuncts of one inductive invariant, `IInv`:
none is inductive by itself.  Coherence of a page after a flush needs to know that the flush
reached it, so that it is listed and the cache was marked dirty; that the victim of an
eviction leaves no data behind needs that it is the page of one block; and so on.  The lemmas
about lists say where the blocks of `ListWith` come from, those about pages what each
transition of a page does to the bitmap it stands for.

**The file and its tables**, for any number of blocks and sectors and any size of the file:

* `Shape` is `TypeOK` made inductive.  It adds that a clean table is the one in the file
  (`BatCoherence`), which sectors and blocks a call may be at, and which flags a session can
  have;
* `BatCoherence`, `BlocksKeepPlaces` and `FooterKept` are of a table that can be read: with
  `"batRead"` in `Faults` an error code is taken for a place, and data goes there, maybe over
  the table itself;
* `BlocksKeepPlaces` needs `Appending`: between `AppendBitmap` and `FillAndPlaceEntry` the new
  place is the last of the file and in neither table;
* `FooterKept` needs that a write stays in its range (`InRange`) and goes to a place of the
  file;
* `PureSessions` needs how far the scan of Open has come (`OpenInv`), that a block being
  appended has a full bitmap before it is placed (`FillInv`), and that nothing is discarded in
  pure mode (`DiscardInv`);
* `AppendsAreFlushed` is of files whose reads and writes do not fail: a table is dirty only
  during a write that is going to flush it, or when the disk is full.

**The disk a client sees.**  `VirtualDiskProofs` maps every step of `DynDiffVhdHistory` to a
step of `VirtualDisk` or to none, with the invariants above and `DiskInv`:

* `RecentInv` is what makes crashes work: there are two tables, cached and in the file, and
  two sets of bitmaps, and a process that dies leaves any mixture.  So *each* of the four
  combinations must show a content that the sector recently had;
* `DurableInv` says when the two coincide: when the file is closed, and towards the end of a
  flush that has not failed;
* `BlankInv`: what a new block covers was never written, so that nothing old shows through it
  before its bitmap is there;
* `RangeInv`, `WriteInv`, `ValueInv`, `DiscardedInv` and `FilledInv` say what the call being
  executed has done, block by block, to the sectors of its range.

The bitmaps are those of `AllocBitmaps`, which `SectorMapper` implements for every size: the
two refinements make one chain from the LRU cache to the disk.  `Refinement` has two
hypotheses, and each excludes one thing the code does wrong (see above): `"batRead" \notin
Faults`, for an error of the table read is taken for an entry; and `PureWrites`, that `PURE` is
given with `RDWR` only, for on a read-only session it takes sectors that are not in the file.
With either dropped, TLC finds the refinement violated on a small instance.  What the code
does wrong in the reads of a differencing VHD is in the abstract disk instead, which promises
them for sectors read alone of their block (`Mixes`).  That is less than what holds:
`ReadsAreContent` is of all sectors that a read takes from one place, be it the file or the
parent, and `DynamicReadsAreContent` of all sectors of a dynamic VHD.

**Chains and coalescing**, for chains of any length and any number of locators, blocks and
sectors.  The invariant says that there is a set `S` of the parents that is a whole chain
(`Path`: each file of `S` finds the next file of `S`, and the last is the head); that every
locator of the tail that leads anywhere leads into `S`, the first ones no further up than the
later ones (`TailInv`: after a change of parent that was torn, the old parent is still found,
or the new one is); and where each call stands in `S` (`CallInv`, `IntoTailInv`, `SafelyInv`:
that the strays are the files of `S` before the new parent, that the temporary file, where
there is one, takes the place of the first of them, and where the two kinds of call are with
their locators).  `S` is the same before and after every step but two: `WriteHeader`, after
which the tail needs the files from its new parent on, and `Rename`, after which the files
between the result and its new parent are not needed.  So deleting strays keeps the chain
whole, at any moment and after any failure.  `OnlyLinksAreAtRisk` needs in addition that, as
long as no call has come to the tail's own locators, the first of them names its parent
(`ParentNamed`).  `Path` finds its files by recursion over parents, as `GetInfo` does; the
proofs about `ParentsOf` go by `SetInduction` of `NaturalsLemmas`, induction over a set of
numbers.

**The content of a disk that is coalesced** is in the same module, on top of that invariant.
`DiskIsKept` says that whatever has failed and wherever the process died, a chain that can be
opened holds what was written, and `ClientReadsContent` that the client reads it.  `Content`,
the invariant, has these parts:

* `Held`: there is one content, `base`, that all ways to the parents show where the tail has no
  sector of its own: every locator of the tail that leads anywhere leads to files that read
  `base`, so that after a torn change of parent it does not matter which of them is followed.
  The content of the disk is `base` under the sectors of the tail;
* `CacheInv`: what a file has of a block its object has too, and what the object has more is in
  a dirty bitmap or a table that is not written.  `Gains` and `Sheds` say what a flush, a write
  or the loss of an object do to these sectors;
* `CopyInv`: which sectors the call has copied: those of the files it coalesces in the blocks
  it has passed, and of the current block those that are not in `todo`.  That `ToCopy` looks at
  all the parents between the file and the new parent is `LengthInv`;
* `LinkedInv`: when the call comes to the locators, the bitmaps it set are on file (`OnFile`),
  and the new parent shows `base` wherever the file has no sector of its own.  That is why a
  step that fails between two locators, or dies there, changes no content;
* of the temporary file it says that its sectors are those that the files it stands for show
  (`Below`), so that putting it in the place of one of them changes nothing for the tail.

While the parent cannot be reached there is nothing to say, and nothing to lose: `Held` is
kept as long as a parent is `Linked`.

All this is of histories in which no extent was copied that a file of the chain holds a part of
(`misread`), for there the code does lose data.  `ReadTogether` is the lemma that matters: where
no file that the read reaches is mixed in the extent, each parent is asked in the right place,
the first that has one sector of it has them all, and `ReadRange` is what `ReadFrom` finds sector
by sector; then no error is missed either (`NoErrorMissed`).  Both theorems have one hypothesis,
that no session is pure, as in the run: the blocks `DoCoalesceBlock` gives a pure tail have only
part of their data (see above).

`TemporaryFileIsGone` has the hypothesis `"unlink" \notin Faults`, as the run has; the theorems
about the chain and the content do not: a temporary file that stays is harmless to them.

**Sessions**, for any processes, files, chains, modes and number of clients.  The invariant
says of each process, for itself, which inodes its handles and its call know (`KnownOnce`),
that it has one descriptor of each of these and of no other (`Counted`), a lock on each where
the code is past locking (`LocksHeld`), and as many clients as it counts; of the names, that a
process that makes a file keeps its name until it takes it away itself (`Makes`); and of two
processes, that locks are compatible.  What another process does leaves the first part alone
(`LocalKept`), so that each action is one proof about one process.  Assumed is that no file is
its own ancestor, and that there is an inode for every file.

**Bit vectors**, for vectors of any size and words of any width.  The lemmas say, of each
operation on words, what it does to the bits of the vector: masks of first and last words
(`LowBits`, `HighBits`), whole words between, padding that never counts.  `TestsSeeBits` is of
comparisons, and of `IsFilledWith` on two bits or more: on one the code is wrong (see above).
`SearchesFindNearest`
goes from the nearest word that has a bit of the value within the mask to the nearest bit.

**Geometry.**  `SizeKept` follows from `GeometryKeeps`, about `SectorsToCHS`: each of its
divisions by the sectors of a track and by the heads loses less than a cylinder, and the case
that is chosen keeps the number of cylinders below 2^16.  In `EverySectorHasAnEntry`, Open
rounds the size up to blocks of 2MB, whatever the blocks of the file are, and the table was
made for another number; where Open accepts the two (`SizeAccepted`), the block of every sector
has an entry.

**A file in sectors, and loss of power**, for any requests, any sizes of files, and any failures.
The invariant has five parts; each is inductive only together with those before it.

* `Shape`: the types, and what each call knows: an append has its place from the last sector of
  a file that is not ragged, a flush has bitmaps of the session and no others.
* `MadeInv`: while `GenerateFile` writes, the structures it has written are there (`Progress`, by
  the number of writes left); once it is done, the header, the copy of the footer and the table
  stay (`Openable`), in `file` and in `durable`, so that they stay in whatever a loss of power
  makes of the two.  `AlwaysOpenable` follows: what opens a dynamic or
  differencing VHD is never written again, and the footer of a fixed one stays where it is.
* `StartInv`: there are no synced blocks of a file that is being made, or of a fixed disk.
* `BlocksInv`, before the power fails, of the table in force - that of the session, once it is
  cached: every block is in the file, before the last sector, and has its bitmap (`AllIn`); blocks
  are `Separate`; the table of the file has no block that this one has not (`Tables`), and is this
  one when it is clean; synced blocks are in the durable table too.
* `FirmInv`, after it failed: the blocks that were synced before have their bitmaps, and every
  other place in the table is `Away` from them, though it may be shared by others.  A new place
  is away because the size that is left is behind all that was synced.

A step is not taken apart once more for each part: `TableMove`, `BitsMove`, `PlaceMove`,
`CleanMove` and `FailMove` say what an action may do to sectors, tables and blocks, each action
is shown to be one of these, and the parts are proved of the moves.

`TablesFit`, the hypothesis of `TypeCorrect`, `FreshIsSound`, `EntriesAlwaysSurvive` and
`BlocksAlwaysApart`, is that no request has a table larger than its place.  `WhichTablesFit` says which these are: up to 128 entries for a
dynamic VHD and 256 for a differencing one, as the code counts entries where bytes are meant.
With one entry more the last sector of the table is the place of the footer, or of a locator,
and one is written over the other: the run `bat_overlaps_footer` shows the first.  The requests
of `vhd_file` satisfy the hypothesis, up to 128 and 129 entries.  `AlwaysOpenable` holds beyond
it, as the copy of the footer and the header come before the table.

**Only model-checked:** liveness (`CallsReturn`, `ScanEnds`), which under fairness is out of the
prover's reach.  What a run violates (`NoGarbageRead`, `ReadsReturnContent`,
`FooterIsLastSector`) is no theorem; `ReadsAreContent` and `DynamicReadsAreContent` prove the
second where it holds, the theorems under `TablesFit` are of the files where the third does.

## Plan

1. Done: bitmap cache, table cache, dynamic and differencing VHD, chains and coalescing; files
   in sectors and loss of power; sessions of several processes; bit vectors; the proofs above.
2. The kernel's write-back under `DynDiffVhd` and `Coalesce`: what the content of a disk is
   after the power failed.
3. Locks while a chain is coalesced: closing the parents of the temporary file drops those of
   the open chain.
4. The content of VHDs of small blocks, whose bitmaps have padding bits.
5. Pure mode in the middle of a chain: what a pure session reads through parents whose
   bitmaps nobody made full.

## Not modelled

* Logging, printing of information, conversion of names and times: no state of a disk depends
  on them.
* The layout of structures in bytes, their byte order and checksums: a structure is valid or it
  is not.
* Files that this library did not write, and fields that contradict each other.
* The text of errors; of their numbers only which of them is taken for success.
