------------------------- MODULE VirtualDiskProofs -------------------------
(***************************************************************************)
(* Proof that a dynamic or differencing VHD implements VirtualDisk, for    *)
(* disks of any number and size of blocks, any data and any ranges,        *)
(* whatever system calls fail and wherever the process dies, apart from    *)
(* the failures and the mode for which the code does not.                  *)
(***************************************************************************)
EXTENDS DynDiffVhdHistory, DynDiffVhdProofs, FiniteSetTheorems

\* What a sector holds whose block is in place x, with the bits of a set of bitmaps.
ValueAt(x, maps, s) ==
    IF x # Unused /\ SectorInBlock(s) \in maps[x] THEN data[x][SectorInBlock(s)] ELSE Background[s]

\* Whatever of the caches was written back, a later session finds a recent content.
RecentAt(s) ==
    \A x \in {BAT!Table[SectorToBlockNumber(s)], batOnMedia[SectorToBlockNumber(s)]} :
      ValueAt(x, bitmap, s) \in recent[s] /\ ValueAt(x, bitmapOnMedia, s) \in recent[s]

RecentInv == recent = [s \in Sectors |-> recent[s]] /\ \A s \in Sectors : RecentAt(s)

\* All is written back when the file is closed and when a flush did not fail.
DurableInv ==
    /\ ~session.open \/ (call.pc \in {"flushMapper", "fsync"} /\ ~call.failed) =>
         BAT!Table = batOnMedia
    /\ ~session.open \/ (call.pc = "fsync" /\ ~call.failed) => bitmap = bitmapOnMedia

\* A place behind the end of the file was never written.
Blank(x) == \A i \in BlockSectors : data[x][i] = Zero

BlankInv == \A x \in Slots : x >= end => Blank(x)

\* A range is worked off from its first sector to its last, block by block.
RangeInv ==
    call.op \in {"write", "discard"} =>
      /\ call.first \in Sectors /\ call.cur \in Sectors /\ call.last \in Sectors
      /\ call.first <= call.cur /\ call.cur <= call.last
      /\ \A s \in call.first .. call.last :
           s < call.cur => SectorToBlockNumber(s) < CurrBlock

Flushing == call.pc \in {"flushBat", "flushMapper", "fsync"}

\* A write: where it is done, the sectors have its value; a block that is being
\* appended is in no table, and has the bitmap it was created with; the data is
\* written before the bits are set.
WriteInv ==
    call.op = "write" =>
      /\ ~ReadOnly
      /\ Flushing \/ call.pc \in {"readEntry", "appendFooter", "appendBitmap", "fill",
                                  "writeData", "setBits"}
      /\ \A s \in call.first .. call.last :
           s < call.cur \/ Flushing => Content[s] = call.val
      /\ call.pc = "readEntry" => ~call.fresh
      /\ call.pc \in {"appendFooter", "appendBitmap", "fill"} =>
           BAT!Table[CurrBlock] = Unused /\ ~call.fresh
      /\ call.pc \in {"appendBitmap", "fill"} => Blank(call.slot)
      /\ call.pc = "fill" =>
           \A B \in {bitmap[call.slot], bitmapOnMedia[call.slot]} :
             B = IF SetAllBmpBits THEN BlockSectors ELSE {}
      /\ call.pc \in {"writeData", "setBits"} =>
           /\ call.slot \in Slots
           /\ BAT!Table[CurrBlock] = call.slot
           /\ call.fresh /\ SetAllBmpBits => bitmap[call.slot] = BlockSectors
      /\ call.pc = "setBits" => \A i \in CurrSectors : data[call.slot][i] = call.val

\* The value of a write may be read again from its start on.
ValueInv ==
    call.op = "write" => \A s \in call.first .. call.last : call.val \in recent[s]

\* A discard: where it is done, the background is back, as far as it promises.
DiscardedInv ==
    call.op = "discard" =>
      /\ call.pc = "resetBits"
      /\ \A s, t \in call.first .. call.last :
           s < call.cur /\ s # t /\ SectorToBlockNumber(s) = SectorToBlockNumber(t) =>
             Content[s] = Background[s]

\* Opening for pure mode: sectors whose bits are about to be set hold the background.
FilledInv ==
    call.op = "open" /\ call.pc = "setUnset" =>
      \A s \in Sectors :
        SectorToBlockNumber(s) = call.cur /\ SectorInBlock(s) \notin bitmap[call.slot] =>
          data[call.slot][SectorInBlock(s)] = Background[s]

\* The other calls.
OtherInv == call.op \in {"flush", "close"} => Flushing

DiskInv ==
    /\ RecentInv /\ DurableInv /\ BlankInv
    /\ RangeInv /\ WriteInv /\ ValueInv /\ DiscardedInv /\ FilledInv /\ OtherInv

\* What is said of the call being executed.
CallInv == RangeInv /\ WriteInv /\ ValueInv /\ DiscardedInv /\ FilledInv /\ OtherInv

-----------------------------------------------------------------------------
(***************************************************************************)
(* Sectors and blocks                                                      *)
(***************************************************************************)

\* A sector is determined by its block and its place there.
LEMMA SectorPlace ==
    ASSUME NEW s \in Nat
    PROVE  /\ SectorToBlockNumber(s) \in Nat /\ SectorInBlock(s) \in BlockSectors
           /\ s = (SectorsPerBlock * SectorToBlockNumber(s)) + SectorInBlock(s)
  BY SizeType, DivMod DEF SectorToBlockNumber, SectorInBlock, BlockSectors

\* Sectors are numbers.
LEMMA SectorsType == Sectors \subseteq Nat
  BY DEF Sectors

\* Later sectors are in later blocks, or in the same one.
LEMMA BlocksInOrder ==
    ASSUME NEW s \in Nat, NEW t \in Nat, s <= t
    PROVE  SectorToBlockNumber(s) <= SectorToBlockNumber(t)
<1> DEFINE p == SectorToBlockNumber(s)
           q == SectorToBlockNumber(t)
<1>1. p \in Nat /\ q \in Nat
  BY SectorPlace
<1>2. CASE p = q
  BY <1>1, <1>2
<1>3. CASE p # q
  <2>1. (p + 1) * SectorsPerBlock <= t
    BY <1>3, NextBlockInRange
  <2>2. SUFFICES ASSUME q < p PROVE FALSE
    BY <1>1
  <2>3. (q + 1) * SectorsPerBlock <= p * SectorsPerBlock
    BY <1>1, <2>2, SizeType, ProductMonotone
  <2>4. s >= SectorsPerBlock * p /\ t < (SectorsPerBlock * q) + SectorsPerBlock
    BY SectorPlace, SizeType, SMT DEF BlockSectors
  <2> HIDE DEF p, q
  <2>5. /\ SectorsPerBlock * p = p * SectorsPerBlock
        /\ (SectorsPerBlock * q) + SectorsPerBlock = (q + 1) * SectorsPerBlock
    BY <1>1, SizeType, SMT
  <2>6. QED
    BY <1>1, <2>3, <2>4, <2>5, SizeType, SMT
<1>4. QED
  BY <1>2, <1>3

\* Where a block begins.
LEMMA BlockStart ==
    ASSUME NEW b \in Nat, NEW s \in Nat
    PROVE  /\ b * SectorsPerBlock \in Nat
           /\ s < b * SectorsPerBlock <=> SectorToBlockNumber(s) < b
           /\ SectorToBlockNumber(b * SectorsPerBlock) = b
<1> DEFINE d == SectorsPerBlock
<1>0. b * d \in Nat /\ d \in Nat \ {0}
  BY SizeType
<1>1. ASSUME NEW t \in Nat PROVE t < b * d <=> SectorToBlockNumber(t) < b
  <2> DEFINE q == SectorToBlockNumber(t)
  <2>1. q \in Nat /\ SectorInBlock(t) \in 0 .. d - 1 /\ t = (d * q) + SectorInBlock(t)
    BY SectorPlace DEF BlockSectors
  <2>2. CASE q < b
    <3>1. (q + 1) * d <= b * d
      BY <1>0, <2>1, <2>2, ProductMonotone
    <3> HIDE DEF q
    <3>2. (q + 1) * d = (d * q) + d
      BY <1>0, <2>1, SMT
    <3>3. t < b * d
      BY <1>0, <2>1, <3>1, <3>2, SMT
    <3>4. QED
      BY <2>2, <3>3 DEF q
  <2>3. CASE b <= q
    <3>1. b * d <= q * d
      BY <1>0, <2>1, <2>3, ProductMonotone
    <3> HIDE DEF q
    <3>2. q * d = d * q
      BY <1>0, <2>1, SMT
    <3>3. ~(t < b * d)
      BY <1>0, <2>1, <3>1, <3>2, SMT
    <3>4. QED
      BY <2>1, <2>3, <3>3 DEF q
  <2>4. QED
    BY <2>1, <2>2, <2>3
<1>2. SectorToBlockNumber(b * d) = b
  <2> DEFINE q == SectorToBlockNumber(b * d)
  <2>1. q \in Nat /\ b * d = (d * q) + SectorInBlock(b * d) /\ SectorInBlock(b * d) \in 0 .. d - 1
    BY <1>0, SectorPlace DEF BlockSectors
  <2>2. ~(q < b)
    BY <1>0, <1>1
  <2>3. SUFFICES ASSUME b + 1 <= q PROVE FALSE
    BY <2>1, <2>2
  <2>4. (b + 1) * d <= q * d
    BY <1>0, <2>1, <2>3, ProductMonotone
  <2> HIDE DEF q
  <2>5. q * d = d * q /\ (b + 1) * d = (b * d) + d
    BY <1>0, <2>1, SMT
  <2> DEFINE u == b * d
             v == d * q
             w == SectorInBlock(u)
  <2>6. u \in Nat /\ v \in Nat /\ w \in Nat /\ u = v + w /\ u + d <= v
    BY <1>0, <2>1, <2>4, <2>5
  <2> HIDE DEF u, v, w
  <2>7. QED
    BY <1>0, <2>6, SMT
<1>3. QED
  BY <1>0, <1>1, <1>2

-----------------------------------------------------------------------------
(***************************************************************************)
(* The steps of the abstract disk, in the terms of the VHD                 *)
(***************************************************************************)

\* What is recent grows, ...
Grow ==
    recent' = [s \in Sectors |->
                 recent[s] \cup {Content'[s]}
                   \cup IF call'.op = "write" /\ s \in call'.first .. call'.last
                        THEN {call'.val} ELSE {}]

\* ... or becomes what there is.
Settle == recent' = [s \in Sectors |-> {Content'[s]}]

\* A step does one or the other.
LEMMA HistoryStep ==
    ASSUME HistoryNext
    PROVE  Next /\ (AllDurable => Settle) /\ (~AllDurable => Grow)
<1>1. CASE AllDurable
  BY <1>1 DEF HistoryNext, Settle
<1>2. CASE ~AllDurable
  BY <1>2 DEF HistoryNext, Grow
<1>3. QED
  BY <1>1, <1>2 DEF HistoryNext

\* So does the abstract disk.
LEMMA GrowRemembers == Grow => Disk!Remember
  BY DEF Grow, Disk!Remember, ClientCall, Disk!Sectors, Sectors

\* What settles here settles there.
LEMMA SettleSettles == Settle => Disk!Settled
  BY DEF Settle, Disk!Settled, Disk!Sectors, Sectors

\* A call that goes on, ...
Continues == call' = [call EXCEPT !.pc = call'.pc, !.cur = call'.cur, !.slot = call'.slot,
                                  !.fresh = call'.fresh, !.flush = call'.flush,
                                  !.failed = call'.failed]
             /\ UNCHANGED reply

\* What it keeps, so that a client sees nothing of the step.
LEMMA ContinuesCall ==
    ASSUME call \in CallRecords, Continues
    PROVE  /\ call'.op = call.op /\ call'.first = call.first /\ call'.last = call.last
           /\ call'.val = call.val
           /\ Disk!Continue
<1>1. /\ call'.op = call.op /\ call'.first = call.first /\ call'.last = call.last
      /\ call'.val = call.val /\ reply' = reply
  BY DEF Continues, CallRecords
<1>2. QED
  BY <1>1 DEF Disk!Continue, ClientCall

\* ... and one that returns.
LEMMA ReturnsCall ==
    ASSUME NEW kind, Return(kind)
    PROVE  Disk!Return(kind) /\ ClientCall' = Disk!NoCall
<1>1. ClientCall' = Disk!NoCall
  BY DEF Return, NoCall, ClientCall, Disk!NoCall
<1>2. QED
  BY <1>1 DEF Return, Disk!Return, Reply, Disk!Reply

\* No call is no call.
LEMMA NoClientCall == call = NoCall => ClientCall = Disk!NoCall
  BY DEF NoCall, ClientCall, Disk!NoCall

\* What a failed write may leave.
Holes == IF Dynamic THEN {} ELSE {Zero}

\* A step of a write: it changes sectors of its range only, ...
LEMMA IsWrite ==
    ASSUME call.op = "write",
           \A s \in Sectors :
             Content'[s] \in IF s \in call.first .. call.last
                             THEN {Content[s], call.val} \cup Holes ELSE {Content[s]},
           \/ Disk!Continue /\ Grow
           \/ Return("error") /\ Grow
           \/ /\ Return("ok") /\ (Grow \/ Settle)
              /\ \A s \in call.first .. call.last : Content'[s] = call.val
    PROVE  Disk!Next
<1>1. /\ ClientCall.op = "write" /\ ClientCall.range = call.first .. call.last
      /\ ClientCall.val = call.val
  BY DEF ClientCall
<1>2. Disk!Write
  BY <1>1, GrowRemembers, SettleSettles, ReturnsCall DEF Disk!Write, Disk!Sectors, Sectors, Holes
<1>3. QED
  BY <1>2 DEF Disk!Next

\* ... of a discard, ...
LEMMA IsDiscard ==
    ASSUME call.op = "discard", Grow,
           \A s \in Sectors :
             \/ Content'[s] = Content[s]
             \/ /\ Content'[s] = Background[s]
                /\ \E t \in call.first .. call.last :
                     SectorToBlockNumber(s) = SectorToBlockNumber(t),
           \/ Disk!Continue
           \/ /\ Return("ok")
              /\ \A s, t \in call.first .. call.last :
                   s # t /\ SectorToBlockNumber(s) = SectorToBlockNumber(t) =>
                     Content'[s] = Background[s]
    PROVE  Disk!Next
<1>1. ClientCall.op = "discard" /\ ClientCall.range = call.first .. call.last
  BY DEF ClientCall
<1>2. Disk!Discard
  BY <1>1, GrowRemembers, ReturnsCall
     DEF Disk!Discard, Disk!Sectors, Sectors, Disk!SameBlock, SectorToBlockNumber
<1>3. QED
  BY <1>2 DEF Disk!Next

\* ... of opening, flushing and closing, ...
LEMMA IsSync ==
    ASSUME call.op \in {"open", "flush", "close"}, UNCHANGED Content,
           \/ Disk!Continue /\ UNCHANGED recent
           \/ Return("error") /\ UNCHANGED recent
           \/ Return("ok") /\ Settle
    PROVE  Disk!Next
<1>1. ClientCall.op = call.op
  BY DEF ClientCall
<1>2. Disk!Sync
  BY <1>1, SettleSettles, ReturnsCall DEF Disk!Sync
<1>3. QED
  BY <1>2 DEF Disk!Next

\* ... and the loss of what is not durable.
LEMMA IsLose ==
    ASSUME \A s \in Sectors : Content'[s] \in recent[s], Settle,
           Return("lost") \/ (call.op = "open" /\ Return("error"))
    PROVE  Disk!Next
<1>1. ClientCall.op = call.op
  BY DEF ClientCall
<1>2. Disk!Lose
  BY <1>1, SettleSettles, ReturnsCall DEF Disk!Lose, Disk!Sectors, Sectors
<1>3. QED
  BY <1>2 DEF Disk!Next

-----------------------------------------------------------------------------
(***************************************************************************)
(* What a step leaves alone                                                *)
(***************************************************************************)

\* The invariants of DynDiffVhdProofs, of a state and of the step's next one.
Sound == Shape /\ TablesInv /\ PureInv

\* The content, sector by sector.
LEMMA ContentIs ==
    ASSUME NEW s \in Sectors
    PROVE  /\ Content[s] = ValueAt(BAT!Table[SectorToBlockNumber(s)], bitmap, s)
           /\ Content'[s] = ValueAt(BAT!Table[SectorToBlockNumber(s)], bitmap, s)'
  BY DEF Content, ValueAt

\* What a sector holds is recent.
LEMMA ContentRecent ==
    ASSUME NEW s \in Sectors, RecentAt(s)
    PROVE  Content[s] \in recent[s]
  BY ContentIs DEF RecentAt

\* A step that keeps the entries of a block, and its bitmaps and data, but may write
\* entry and bitmap back.
Undisturbed(b) ==
    LET T == BAT!Table
        M == batOnMedia
    IN  /\ T'[b] = T[b] /\ M'[b] \in {M[b], T[b]}
        /\ \A x \in {T[b], M[b]} : x \in Slots =>
             /\ bitmap'[x] = bitmap[x] /\ bitmapOnMedia'[x] \in {bitmapOnMedia[x], bitmap[x]}
             /\ data'[x] = data[x]

\* Its sectors keep their content, and all they may return to is still recent.
LEMMA UndisturbedSector ==
    ASSUME Shape, NEW s \in Sectors, Undisturbed(SectorToBlockNumber(s)), RecentAt(s),
           recent[s] \subseteq recent'[s]
    PROVE  Content'[s] = Content[s] /\ RecentAt(s)'
<1> DEFINE b == SectorToBlockNumber(s)
           T == BAT!Table
           M == batOnMedia
<1>1. b \in Blocks
  BY BlockOfSector
<1>2. T[b] \in Slots \cup {Unused} /\ M[b] \in Slots \cup {Unused}
  BY <1>1, TableType
<1>3. /\ T'[b] = T[b] /\ M'[b] \in {M[b], T[b]}
      /\ \A x \in {T[b], M[b]} : x \in Slots =>
           /\ bitmap'[x] = bitmap[x] /\ bitmapOnMedia'[x] \in {bitmapOnMedia[x], bitmap[x]}
           /\ data'[x] = data[x]
  BY DEF Undisturbed
<1>4. \A x \in {T[b], M[b]} :
        /\ ValueAt(x, bitmap, s)' = ValueAt(x, bitmap, s)
        /\ ValueAt(x, bitmapOnMedia, s)' \in {ValueAt(x, bitmap, s), ValueAt(x, bitmapOnMedia, s)}
  BY <1>2, <1>3 DEF ValueAt
<1>5. Content'[s] = Content[s]
  BY <1>3, <1>4, ContentIs
<1>6. \A x \in {T'[b], M'[b]} :
        ValueAt(x, bitmap, s)' \in recent'[s] /\ ValueAt(x, bitmapOnMedia, s)' \in recent'[s]
  BY <1>3, <1>4 DEF RecentAt
<1>7. QED
  BY <1>5, <1>6 DEF RecentAt, ValueAt

\* The bitmaps but that of place x stay, and may be written back.
BitmapsElsewhere(x) ==
    \A y \in Slots : y # x =>
      bitmap'[y] = bitmap[y] /\ bitmapOnMedia'[y] \in {bitmapOnMedia[y], bitmap[y]}

\* Calls of the mapper change one bitmap at most.
LEMMA MapperElsewhere ==
    ASSUME BitmapsOK, NEW x, NEW S,
           \/ UNCHANGED bitmapVars \/ Mapper!KeepBits \/ Mapper!FlushBits
           \/ Mapper!SetBits(x, S) \/ Mapper!ResetBits(x, S) \/ Mapper!CreateBits(x, S)
    PROVE  BitmapsElsewhere(x)
<1>1. CASE UNCHANGED bitmapVars
  BY <1>1 DEF bitmapVars, BitmapsElsewhere
<1>2. CASE Mapper!KeepBits
  BY <1>2 DEF Mapper!KeepBits, Mapper!WriteBack, BitmapsElsewhere
<1>3. CASE Mapper!FlushBits
  BY <1>3 DEF Mapper!FlushBits, BitmapsElsewhere
<1>4. CASE Mapper!SetBits(x, S)
  BY <1>4 DEF Mapper!SetBits, Mapper!WriteBack, Mapper!Bitmaps, BitmapsOK, BitmapsElsewhere
<1>5. CASE Mapper!ResetBits(x, S)
  BY <1>5 DEF Mapper!ResetBits, Mapper!WriteBack, Mapper!Bitmaps, BitmapsOK, BitmapsElsewhere
<1>6. CASE Mapper!CreateBits(x, S)
  BY <1>6 DEF Mapper!CreateBits, Mapper!Bitmaps, BitmapsOK, BitmapsElsewhere
<1>7. QED
  BY <1>1, <1>2, <1>3, <1>4, <1>5, <1>6

\* The data but that of place x stays.
DataElsewhere(x) == \A y \in Slots : y # x => data'[y] = data[y]

\* The data after a write of the sectors W to place x.
DataWith(x, W, values) ==
    [data EXCEPT ![x] = [i \in BlockSectors |-> IF i \in W THEN values[i] ELSE @[i]]]

\* Such a write changes place x only, and there the sectors W.
LEMMA WriteElsewhere ==
    ASSUME DiskOK, NEW x, NEW W, NEW values, data' = DataWith(x, W, values)
    PROVE  /\ DataElsewhere(x)
           /\ x \in Slots => \A i \in BlockSectors :
                data'[x][i] = IF i \in W THEN values[i] ELSE data[x][i]
<1>1. DataElsewhere(x)
  BY DEF DataElsewhere, DiskOK, DataWith
<1>2. ASSUME x \in Slots, NEW i \in BlockSectors
      PROVE  data'[x][i] = IF i \in W THEN values[i] ELSE data[x][i]
  BY <1>2 DEF DiskOK, DataWith
<1>3. QED
  BY <1>1, <1>2

\* The place of a block is that of no other.
LEMMA PlaceOfOne ==
    ASSUME Sound, NEW b \in Blocks, BAT!Table[b] \in Slots, NEW c \in Blocks, c # b
    PROVE  BAT!Table[c] # BAT!Table[b] /\ batOnMedia[c] # BAT!Table[b]
  BY TableType DEF Sound, TablesInv, TablesSound, SoundTable

\* A step that changes place x only disturbs no other block than that of x, ...
LEMMA OthersUndisturbed ==
    ASSUME Sound, NEW b \in Blocks, NEW x, x = BAT!Table[b], x \in Slots,
           BAT!Table' = BAT!Table, TablesMove, BitmapsElsewhere(x), DataElsewhere(x)
    PROVE  \A c \in Blocks : c # b => Undisturbed(c)
  BY PlaceOfOne, TableType DEF Sound, Undisturbed, TablesMove, BitmapsElsewhere, DataElsewhere

\* ... and none if x is nobody's.
LEMMA AllUndisturbed ==
    ASSUME Shape, NEW x, \A b \in Blocks : BAT!Table[b] # x /\ batOnMedia[b] # x,
           BAT!Table' = BAT!Table, TablesMove, BitmapsElsewhere(x), DataElsewhere(x)
    PROVE  \A b \in Blocks : Undisturbed(b)
  BY TableType DEF Undisturbed, TablesMove, BitmapsElsewhere, DataElsewhere

\* Above all if it changes no place.
LEMMA QuietUndisturbed ==
    ASSUME Shape, BAT!Table' = BAT!Table, TablesMove, UNCHANGED data,
           UNCHANGED bitmapVars \/ Mapper!KeepBits \/ Mapper!FlushBits
    PROVE  \A b \in Blocks : Undisturbed(b)
<1>1. BitmapsElsewhere(Bogus) /\ DataElsewhere(Bogus)
  BY MapperElsewhere DEF Shape, DataElsewhere
<1>2. \A b \in Blocks : BAT!Table[b] # Bogus /\ batOnMedia[b] # Bogus
  BY TableType, SizeAssumption DEF Bogus, Unused
<1>3. QED
  BY <1>1, <1>2, AllUndisturbed

\* What is recent after a step.
LEMMA GrowKeeps ==
    ASSUME RecentInv, Grow
    PROVE  /\ recent' = [s \in Sectors |-> recent'[s]]
           /\ \A s \in Sectors : recent[s] \subseteq recent'[s] /\ Content'[s] \in recent'[s]
           /\ \A s \in Sectors : call'.op = "write" /\ s \in call'.first .. call'.last =>
                call'.val \in recent'[s]
           /\ UNCHANGED Content /\ call'.op # "write" => UNCHANGED recent
<1>1. /\ recent' = [s \in Sectors |-> recent'[s]]
      /\ \A s \in Sectors : recent'[s] = recent[s] \cup {Content'[s]}
           \cup IF call'.op = "write" /\ s \in call'.first .. call'.last THEN {call'.val} ELSE {}
  BY DEF Grow
<1>2. ASSUME UNCHANGED Content, call'.op # "write"
      PROVE  UNCHANGED recent
  <2>1. ASSUME NEW s \in Sectors PROVE recent'[s] = recent[s]
    BY <1>1, <1>2, ContentRecent DEF RecentInv
  <2>2. QED
    BY <1>1, <2>1 DEF RecentInv
<1>3. QED
  BY <1>1, <1>2

\* A step that disturbs no block changes no content.
LEMMA UndisturbedDisk ==
    ASSUME Shape, RecentInv, Grow, \A b \in Blocks : Undisturbed(b)
    PROVE  UNCHANGED Content /\ RecentInv'
<1>1. \A s \in Sectors : Content'[s] = Content[s] /\ RecentAt(s)'
  BY BlockOfSector, UndisturbedSector, GrowKeeps DEF RecentInv
<1>2. Content = [s \in Sectors |-> Content[s]] /\ Content' = [s \in Sectors |-> Content'[s]]
  BY DEF Content
<1>3. QED
  BY <1>1, <1>2, GrowKeeps DEF RecentInv

\* When all is written back, the content is what is recent.
LEMMA SettledDisk ==
    ASSUME Settle, BAT!Table' = batOnMedia', bitmap' = bitmapOnMedia'
    PROVE  RecentInv'
<1>1. recent' = [s \in Sectors |-> recent'[s]] /\ \A s \in Sectors : recent'[s] = {Content'[s]}
  BY DEF Settle
<1>2. ASSUME NEW s \in Sectors PROVE RecentAt(s)'
  <2>1. recent'[s] = {ValueAt(BAT!Table[SectorToBlockNumber(s)], bitmap, s)'}
    BY <1>1, ContentIs
  <2>2. QED
    BY <2>1 DEF RecentAt, ValueAt
<1>3. QED
  BY <1>1, <1>2 DEF RecentInv

-----------------------------------------------------------------------------
(***************************************************************************)
(* Calls                                                                   *)
(***************************************************************************)

\* Between calls nothing is said of one.
LEMMA IdleCall ==
    ASSUME call' = NoCall
    PROVE  CallInv'
  BY NoCallOK
     DEF CallInv, RangeInv, WriteInv, ValueInv, DiscardedInv, FilledInv, OtherInv

\* In an open session nothing need be durable until it is flushed.
LEMMA NotFlushed ==
    ASSUME session'.open, call'.pc \notin {"flushMapper", "fsync"}
    PROVE  DurableInv'
  BY DEF DurableInv

\* The room behind the file stays blank.
LEMMA BlankStays ==
    ASSUME Shape, Shape', BlankInv, end' >= end, NEW x, DataElsewhere(x), x \in Slots => x < end'
    PROVE  BlankInv'
<1>1. end \in Nat /\ end' \in Nat /\ Slots \subseteq Nat
  BY TableType, SizeAssumption DEF Shape, DiskOK, Bogus
<1>2. ASSUME NEW y \in Slots, y >= end'
      PROVE  y >= end /\ y # x
  BY <1>1, <1>2
<1>3. QED
  BY <1>2 DEF BlankInv, Blank, DataElsewhere

\* A step that writes nothing keeps it blank.
LEMMA BlankKept ==
    ASSUME BlankInv, UNCHANGED <<data, end>>
    PROVE  BlankInv'
  BY DEF BlankInv, Blank

\* Where a call with a range is.
LEMMA RangeCall ==
    ASSUME Sound, RangeInv, call.op \in {"write", "discard"}
    PROVE  /\ CurrBlock \in Blocks
           /\ CurrSectors \subseteq BlockSectors
           /\ CurrRange \subseteq call.first .. call.last /\ call.first .. call.last \subseteq Sectors
           /\ call.cur \in CurrRange
           /\ \A s \in Sectors :
                s \in CurrRange <=>
                  SectorToBlockNumber(s) = CurrBlock /\ SectorInBlock(s) \in CurrSectors
<1>1. /\ call.first \in Sectors /\ call.cur \in Sectors /\ call.last \in Sectors
      /\ call.first <= call.cur /\ call.cur <= call.last
      /\ Sectors \subseteq Nat
  BY SectorsType DEF RangeInv
<1>2. CurrBlock \in Blocks /\ CurrSectors \subseteq BlockSectors
  BY <1>1, BlockOfSector, CurrSectorsType DEF CurrBlock, Sound, Shape
<1>3. /\ CurrRange \subseteq call.first .. call.last
      /\ call.first .. call.last \subseteq Sectors
      /\ call.cur \in CurrRange
  <2>1. call.first .. call.last \subseteq Sectors
    BY <1>1, SizeType DEF Sectors
  <2>2. CurrRange \subseteq call.first .. call.last /\ call.cur \in CurrRange
    <3>1. call.first \in Nat /\ call.cur \in Nat /\ call.last \in Nat
      BY <1>1
    <3>2. call.cur .. call.last \subseteq call.first .. call.last /\ call.cur \in call.cur .. call.last
      BY <1>1, <3>1
    <3>3. QED
      BY <3>2 DEF CurrRange, CurrBlock
  <2>3. QED
    BY <2>1, <2>2
<1>4. ASSUME NEW s \in Sectors, SectorToBlockNumber(s) = CurrBlock, SectorInBlock(s) \in CurrSectors
      PROVE  s \in CurrRange
  <2>1. PICK t \in CurrRange : SectorInBlock(t) = SectorInBlock(s)
    BY <1>4 DEF CurrSectors
  <2>2. t \in Nat /\ s \in Nat /\ SectorToBlockNumber(t) = CurrBlock
    BY <1>1, <1>3 DEF CurrRange
  <2>3. s = t
    BY <1>4, <2>1, <2>2, SectorPlace
  <2>4. QED
    BY <2>3
<1>5. ASSUME NEW s \in CurrRange
      PROVE  SectorToBlockNumber(s) = CurrBlock /\ SectorInBlock(s) \in CurrSectors
  BY DEF CurrRange, CurrSectors
<1>6. QED
  BY <1>2, <1>3, <1>4, <1>5

\* A call that stays at its sector is in its range.
LEMMA RangeStays ==
    ASSUME call \in CallRecords, RangeInv, Continues, call'.cur = call.cur
    PROVE  RangeInv'
  BY ContinuesCall DEF RangeInv, CurrBlock

\* A call that goes on to the next block leaves behind its current one.
LEMMA RangeNext ==
    ASSUME Sound, RangeInv, call.op \in {"write", "discard"}, Continues,
           ~LastBlock, call'.cur = (CurrBlock + 1) * SectorsPerBlock
    PROVE  /\ RangeInv'
           /\ \A s \in call.first .. call.last :
                s < call'.cur => s < call.cur \/ s \in CurrRange
<1>0. call \in CallRecords
  BY DEF Sound, Shape, CallOK
<1>1. /\ call.first \in Nat /\ call.cur \in Nat /\ call.last \in Nat
      /\ call.first <= call.cur /\ call.cur <= call.last /\ call.last \in Sectors
      /\ call.first \in Sectors
  BY SectorsType DEF RangeInv
<1>2. CurrBlock \in Nat /\ CurrBlock + 1 \in Nat /\ CurrBlock = SectorToBlockNumber(call.cur)
  BY <1>1, SectorPlace DEF CurrBlock
<1>3. call'.cur <= call.last
  BY <1>1, NextBlockInRange DEF LastBlock, CurrBlock
<1>4. /\ call'.cur \in Nat
      /\ \A s \in Nat : s < call'.cur <=> SectorToBlockNumber(s) < CurrBlock + 1
      /\ SectorToBlockNumber(call'.cur) = CurrBlock + 1
  BY <1>2, BlockStart
<1>5. call.cur < call'.cur
  BY <1>1, <1>2, <1>4
<1>6. call'.op = call.op /\ call'.first = call.first /\ call'.last = call.last
  BY <1>0, ContinuesCall
<1>7. call'.cur \in Sectors
  BY <1>1, <1>3, <1>4, SizeType DEF Sectors
<1>8. RangeInv'
  BY <1>1, <1>3, <1>4, <1>5, <1>6, <1>7 DEF RangeInv, CurrBlock
<1>9. ASSUME NEW s \in call.first .. call.last, s < call'.cur, ~(s < call.cur)
      PROVE  s \in CurrRange
  <2>1. s \in Nat /\ call.cur <= s /\ s \in call.cur .. call.last
    BY <1>1, <1>9
  <2>2. CurrBlock <= SectorToBlockNumber(s) /\ SectorToBlockNumber(s) < CurrBlock + 1
    BY <1>1, <1>2, <1>4, <1>9, <2>1, BlocksInOrder
  <2>3. SectorToBlockNumber(s) = CurrBlock
    BY <1>2, <2>1, <2>2, SectorPlace
  <2>4. QED
    BY <2>1, <2>3 DEF CurrRange
<1>10. QED
  BY <1>8, <1>9

\* In the last block of a range nothing is left behind it.
LEMMA RangeEnds ==
    ASSUME Sound, RangeInv, call.op \in {"write", "discard"}, LastBlock,
           NEW s \in call.first .. call.last
    PROVE  s < call.cur \/ s \in CurrRange
<1>1. /\ call.first \in Nat /\ call.cur \in Nat /\ call.last \in Nat
      /\ call.first <= call.cur /\ call.cur <= call.last
  BY SectorsType DEF RangeInv
<1>2. SUFFICES ASSUME ~(s < call.cur) PROVE s \in CurrRange
  OBVIOUS
<1>3. s \in Nat /\ call.cur <= s /\ s <= call.last /\ s \in call.cur .. call.last
  BY <1>1, <1>2
<1>4. /\ SectorToBlockNumber(call.cur) <= SectorToBlockNumber(s)
      /\ SectorToBlockNumber(s) <= SectorToBlockNumber(call.last)
  BY <1>1, <1>3, BlocksInOrder
<1>5. SectorToBlockNumber(s) = CurrBlock
  BY <1>1, <1>3, <1>4, SectorPlace DEF LastBlock, CurrBlock
<1>6. QED
  BY <1>3, <1>5 DEF CurrRange

\* The death of the process, and what ends like it.
LEMMA LoseDisk ==
    ASSUME Sound, Shape', DiskInv, Settle, UNCHANGED data, UNCHANGED end,
           Mapper!LoseBits, session' = Closed,
           \A b \in Blocks : batOnMedia'[b] \in {batOnMedia[b], BAT!Table[b]},
           BAT!Table' = batOnMedia',
           Return("lost") \/ (call.op = "open" /\ Return("error"))
    PROVE  DiskInv' /\ Disk!Next
<1>1. /\ bitmap' = bitmapOnMedia'
      /\ \A x \in Slots : bitmap'[x] \in {bitmap[x], bitmapOnMedia[x]}
  BY DEF Mapper!LoseBits, Mapper!WriteBack
<1>2. ASSUME NEW s \in Sectors
      PROVE  Content'[s] \in recent[s]
  <2> DEFINE b == SectorToBlockNumber(s)
  <2>1. BAT!Table'[b] \in {batOnMedia[b], BAT!Table[b]}
    BY BlockOfSector
  <2>2. BAT!Table'[b] \in Slots \cup {Unused}
    BY <2>1, BlockOfSector, TableType DEF Sound
  <2>3. ValueAt(BAT!Table[b], bitmap, s)' \in
          {ValueAt(BAT!Table'[b], bitmap, s), ValueAt(BAT!Table'[b], bitmapOnMedia, s)}
    BY <1>1, <2>2 DEF ValueAt
  <2>4. QED
    BY <2>1, <2>3, ContentIs DEF DiskInv, RecentInv, RecentAt
<1>3. RecentInv'
  BY <1>1, SettledDisk
<1>4. call' = NoCall
  BY DEF Return
<1>5. DurableInv'
  BY <1>1 DEF DurableInv
<1>6. BlankInv'
  BY BlankKept DEF DiskInv
<1>7. Disk!Next
  BY <1>2, IsLose
<1>8. QED
  BY <1>3, <1>4, <1>5, <1>6, <1>7, IdleCall DEF DiskInv, CallInv

-----------------------------------------------------------------------------
(***************************************************************************)
(* The steps of a write                                                    *)
(***************************************************************************)

\* What a write knows.
LEMMA WriteFacts ==
    ASSUME Sound, DiskInv, call.op = "write"
    PROVE  /\ call \in CallRecords /\ BatInv /\ BitmapsOK /\ DiskOK
           /\ session.open /\ ~ReadOnly
           /\ RangeInv /\ RecentInv
           /\ Content = [s \in Sectors |-> Content[s]]
  BY NoCallOK
     DEF Sound, Shape, CallOK, SessionOK, DiskInv, WriteInv, Content

\* A step of a write that changes no content goes on, or fails.
LEMMA QuietWrite ==
    ASSUME Sound, DiskInv, call.op = "write", Grow, \A b \in Blocks : Undisturbed(b),
           Disk!Continue \/ Return("error")
    PROVE  UNCHANGED Content /\ RecentInv' /\ Disk!Next
<1>1. UNCHANGED Content /\ RecentInv'
  BY UndisturbedDisk DEF Sound, DiskInv
<1>2. Disk!Next
  BY <1>1, IsWrite
<1>3. QED
  BY <1>1, <1>2

\* A write that failed leaves the disk in order.
LEMMA WriteFails ==
    ASSUME Sound, Shape', DiskInv, RecentInv', BlankInv', Return("error"), UNCHANGED session, session.open
    PROVE  DiskInv'
<1>1. call' = NoCall /\ call'.pc = "none"
  BY ReturnPc
<1>2. DurableInv'
  BY <1>1, NotFlushed
<1>3. QED
  BY <1>1, <1>2, IdleCall DEF DiskInv, CallInv

\* A write that goes on says nothing of other calls.
LEMMA WriteGoesOn ==
    ASSUME call'.op = "write", RecentInv, Grow,
           RecentInv', DurableInv', BlankInv', RangeInv', WriteInv'
    PROVE  DiskInv'
<1>1. call'.first .. call'.last \subseteq Sectors
  BY SizeType DEF RangeInv, Sectors
<1>2. ValueInv'
  BY <1>1, GrowKeeps DEF ValueInv
<1>3. QED
  BY <1>2 DEF DiskInv, DiscardedInv, FilledInv, OtherInv

\* The entry of the block is read.
LEMMA ReadBlockEntryDisk ==
    ASSUME "batRead" \notin Faults, Sound, Shape', DiskInv, Grow, ReadBlockEntry
    PROVE  DiskInv' /\ Disk!Next
<1>0. call.op = "write" /\ call.pc = "readEntry" /\ UNCHANGED <<session, data, end>>
      /\ UNCHANGED bitmapVars
  BY DEF ReadBlockEntry, At, diskVars
<1>1. /\ call \in CallRecords /\ BatInv /\ BitmapsOK /\ DiskOK
      /\ session.open /\ ~ReadOnly
      /\ RangeInv /\ RecentInv
  BY <1>0, WriteFacts
<1>2. CurrBlock \in Blocks
  BY <1>0, <1>1, RangeCall
<1>3. BAT!ReadBAT
      /\ \/ BAT!Table[CurrBlock] = Unused /\ Goto("appendFooter")
         \/ /\ BAT!Table[CurrBlock] \in Slots
            /\ call' = [call EXCEPT !.pc = "writeData", !.slot = BAT!Table[CurrBlock]]
            /\ UNCHANGED reply
  <2>1. CASE BAT!ReadEntry(CurrBlock, Unused) /\ Goto("appendFooter")
    BY <2>1 DEF BAT!ReadEntry
  <2>2. CASE \E x \in Slots \cup {Bogus} :
               /\ BAT!ReadEntry(CurrBlock, x) \/ (CanFail("batRead") /\ BAT!ReadEntryFails(x))
               /\ call' = [call EXCEPT !.pc = "writeData", !.slot = x]
               /\ UNCHANGED reply
    <3>1. PICK x \in Slots \cup {Bogus} :
            /\ BAT!ReadEntry(CurrBlock, x)
            /\ call' = [call EXCEPT !.pc = "writeData", !.slot = x]
            /\ UNCHANGED reply
      BY <2>2 DEF CanFail
    <3>2. x = BAT!Table[CurrBlock] /\ x # Bogus
      BY <1>2, <3>1, TableType, SizeAssumption DEF BAT!ReadEntry, Sound, Unused, Bogus
    <3>3. QED
      BY <3>1, <3>2 DEF BAT!ReadEntry
  <2>3. QED
    BY <2>1, <2>2 DEF ReadBlockEntry
<1>4. BAT!Table' = BAT!Table /\ TablesMove
  BY <1>1, <1>3, TableKept, BatMoves
<1>5. \A b \in Blocks : Undisturbed(b)
  BY <1>0, <1>4, QuietUndisturbed DEF Sound
<1>6. /\ Continues /\ call'.cur = call.cur /\ call'.fresh = call.fresh
      /\ call'.pc \in {"appendFooter", "writeData"}
      /\ call'.pc = "appendFooter" => BAT!Table[CurrBlock] = Unused
      /\ call'.pc = "writeData" => call'.slot = BAT!Table[CurrBlock] /\ call'.slot \in Slots
  <2>1. CASE BAT!Table[CurrBlock] = Unused /\ Goto("appendFooter")
    BY <1>1, <2>1 DEF Goto, Continues, CallRecords
  <2>2. CASE /\ BAT!Table[CurrBlock] \in Slots
             /\ call' = [call EXCEPT !.pc = "writeData", !.slot = BAT!Table[CurrBlock]]
             /\ UNCHANGED reply
    BY <1>1, <2>2 DEF Continues, CallRecords
  <2>3. QED
    BY <1>3, <2>1, <2>2
<1>7. /\ call'.op = call.op /\ call'.first = call.first /\ call'.last = call.last
      /\ call'.val = call.val /\ Disk!Continue
  BY <1>1, <1>6, ContinuesCall
<1>8. UNCHANGED Content /\ RecentInv' /\ Disk!Next
  BY <1>0, <1>5, <1>7, QuietWrite
<1>9. WriteInv'
  <2>1. CurrBlock' = CurrBlock /\ CurrSectors' = CurrSectors /\ ReadOnly' = ReadOnly
    BY <1>0, <1>6, <1>7 DEF CurrBlock, CurrSectors, CurrRange, ReadOnly
  <2>2. ~call.fresh /\ ~Flushing /\ ~Flushing'
    BY <1>0, <1>6 DEF DiskInv, WriteInv, Flushing
  <2>3. \A s \in call.first .. call.last : s < call.cur => Content[s] = call.val
    BY <1>0 DEF DiskInv, WriteInv
  <2>4. QED
    BY <1>0, <1>1, <1>4, <1>6, <1>7, <1>8, <2>1, <2>2, <2>3 DEF WriteInv
<1>10. QED
  BY <1>0, <1>1, <1>6, <1>7, <1>8, <1>9, NotFlushed, BlankKept, RangeStays, WriteGoesOn DEF DiskInv

\* The footer is written behind the new block.
LEMMA AppendFooterDisk ==
    ASSUME Sound, Shape', DiskInv, Grow, AppendFooter
    PROVE  DiskInv' /\ Disk!Next
<1>0. call.op = "write" /\ call.pc = "appendFooter" /\ UNCHANGED <<session, data>>
      /\ UNCHANGED bitmapVars /\ UNCHANGED batVars
  BY DEF AppendFooter, At
<1>1. /\ call \in CallRecords /\ BatInv /\ BitmapsOK /\ DiskOK
      /\ session.open /\ ~ReadOnly
      /\ RangeInv /\ RecentInv
  BY <1>0, WriteFacts
<1>2. BAT!Table' = BAT!Table /\ TablesMove
  BY <1>0, <1>1, TableKept, BatMoves
<1>3. \A b \in Blocks : Undisturbed(b)
  BY <1>0, <1>2, QuietUndisturbed DEF Sound
<1>4. BlankInv'
  <2>1. end' >= end /\ DataElsewhere(Bogus) /\ Bogus \notin Slots
    BY <1>0, TableType DEF AppendFooter, DataElsewhere, Sound
  <2>2. QED
    BY <2>1, BlankStays DEF Sound, DiskInv
<1>5. CASE Return("error")
  <2>1. RecentInv' /\ Disk!Next
    BY <1>0, <1>3, <1>5, QuietWrite
  <2>2. QED
    BY <1>0, <1>1, <1>4, <1>5, <2>1, WriteFails
<1>6. CASE call' = [call EXCEPT !.pc = "appendBitmap", !.slot = end] /\ UNCHANGED reply /\ end < MaxSlots
  <2>1. /\ Continues /\ call'.cur = call.cur /\ call'.pc = "appendBitmap" /\ call'.slot = end
        /\ call'.fresh = call.fresh
    BY <1>1, <1>6 DEF Continues, CallRecords
  <2>2. /\ call'.op = call.op /\ call'.first = call.first /\ call'.last = call.last
        /\ call'.val = call.val /\ Disk!Continue
    BY <1>1, <2>1, ContinuesCall
  <2>3. UNCHANGED Content /\ RecentInv' /\ Disk!Next
    BY <1>0, <1>3, <2>2, QuietWrite
  <2>4. WriteInv'
    <3>1. CurrBlock' = CurrBlock /\ ReadOnly' = ReadOnly
      BY <1>0, <2>1, <2>2 DEF CurrBlock, ReadOnly
    <3>2. ~call.fresh /\ ~Flushing' /\ BAT!Table[CurrBlock] = Unused
      BY <1>0, <2>1 DEF DiskInv, WriteInv, Flushing
    <3>3. \A s \in call.first .. call.last : s < call.cur => Content[s] = call.val
      BY <1>0 DEF DiskInv, WriteInv
    <3>4. Blank(call.slot)'
      <4>1. end \in Slots /\ end >= end
        BY <1>6, TableType, SizeAssumption DEF Slots, Sound
      <4>2. QED
        BY <1>0, <2>1, <4>1 DEF DiskInv, BlankInv, Blank
    <3>5. QED
      BY <1>0, <1>1, <1>2, <2>1, <2>2, <2>3, <3>1, <3>2, <3>3, <3>4 DEF WriteInv
  <2>5. QED
    BY <1>0, <1>1, <1>4, <2>1, <2>2, <2>3, <2>4, NotFlushed, RangeStays, WriteGoesOn DEF DiskInv
<1>7. QED
  BY <1>5, <1>6 DEF AppendFooter

\* The bitmap of the new block is written: no table leads to it.
LEMMA AppendBitmapDisk ==
    ASSUME Sound, Shape', DiskInv, Grow, AppendBitmap
    PROVE  DiskInv' /\ Disk!Next
<1>0. call.op = "write" /\ call.pc = "appendBitmap" /\ UNCHANGED <<session, data, end>>
      /\ UNCHANGED batVars /\ call.slot \in Slots
  BY DEF AppendBitmap, At, Sound, Shape, CallOK
<1>1. /\ call \in CallRecords /\ BatInv /\ BitmapsOK /\ DiskOK
      /\ session.open /\ ~ReadOnly
      /\ RangeInv /\ RecentInv
  BY <1>0, WriteFacts
<1>2. BAT!Table' = BAT!Table /\ TablesMove
  BY <1>0, <1>1, TableKept, BatMoves
<1>3. \A b \in Blocks : Undisturbed(b)
  <2>1. \A b \in Blocks : BAT!Table[b] # call.slot /\ batOnMedia[b] # call.slot
    BY <1>0 DEF Sound, TablesInv, Appending
  <2>2. BitmapsElsewhere(call.slot) /\ DataElsewhere(call.slot)
    BY <1>0, <1>1, MapperElsewhere DEF AppendBitmap, DataElsewhere
  <2>3. QED
    BY <1>2, <2>1, <2>2, AllUndisturbed DEF Sound
<1>4. BlankInv'
  BY <1>0, BlankKept DEF DiskInv
<1>5. CASE Return("error")
  <2>1. RecentInv' /\ Disk!Next
    BY <1>0, <1>3, <1>5, QuietWrite
  <2>2. QED
    BY <1>0, <1>1, <1>4, <1>5, <2>1, WriteFails
<1>6. CASE Goto("fill") /\ Mapper!CreateBits(call.slot, IF SetAllBmpBits THEN BlockSectors ELSE {})
  <2>1. /\ Continues /\ call'.cur = call.cur /\ call'.pc = "fill" /\ call'.slot = call.slot
        /\ call'.fresh = call.fresh
    BY <1>1, <1>6 DEF Goto, Continues, CallRecords
  <2>2. /\ call'.op = call.op /\ call'.first = call.first /\ call'.last = call.last
        /\ call'.val = call.val /\ Disk!Continue
    BY <1>1, <2>1, ContinuesCall
  <2>3. UNCHANGED Content /\ RecentInv' /\ Disk!Next
    BY <1>0, <1>3, <2>2, QuietWrite
  <2>4. WriteInv'
    <3>1. CurrBlock' = CurrBlock /\ ReadOnly' = ReadOnly /\ SetAllBmpBits' = SetAllBmpBits
      BY <1>0, <2>1, <2>2 DEF CurrBlock, ReadOnly, SetAllBmpBits, BlockPureMode, TrimEnabled
    <3>2. ~call.fresh /\ ~Flushing' /\ BAT!Table[CurrBlock] = Unused
      BY <1>0, <2>1 DEF DiskInv, WriteInv, Flushing
    <3>3. \A s \in call.first .. call.last : s < call.cur => Content[s] = call.val
      BY <1>0 DEF DiskInv, WriteInv
    <3>4. Blank(call.slot)'
      BY <1>0, <2>1 DEF DiskInv, WriteInv, Blank
    <3>5. /\ bitmap'[call.slot] = IF SetAllBmpBits THEN BlockSectors ELSE {}
          /\ bitmapOnMedia'[call.slot] = IF SetAllBmpBits THEN BlockSectors ELSE {}
      BY <1>0, <1>1, <1>6 DEF Mapper!CreateBits, BitmapsOK, Mapper!Bitmaps
    <3>6. QED
      BY <1>0, <1>1, <1>2, <2>1, <2>2, <2>3, <3>1, <3>2, <3>3, <3>4, <3>5 DEF WriteInv
  <2>5. QED
    BY <1>0, <1>1, <1>4, <2>1, <2>2, <2>3, <2>4, NotFlushed, RangeStays, WriteGoesOn DEF DiskInv
<1>7. QED
  BY <1>5, <1>6 DEF AppendBitmap

\* What surrounds the new data in a block is the background of its sectors.
LEMMA BackgroundOfSector ==
    ASSUME NEW s \in Sectors
    PROVE  /\ BackgroundOf(SectorToBlockNumber(s))[SectorInBlock(s)] = Background[s]
           /\ SectorInBlock(s) \in InUse(SectorToBlockNumber(s))
<1> DEFINE b == SectorToBlockNumber(s)
           i == SectorInBlock(s)
<1>1. b \in Nat /\ i \in BlockSectors /\ i \in Nat /\ s = (SectorsPerBlock * b) + i
  BY SectorsType, SectorPlace DEF BlockSectors
<1>2. SectorsPerBlock * b = b * SectorsPerBlock
  BY <1>1, SizeType, SMT
<1>3. (b * SectorsPerBlock) + i = s
  BY <1>1, <1>2
<1> HIDE DEF b, i
<1>4. BackgroundOf(b)[i] = Background[s] /\ i \in InUse(b)
  BY <1>1, <1>3 DEF BackgroundOf, InUse
<1>5. QED
  BY <1>4 DEF b, i

\* What is done lies before the current block.
LEMMA DoneElsewhere ==
    ASSUME Sound, RangeInv, call.op \in {"write", "discard"},
           NEW s \in call.first .. call.last, s < call.cur
    PROVE  SectorToBlockNumber(s) # CurrBlock /\ s \notin CurrRange
<1>1. SectorToBlockNumber(s) < CurrBlock /\ CurrBlock \in Nat
  BY RangeCall DEF RangeInv, Blocks
<1>2. SectorToBlockNumber(s) # CurrBlock
  BY <1>1
<1>3. QED
  BY <1>2 DEF CurrRange

\* Where the other blocks are undisturbed, so are their sectors.
LEMMA OtherSectors ==
    ASSUME Shape, RecentInv, Grow, NEW b,
           \A c \in Blocks : c # b => Undisturbed(c),
           NEW s \in Sectors, SectorToBlockNumber(s) # b
    PROVE  Content'[s] = Content[s] /\ RecentAt(s)'
  BY BlockOfSector, UndisturbedSector, GrowKeeps DEF RecentInv

\* The sectors of a new block that are filled.
Rest ==
    IF Dynamic THEN BlockSectors \ CurrSectors
    ELSE IF SetAllBmpBits THEN InUse(CurrBlock) \ CurrSectors
    ELSE {}

\* The new block comes into the table, as background.
LEMMA PlaceEntryDisk ==
    ASSUME Sound, DiskInv, Grow, call.op = "write", call.pc = "fill",
           NEW x \in Slots, x = call.slot,
           BAT!Table' = [BAT!Table EXCEPT ![CurrBlock] = x], batOnMedia' = batOnMedia,
           UNCHANGED bitmapVars, DataElsewhere(x),
           \A i \in BlockSectors :
             data'[x][i] = IF i \in Rest THEN BackgroundOf(CurrBlock)[i] ELSE data[x][i]
    PROVE  /\ \A s \in Sectors :
                \/ Content'[s] = Content[s]
                \/ ~Dynamic /\ s \in CurrRange /\ Content'[s] = Zero
           /\ RecentInv'
<1> DEFINE T == BAT!Table
           M == batOnMedia
<1>1. BatInv /\ RangeInv /\ RecentInv
  BY WriteFacts
<1>2. T \in BAT!Tables /\ CurrBlock \in Blocks /\ T[CurrBlock] = Unused
  BY <1>1, RangeCall DEF BatInv, BAT!BatTypeOK, BAT!Table, DiskInv, WriteInv
<1>3. /\ T'[CurrBlock] = x /\ \A b \in Blocks : b # CurrBlock => T'[b] = T[b]
      /\ M' = M /\ bitmap' = bitmap /\ bitmapOnMedia' = bitmapOnMedia
      /\ \A b \in Blocks : T[b] # x /\ M[b] # x
      /\ \A y \in Slots : y # x => data'[y] = data[y]
  BY <1>2 DEF BAT!Tables, bitmapVars, Sound, TablesInv, Appending, DataElsewhere
<1>4. \A b \in Blocks : b # CurrBlock => Undisturbed(b)
  BY <1>3, TableType DEF Sound, Undisturbed
<1>5. ASSUME NEW s \in Sectors, SectorToBlockNumber(s) = CurrBlock
      PROVE  /\ \/ Content'[s] = Content[s]
                \/ ~Dynamic /\ s \in CurrRange /\ Content'[s] = Zero
             /\ RecentAt(s)'
  <2> DEFINE i == SectorInBlock(s)
  <2>1. /\ i \in BlockSectors /\ i \in InUse(CurrBlock)
        /\ BackgroundOf(CurrBlock)[i] = Background[s]
        /\ i \in CurrSectors => s \in CurrRange
    BY <1>1, <1>5, RangeCall, SectorsType, SectorPlace, BackgroundOfSector
  <2>2. data[x][i] = Zero /\ (Dynamic => Background[s] = Zero)
    BY <2>1 DEF DiskInv, WriteInv, Blank, Background
  <2>3. bitmap[x] = bitmapOnMedia[x] /\ bitmap[x] = IF SetAllBmpBits THEN BlockSectors ELSE {}
    BY DEF DiskInv, WriteInv
  <2>4. Content[s] = Background[s]
    BY <1>2, <1>5, ContentIs DEF ValueAt
  <2>5. x # Unused
    BY TableType DEF Sound
  <2>6. Content'[s] = IF i \in bitmap[x] THEN data'[x][i] ELSE Background[s]
    BY <1>3, <1>5, <2>5, ContentIs DEF ValueAt
  <2>7. i \in Rest => data'[x][i] = Background[s]
    BY <2>1
  <2>8. i \notin Rest => data'[x][i] = Zero
    BY <2>1, <2>2
  <2>9. i \notin Rest /\ SetAllBmpBits => Dynamic \/ i \in CurrSectors
    BY <2>1 DEF Rest
  <2>10. \/ Content'[s] = Content[s]
         \/ ~Dynamic /\ s \in CurrRange /\ Content'[s] = Zero
    BY <2>1, <2>2, <2>3, <2>4, <2>6, <2>7, <2>8, <2>9
  <2>11. RecentAt(s)'
    <3>1. recent[s] \subseteq recent'[s] /\ Content'[s] \in recent'[s]
      BY <1>1, GrowKeeps
    <3>2. ValueAt(x, bitmap, s)' = Content'[s] /\ ValueAt(x, bitmapOnMedia, s)' = Content'[s]
      BY <1>3, <2>3, <2>5, <2>6 DEF ValueAt
    <3>3. PICK m : m = M[CurrBlock]
      OBVIOUS
    <3>4. m \in Slots \cup {Unused} /\ m # x
      BY <1>2, <1>3, <3>3, TableType DEF Sound
    <3>5. /\ ValueAt(m, bitmap, s)' = ValueAt(m, bitmap, s)
          /\ ValueAt(m, bitmapOnMedia, s)' = ValueAt(m, bitmapOnMedia, s)
      BY <1>3, <3>4 DEF ValueAt
    <3>6. ValueAt(m, bitmap, s) \in recent[s] /\ ValueAt(m, bitmapOnMedia, s) \in recent[s]
      BY <1>1, <1>5, <3>3 DEF RecentInv, RecentAt
    <3>7. \A y \in {T'[CurrBlock], M'[CurrBlock]} :
            ValueAt(y, bitmap, s)' \in recent'[s] /\ ValueAt(y, bitmapOnMedia, s)' \in recent'[s]
      <4>1. T'[CurrBlock] = x /\ M'[CurrBlock] = m
        BY <1>3, <3>3
      <4>2. QED
        BY <3>1, <3>2, <3>5, <3>6, <4>1
    <3>8. QED
      BY <1>5, <3>7 DEF RecentAt, ValueAt
  <2>12. QED
    BY <2>10, <2>11
<1>6. \A s \in Sectors :
        /\ \/ Content'[s] = Content[s]
           \/ ~Dynamic /\ s \in CurrRange /\ Content'[s] = Zero
        /\ RecentAt(s)'
  BY <1>1, <1>4, <1>5, OtherSectors DEF Sound
<1>7. QED
  BY <1>1, <1>6, GrowKeeps DEF RecentInv

\* The new block is filled and placed, or the filling fails and it is lost.
LEMMA FillAndPlaceEntryDisk ==
    ASSUME Sound, Shape', DiskInv, Grow, FillAndPlaceEntry
    PROVE  DiskInv' /\ Disk!Next
<1>0. /\ call.op = "write" /\ call.pc = "fill" /\ UNCHANGED <<session, end>>
      /\ UNCHANGED bitmapVars /\ call.slot \in Slots
  BY DEF FillAndPlaceEntry, At, Sound, Shape, CallOK
<1>1. /\ call \in CallRecords /\ BatInv /\ BitmapsOK /\ DiskOK
      /\ session.open /\ ~ReadOnly
      /\ RangeInv /\ RecentInv
  BY <1>0, WriteFacts
<1>2. /\ DataElsewhere(call.slot)
      /\ \A i \in BlockSectors : i \notin Rest => data'[call.slot][i] = data[call.slot][i]
      /\ \/ /\ BAT!WriteEntry(CurrBlock, call.slot)
            /\ call' = [call EXCEPT !.pc = "writeData", !.fresh = TRUE, !.flush = TRUE]
            /\ UNCHANGED reply
            /\ \A i \in BlockSectors : i \in Rest => data'[call.slot][i] = BackgroundOf(CurrBlock)[i]
         \/ Return("error") /\ UNCHANGED batVars
  <2>1. PICK W \in SUBSET Rest :
          /\ data' = DataWith(call.slot, W, BackgroundOf(CurrBlock))
          /\ \/ /\ W = Rest
                /\ BAT!WriteEntry(CurrBlock, call.slot)
                /\ call' = [call EXCEPT !.pc = "writeData", !.fresh = TRUE, !.flush = TRUE]
                /\ UNCHANGED reply
             \/ Return("error") /\ UNCHANGED batVars
    BY DEF FillAndPlaceEntry, WriteSlot, DataWith, Rest
  <2>2. /\ DataElsewhere(call.slot)
        /\ \A i \in BlockSectors :
             data'[call.slot][i] = IF i \in W THEN BackgroundOf(CurrBlock)[i] ELSE data[call.slot][i]
    BY <1>0, <1>1, <2>1, WriteElsewhere
  <2>3. QED
    BY <2>1, <2>2
<1>3. BlankInv'
  <2>1. end = call.slot + 1 /\ call.slot \in Nat
    BY <1>0, TableType DEF Sound, TablesInv, Appending
  <2>2. call.slot < end' /\ end' >= end
    BY <1>0, <2>1
  <2>3. QED
    BY <1>2, <2>2, BlankStays DEF Sound, DiskInv
<1>4. CASE Return("error") /\ UNCHANGED batVars
  <2>1. BAT!Table' = BAT!Table /\ TablesMove
    BY <1>1, <1>4, TableKept, BatMoves
  <2>2. \A b \in Blocks : BAT!Table[b] # call.slot /\ batOnMedia[b] # call.slot
    BY <1>0 DEF Sound, TablesInv, Appending
  <2>3. BitmapsElsewhere(call.slot)
    BY <1>0, <1>1, MapperElsewhere
  <2>4. RecentInv' /\ Disk!Next
    BY <1>0, <1>2, <1>4, <2>1, <2>2, <2>3, AllUndisturbed, QuietWrite DEF Sound
  <2>5. QED
    BY <1>0, <1>1, <1>3, <1>4, <2>4, WriteFails
<1>5. CASE /\ BAT!WriteEntry(CurrBlock, call.slot)
           /\ call' = [call EXCEPT !.pc = "writeData", !.fresh = TRUE, !.flush = TRUE]
           /\ UNCHANGED reply
           /\ \A i \in BlockSectors : i \in Rest => data'[call.slot][i] = BackgroundOf(CurrBlock)[i]
  <2>1. BAT!Table' = [BAT!Table EXCEPT ![CurrBlock] = call.slot] /\ batOnMedia' = batOnMedia
    BY <1>0, <1>1, <1>5, WriteEntryOK
  <2>2. /\ \A s \in Sectors :
             \/ Content'[s] = Content[s]
             \/ ~Dynamic /\ s \in CurrRange /\ Content'[s] = Zero
        /\ RecentInv'
    <3>1. PICK x \in Slots : x = call.slot
      BY <1>0
    <3>2. /\ BAT!Table' = [BAT!Table EXCEPT ![CurrBlock] = x] /\ DataElsewhere(x)
          /\ \A i \in BlockSectors :
               data'[x][i] = IF i \in Rest THEN BackgroundOf(CurrBlock)[i] ELSE data[x][i]
      BY <1>2, <1>5, <2>1, <3>1
    <3>3. QED
      BY <1>0, <2>1, <3>1, <3>2, PlaceEntryDisk
  <2>3. /\ Continues /\ call'.cur = call.cur /\ call'.pc = "writeData" /\ call'.slot = call.slot
    BY <1>1, <1>5 DEF Continues, CallRecords
  <2>4. /\ call'.op = call.op /\ call'.first = call.first /\ call'.last = call.last
        /\ call'.val = call.val /\ Disk!Continue
    BY <1>1, <2>3, ContinuesCall
  <2>5. Disk!Next
    <3>1. CurrRange \subseteq call.first .. call.last
      BY <1>0, <1>1, RangeCall
    <3>2. QED
      BY <1>0, <2>2, <2>4, <3>1, IsWrite DEF Holes
  <2>6. WriteInv'
    <3>1. CurrBlock' = CurrBlock /\ ReadOnly' = ReadOnly /\ SetAllBmpBits' = SetAllBmpBits
      BY <1>0, <2>3, <2>4 DEF CurrBlock, ReadOnly, SetAllBmpBits, BlockPureMode, TrimEnabled
    <3>2. ~Flushing' /\ ~Flushing /\ CurrBlock \in Blocks
      BY <1>0, <1>1, <2>3, RangeCall DEF Flushing
    <3>3. \A s \in call.first .. call.last : s < call.cur => Content'[s] = call.val
      <4>1. \A s \in call.first .. call.last : s < call.cur => Content[s] = call.val
        BY <1>0 DEF DiskInv, WriteInv
      <4>2. QED
        BY <1>0, <1>1, <2>2, <4>1, DoneElsewhere, RangeCall
    <3>4. BAT!Table'[CurrBlock] = call.slot
      BY <1>1, <2>1, <3>2 DEF BatInv, BAT!BatTypeOK, BAT!Tables, BAT!Table
    <3>5. SetAllBmpBits => bitmap'[call.slot] = BlockSectors
      BY <1>0 DEF DiskInv, WriteInv, bitmapVars
    <3>6. QED
      BY <1>0, <1>1, <2>3, <2>4, <3>1, <3>2, <3>3, <3>4, <3>5 DEF WriteInv
  <2>7. QED
    BY <1>0, <1>1, <1>3, <2>2, <2>3, <2>4, <2>5, <2>6, NotFlushed, RangeStays, WriteGoesOn DEF DiskInv
<1>6. QED
  BY <1>2, <1>4, <1>5

\* The block of a write at its data: it has its place, behind which the file goes on.
LEMMA PlacedFacts ==
    ASSUME Sound, DiskInv, call.op = "write", call.pc \in {"writeData", "setBits"}
    PROVE  /\ call.slot \in Slots /\ BAT!Table[CurrBlock] = call.slot /\ call.slot < end
           /\ CurrBlock \in Blocks
<1>1. call.slot \in Slots /\ BAT!Table[CurrBlock] = call.slot
  BY DEF DiskInv, WriteInv
<1>2. CurrBlock \in Blocks
  BY RangeCall DEF DiskInv
<1>3. BAT!Table[CurrBlock] # Unused
  BY <1>1, TableType DEF Sound
<1>4. QED
  BY <1>1, <1>2, <1>3 DEF Sound, TablesInv, TablesSound, SoundTable

\* Data of a block in the table becomes that of the call, or a part of it does.
LEMMA DataDisk ==
    ASSUME Sound, DiskInv, Grow, call.op = "write", call.pc = "writeData",
           NEW x \in Slots, x = call.slot,
           BAT!Table' = BAT!Table, batOnMedia' = batOnMedia, UNCHANGED bitmapVars,
           NEW W \in SUBSET CurrSectors,
           DataElsewhere(x),
           \A i \in BlockSectors : data'[x][i] = IF i \in W THEN call.val ELSE data[x][i]
    PROVE  /\ \A s \in Sectors :
                Content'[s] = Content[s] \/ (s \in CurrRange /\ Content'[s] = call.val)
           /\ RecentInv'
<1> DEFINE T == BAT!Table
           M == batOnMedia
<1>1. BatInv /\ RangeInv /\ RecentInv /\ BitmapsOK
  BY WriteFacts
<1>2. T[CurrBlock] = x /\ CurrBlock \in Blocks
  BY PlacedFacts
<1>3. \A b \in Blocks : b # CurrBlock => Undisturbed(b)
  <2>1. TablesMove /\ BitmapsElsewhere(x)
    BY DEF TablesMove, BitmapsElsewhere, bitmapVars
  <2>2. QED
    BY <1>2, <2>1, OthersUndisturbed
<1>4. ASSUME NEW s \in Sectors, SectorToBlockNumber(s) = CurrBlock
      PROVE  /\ Content'[s] = Content[s] \/ (s \in CurrRange /\ Content'[s] = call.val)
             /\ RecentAt(s)'
  <2> DEFINE i == SectorInBlock(s)
  <2>1. i \in BlockSectors /\ (i \in CurrSectors => s \in CurrRange)
    BY <1>1, <1>4, RangeCall, SectorsType, SectorPlace
  <2>2. recent[s] \subseteq recent'[s] /\ (s \in CurrRange => call.val \in recent'[s])
    <3>1. s \in CurrRange => call.val \in recent[s]
      BY <1>1, RangeCall DEF DiskInv, ValueInv
    <3>2. QED
      BY <1>1, <3>1, GrowKeeps
  <2>3. data'[x][i] = data[x][i] \/ (s \in CurrRange /\ data'[x][i] = call.val)
    BY <2>1
  <2>4. ASSUME NEW y \in Slots \cup {Unused}
        PROVE  /\ \/ ValueAt(y, bitmap, s)' = ValueAt(y, bitmap, s)
                  \/ s \in CurrRange /\ ValueAt(y, bitmap, s)' = call.val
               /\ \/ ValueAt(y, bitmapOnMedia, s)' = ValueAt(y, bitmapOnMedia, s)
                  \/ s \in CurrRange /\ ValueAt(y, bitmapOnMedia, s)' = call.val
    <3>1. CASE y # x
      BY <3>1 DEF ValueAt, bitmapVars, DataElsewhere
    <3>2. CASE y = x
      BY <2>3, <3>2 DEF ValueAt, bitmapVars
    <3>3. QED
      BY <3>1, <3>2
  <2>5. Content'[s] = Content[s] \/ (s \in CurrRange /\ Content'[s] = call.val)
    BY <1>2, <1>4, <2>4, ContentIs
  <2>6. RecentAt(s)'
    <3>1. \A y \in {T[CurrBlock], M[CurrBlock]} : y \in Slots \cup {Unused}
      BY <1>2, TableType DEF Sound
    <3>2. \A y \in {T[CurrBlock], M[CurrBlock]} :
            ValueAt(y, bitmap, s)' \in recent'[s] /\ ValueAt(y, bitmapOnMedia, s)' \in recent'[s]
      BY <1>1, <1>4, <2>2, <2>4, <3>1 DEF RecentInv, RecentAt
    <3>3. QED
      BY <1>4, <3>2 DEF RecentAt, ValueAt
  <2>7. QED
    BY <2>5, <2>6
<1>5. \A s \in Sectors :
        /\ Content'[s] = Content[s] \/ (s \in CurrRange /\ Content'[s] = call.val)
        /\ RecentAt(s)'
  BY <1>1, <1>3, <1>4, OtherSectors DEF Sound
<1>6. QED
  BY <1>1, <1>5, GrowKeeps DEF RecentInv

\* The data is written, or a part of it and the call fails.
LEMMA WriteDataDisk ==
    ASSUME Sound, Shape', DiskInv, Grow, WriteData
    PROVE  DiskInv' /\ Disk!Next
<1>0. /\ call.op = "write" /\ call.pc = "writeData" /\ UNCHANGED session
      /\ UNCHANGED bitmapVars /\ UNCHANGED batVars
  BY DEF WriteData, At
<1>1. /\ call \in CallRecords /\ BatInv /\ BitmapsOK /\ DiskOK
      /\ session.open /\ ~ReadOnly
      /\ RangeInv /\ RecentInv
  BY <1>0, WriteFacts
<1>2. /\ call.slot \in Slots /\ BAT!Table[CurrBlock] = call.slot /\ call.slot < end
      /\ CurrBlock \in Blocks /\ call.slot # Bogus
  BY <1>0, PlacedFacts, TableType DEF Sound
<1>3. PICK x \in Slots : x = call.slot
  BY <1>2
<1>4. PICK W \in SUBSET CurrSectors :
        /\ data' = DataWith(x, W, [i \in BlockSectors |-> call.val])
        /\ end' = end
        /\ (W = CurrSectors /\ Goto("setBits")) \/ Return("error")
  BY <1>2, <1>3 DEF WriteData, WriteSlot, DataWith
<1>5. /\ DataElsewhere(x)
      /\ \A i \in BlockSectors : data'[x][i] = IF i \in W THEN call.val ELSE data[x][i]
  <2>1. PICK v : v = [i \in BlockSectors |-> call.val]
    OBVIOUS
  <2>2. /\ DataElsewhere(x)
        /\ \A i \in BlockSectors : data'[x][i] = IF i \in W THEN v[i] ELSE data[x][i]
    BY <1>1, <1>4, <2>1, WriteElsewhere
  <2>3. QED
    BY <2>1, <2>2
<1>6. BAT!Table' = BAT!Table /\ batOnMedia' = batOnMedia
  BY <1>0, <1>1, TableKept DEF batVars
<1>7. /\ \A s \in Sectors :
           Content'[s] = Content[s] \/ (s \in CurrRange /\ Content'[s] = call.val)
      /\ RecentInv'
  BY <1>0, <1>3, <1>5, <1>6, DataDisk
<1>8. BlankInv'
  <2>1. end' >= end /\ x < end'
    BY <1>2, <1>3, <1>4, TableType DEF Sound
  <2>2. QED
    BY <1>5, <2>1, BlankStays DEF Sound, DiskInv
<1>9. CurrRange \subseteq call.first .. call.last /\ CurrSectors \subseteq BlockSectors
      /\ call.first .. call.last \subseteq Sectors
  BY <1>0, <1>1, RangeCall
<1>10. CASE Return("error")
  <2>1. Disk!Next
    BY <1>0, <1>7, <1>9, <1>10, IsWrite
  <2>2. QED
    BY <1>0, <1>1, <1>7, <1>8, <1>10, <2>1, WriteFails
<1>11. CASE W = CurrSectors /\ Goto("setBits")
  <2>1. /\ Continues /\ call'.cur = call.cur /\ call'.pc = "setBits" /\ call'.slot = call.slot
        /\ call'.fresh = call.fresh
    BY <1>1, <1>11 DEF Goto, Continues, CallRecords
  <2>2. /\ call'.op = call.op /\ call'.first = call.first /\ call'.last = call.last
        /\ call'.val = call.val /\ Disk!Continue
    BY <1>1, <2>1, ContinuesCall
  <2>3. Disk!Next
    BY <1>0, <1>7, <1>9, <2>2, IsWrite
  <2>4. WriteInv'
    <3>1. /\ CurrBlock' = CurrBlock /\ ReadOnly' = ReadOnly /\ SetAllBmpBits' = SetAllBmpBits
          /\ CurrSectors' = CurrSectors
      BY <1>0, <2>1, <2>2
         DEF CurrBlock, CurrSectors, CurrRange, ReadOnly, SetAllBmpBits, BlockPureMode, TrimEnabled
    <3>2. ~Flushing' /\ ~Flushing
      BY <1>0, <2>1 DEF Flushing
    <3>3. \A s \in call.first .. call.last : s < call.cur => Content'[s] = call.val
      <4>1. \A s \in call.first .. call.last : s < call.cur => Content[s] = call.val
        BY <1>0 DEF DiskInv, WriteInv
      <4>2. QED
        BY <1>0, <1>1, <1>7, <1>9, <4>1, DoneElsewhere
    <3>4. call.fresh /\ SetAllBmpBits => bitmap'[call.slot] = BlockSectors
      BY <1>0 DEF DiskInv, WriteInv, bitmapVars
    <3>5. \A i \in CurrSectors : data'[call.slot][i] = call.val
      BY <1>3, <1>5, <1>9, <1>11
    <3>6. QED
      BY <1>0, <1>1, <1>2, <1>6, <2>1, <2>2, <3>1, <3>2, <3>3, <3>4, <3>5 DEF WriteInv
  <2>5. QED
    BY <1>0, <1>1, <1>7, <1>8, <2>1, <2>2, <2>3, <2>4, NotFlushed, RangeStays, WriteGoesOn
       DEF DiskInv
<1>12. QED
  BY <1>4, <1>10, <1>11

\* The bits of the new data are set: now it is the content.
LEMMA BitsDisk ==
    ASSUME Sound, DiskInv, Grow, call.op = "write", call.pc = "setBits",
           NEW x \in Slots, x = call.slot,
           BAT!Table' = BAT!Table, batOnMedia' = batOnMedia, UNCHANGED data,
           NEW S,
           \/ BlockPureMode /\ UNCHANGED bitmapVars
           \/ /\ Mapper!SetBits(x, S)
              /\ S = IF call.fresh /\ SetAllBmpBits THEN BlockSectors ELSE CurrSectors
    PROVE  /\ \A s \in Sectors :
                Content'[s] = IF s \in CurrRange THEN call.val ELSE Content[s]
           /\ RecentInv'
<1> DEFINE T == BAT!Table
           M == batOnMedia
<1>1. BatInv /\ RangeInv /\ RecentInv /\ BitmapsOK
  BY WriteFacts
<1>2. T[CurrBlock] = x /\ CurrBlock \in Blocks /\ x # Unused
  BY PlacedFacts, TableType DEF Sound
<1>3. BitmapsElsewhere(x)
  BY <1>1, MapperElsewhere
<1>4. \A b \in Blocks : b # CurrBlock => Undisturbed(b)
  <2>1. TablesMove /\ DataElsewhere(x)
    BY DEF TablesMove, DataElsewhere
  <2>2. QED
    BY <1>2, <1>3, <2>1, OthersUndisturbed
<1>5. CurrSectors \subseteq BlockSectors
  BY <1>1, RangeCall
<1>6. /\ \A i \in BlockSectors : i \in bitmap'[x] <=> i \in bitmap[x] \/ i \in CurrSectors
      /\ bitmapOnMedia'[x] \in {bitmapOnMedia[x], bitmap[x]}
  <2>1. CASE BlockPureMode /\ UNCHANGED bitmapVars
    <3>1. session.open /\ ~ReadOnly
      BY WriteFacts
    <3>2. bitmap[T[CurrBlock]] = BlockSectors
      BY <1>2, <2>1, <3>1 DEF Sound, PureInv, PureBitmapsFull
    <3>3. QED
      BY <1>2, <2>1, <3>2 DEF bitmapVars
  <2>2. CASE /\ Mapper!SetBits(x, S)
             /\ S = IF call.fresh /\ SetAllBmpBits THEN BlockSectors ELSE CurrSectors
    <3>1. /\ bitmap'[x] = bitmap[x] \cup S
          /\ bitmapOnMedia'[x] \in {bitmapOnMedia[x], bitmap[x]}
      BY <1>1, <2>2 DEF Mapper!SetBits, Mapper!WriteBack, BitmapsOK, Mapper!Bitmaps
    <3>2. call.fresh /\ SetAllBmpBits => bitmap[x] = BlockSectors
      BY DEF DiskInv, WriteInv
    <3>3. QED
      BY <1>5, <2>2, <3>1, <3>2
  <2>3. QED
    BY <2>1, <2>2
<1>7. ASSUME NEW s \in Sectors, SectorToBlockNumber(s) = CurrBlock
      PROVE  /\ Content'[s] = IF s \in CurrRange THEN call.val ELSE Content[s]
             /\ RecentAt(s)'
  <2> DEFINE i == SectorInBlock(s)
  <2>1. i \in BlockSectors /\ (i \in CurrSectors <=> s \in CurrRange)
    BY <1>1, <1>7, RangeCall, SectorsType, SectorPlace
  <2>2. i \in CurrSectors => data[x][i] = call.val
    BY DEF DiskInv, WriteInv
  <2>3. Content'[s] = IF s \in CurrRange THEN call.val ELSE Content[s]
    BY <1>2, <1>6, <1>7, <2>1, <2>2, ContentIs DEF ValueAt
  <2>4. recent[s] \subseteq recent'[s] /\ Content'[s] \in recent'[s]
    BY <1>1, GrowKeeps
  <2>5. /\ ValueAt(x, bitmap, s)' = Content'[s]
        /\ ValueAt(x, bitmapOnMedia, s)' \in {ValueAt(x, bitmap, s), ValueAt(x, bitmapOnMedia, s)}
    BY <1>2, <1>6, <1>7, ContentIs DEF ValueAt
  <2>6. ASSUME NEW y \in Slots \cup {Unused}, y # x
        PROVE  /\ ValueAt(y, bitmap, s)' = ValueAt(y, bitmap, s)
               /\ ValueAt(y, bitmapOnMedia, s)' \in
                    {ValueAt(y, bitmap, s), ValueAt(y, bitmapOnMedia, s)}
    BY <1>3, <2>6 DEF ValueAt, BitmapsElsewhere
  <2>7. \A y \in {T[CurrBlock], M[CurrBlock]} :
          ValueAt(y, bitmap, s)' \in recent'[s] /\ ValueAt(y, bitmapOnMedia, s)' \in recent'[s]
    <3>1. \A y \in {T[CurrBlock], M[CurrBlock]} :
            /\ y \in Slots \cup {Unused}
            /\ ValueAt(y, bitmap, s) \in recent[s] /\ ValueAt(y, bitmapOnMedia, s) \in recent[s]
      BY <1>1, <1>2, <1>7, TableType DEF Sound, RecentInv, RecentAt
    <3>2. QED
      BY <1>2, <2>4, <2>5, <2>6, <3>1
  <2>8. RecentAt(s)'
    BY <1>7, <2>7 DEF RecentAt, ValueAt
  <2>9. QED
    BY <2>3, <2>8
<1>8. \A s \in CurrRange : SectorToBlockNumber(s) = CurrBlock
  BY DEF CurrRange
<1>9. \A s \in Sectors :
        /\ Content'[s] = IF s \in CurrRange THEN call.val ELSE Content[s]
        /\ RecentAt(s)'
  BY <1>1, <1>4, <1>7, <1>8, OtherSectors DEF Sound
<1>10. QED
  BY <1>1, <1>9, GrowKeeps DEF RecentInv

\* The write goes on with the next block, is flushed or returns.
LEMMA SetBitsDisk ==
    ASSUME Sound, Shape', DiskInv, Grow, SetBits
    PROVE  DiskInv' /\ Disk!Next
<1>0. /\ call.op = "write" /\ call.pc = "setBits" /\ UNCHANGED <<session, data, end>>
      /\ UNCHANGED batVars
  BY DEF SetBits, At, diskVars
<1>1. /\ call \in CallRecords /\ BatInv /\ BitmapsOK /\ DiskOK
      /\ session.open /\ ~ReadOnly
      /\ RangeInv /\ RecentInv
  BY <1>0, WriteFacts
<1>2. /\ call.slot \in Slots /\ BAT!Table[CurrBlock] = call.slot /\ call.slot # Bogus
  BY <1>0, PlacedFacts, TableType DEF Sound
<1>3. BAT!Table' = BAT!Table /\ batOnMedia' = batOnMedia
  BY <1>0, <1>1, TableKept DEF batVars
<1>4. /\ \A s \in Sectors :
           Content'[s] = IF s \in CurrRange THEN call.val ELSE Content[s]
      /\ RecentInv'
  <2>1. PICK x \in Slots : x = call.slot
    BY <1>2
  <2>2. PICK S : S = IF call.fresh /\ SetAllBmpBits THEN BlockSectors ELSE CurrSectors
    OBVIOUS
  <2>3. \/ BlockPureMode /\ UNCHANGED bitmapVars
        \/ Mapper!SetBits(x, S)
    BY <1>2, <2>1, <2>2 DEF SetBits
  <2>4. QED
    BY <1>0, <1>3, <2>1, <2>2, <2>3, BitsDisk
<1>5. BlankInv'
  BY <1>0, BlankKept DEF DiskInv
<1>6. CurrRange \subseteq call.first .. call.last /\ call.first .. call.last \subseteq Sectors
  BY <1>0, <1>1, RangeCall
<1>7. \A s \in call.first .. call.last :
        s < call.cur \/ s \in CurrRange => Content'[s] = call.val
  <2>1. \A s \in call.first .. call.last : s < call.cur => Content[s] = call.val
    BY <1>0 DEF DiskInv, WriteInv
  <2>2. QED
    BY <1>4, <1>6, <2>1
<1>8. ASSUME Disk!Continue PROVE Disk!Next
  BY <1>0, <1>4, <1>6, <1>8, IsWrite
<1>9. CASE ~LastBlock /\ NextBlock("readEntry")
  <2>1. /\ Continues /\ call'.cur = (CurrBlock + 1) * SectorsPerBlock /\ call'.pc = "readEntry"
        /\ call'.fresh = FALSE
    BY <1>1, <1>9 DEF NextBlock, Continues, CallRecords
  <2>2. /\ call'.op = call.op /\ call'.first = call.first /\ call'.last = call.last
        /\ call'.val = call.val /\ Disk!Continue
    BY <1>1, <2>1, ContinuesCall
  <2>3. /\ RangeInv'
        /\ \A s \in call.first .. call.last : s < call'.cur => s < call.cur \/ s \in CurrRange
    BY <1>0, <1>1, <1>9, <2>1, RangeNext
  <2>4. WriteInv'
    <3>1. ReadOnly' = ReadOnly /\ ~Flushing'
      BY <1>0, <2>1 DEF ReadOnly, Flushing
    <3>2. \A s \in call'.first .. call'.last : s < call'.cur => Content'[s] = call'.val
      BY <1>7, <2>2, <2>3
    <3>3. QED
      BY <1>1, <2>1, <3>1, <3>2 DEF WriteInv
  <2>5. QED
    BY <1>0, <1>1, <1>4, <1>5, <1>8, <2>1, <2>2, <2>3, <2>4, NotFlushed, WriteGoesOn
<1>10. CASE LastBlock /\ (Goto("flushBat") \/ Return("ok"))
  <2>1. \A s \in call.first .. call.last : Content'[s] = call.val
    BY <1>0, <1>1, <1>7, <1>10, RangeEnds
  <2>2. CASE Goto("flushBat")
    <3>1. /\ Continues /\ call'.cur = call.cur /\ call'.pc = "flushBat"
      BY <1>1, <2>2 DEF Goto, Continues, CallRecords
    <3>2. /\ call'.op = call.op /\ call'.first = call.first /\ call'.last = call.last
          /\ call'.val = call.val /\ Disk!Continue
      BY <1>1, <3>1, ContinuesCall
    <3>3. WriteInv'
      <4>1. ReadOnly' = ReadOnly /\ Flushing'
        BY <1>0, <3>1 DEF ReadOnly, Flushing
      <4>2. QED
        BY <1>1, <2>1, <3>1, <3>2, <4>1 DEF WriteInv
    <3>4. QED
      BY <1>0, <1>1, <1>4, <1>5, <1>8, <3>1, <3>2, <3>3, NotFlushed, RangeStays, WriteGoesOn
  <2>3. CASE Return("ok")
    <3>1. call' = NoCall /\ call'.pc = "none"
      BY <2>3, ReturnPc
    <3>2. Disk!Next
      BY <1>0, <1>4, <1>6, <2>1, <2>3, IsWrite
    <3>3. DurableInv'
      BY <1>0, <1>1, <3>1, NotFlushed
    <3>4. QED
      BY <1>4, <1>5, <3>1, <3>2, <3>3, IdleCall DEF DiskInv, CallInv
  <2>4. QED
    BY <1>10, <2>2, <2>3
<1>11. QED
  BY <1>9, <1>10 DEF SetBits

-----------------------------------------------------------------------------
(***************************************************************************)
(* Flushing and closing                                                    *)
(***************************************************************************)

\* What the calls that flush have in common.
LEMMA FlushFacts ==
    ASSUME Sound, DiskInv, Flushing
    PROVE  /\ call \in CallRecords /\ BatInv /\ session.open
           /\ call.op \in {"write", "open", "flush", "close"}
           /\ Content = [s \in Sectors |-> Content[s]]
  BY NoCallOK
     DEF Sound, Shape, CallOK, SessionOK, CallRecords, DiskInv, DiscardedInv, Flushing, Content

\* A step of a flush that goes on.
LEMMA FlushGoesOn ==
    ASSUME Sound, Shape', DiskInv, Grow, Flushing,
           UNCHANGED <<session, data, end>>, BAT!Table' = BAT!Table, TablesMove,
           UNCHANGED bitmapVars \/ Mapper!KeepBits \/ Mapper!FlushBits,
           Goto("flushMapper") \/ Goto("fsync") \/ FlushFailed("flushMapper") \/ FlushFailed("fsync"),
           DurableInv'
    PROVE  DiskInv' /\ Disk!Next
<1>0. /\ call \in CallRecords /\ session.open /\ RecentInv
      /\ call.op \in {"write", "open", "flush", "close"}
  BY FlushFacts DEF DiskInv
<1>1. \A b \in Blocks : Undisturbed(b)
  BY QuietUndisturbed DEF Sound
<1>2. UNCHANGED Content /\ RecentInv'
  BY <1>0, <1>1, UndisturbedDisk DEF Sound
<1>3. /\ Continues /\ call'.cur = call.cur /\ call'.pc \in {"flushMapper", "fsync"} /\ Flushing'
  BY <1>0 DEF Goto, FlushFailed, Continues, CallRecords, Flushing
<1>4. /\ call'.op = call.op /\ call'.first = call.first /\ call'.last = call.last
      /\ call'.val = call.val /\ Disk!Continue
  BY <1>0, <1>3, ContinuesCall
<1>5. BlankInv' /\ RangeInv'
  BY <1>0, <1>3, BlankKept, RangeStays DEF DiskInv
<1>6. CASE call.op = "write"
  <2>1. Disk!Next
    BY <1>1, <1>4, <1>6, QuietWrite
  <2>2. WriteInv'
    <3>1. ReadOnly' = ReadOnly
      BY DEF ReadOnly
    <3>2. ~ReadOnly /\ \A s \in call.first .. call.last : Content[s] = call.val
      BY <1>6 DEF DiskInv, WriteInv
    <3>3. QED
      BY <1>2, <1>3, <1>4, <3>1, <3>2 DEF WriteInv
  <2>3. QED
    BY <1>0, <1>2, <1>4, <1>5, <1>6, <2>1, <2>2, WriteGoesOn
<1>7. CASE call.op # "write"
  <2>1. UNCHANGED recent
    BY <1>0, <1>2, <1>4, <1>7, GrowKeeps
  <2>2. Disk!Next
    BY <1>0, <1>2, <1>4, <1>7, <2>1, IsSync
  <2>3. CallInv'
    BY <1>0, <1>3, <1>4, <1>5, <1>7
       DEF CallInv, WriteInv, ValueInv, DiscardedInv, FilledInv, OtherInv
  <2>4. QED
    BY <1>2, <1>5, <2>2, <2>3 DEF DiskInv, CallInv
<1>8. QED
  BY <1>6, <1>7

\* The table is flushed, or its flush fails half-way.
LEMMA FlushBatDisk ==
    ASSUME Sound, Shape', DiskInv, Grow, FlushBat
    PROVE  DiskInv' /\ Disk!Next
<1>0. call.pc = "flushBat" /\ Flushing /\ UNCHANGED <<session, data, end>> /\ UNCHANGED bitmapVars
  BY DEF FlushBat, Flushing, diskVars
<1>1. call \in CallRecords /\ BatInv /\ session.open
  BY <1>0, FlushFacts
<1>2. BAT!Table' = BAT!Table /\ TablesMove
  BY <1>1, TableKept, BatMoves DEF FlushBat
<1>3. DurableInv'
  <2>1. CASE BAT!Flush /\ Goto("flushMapper")
    <3>1. BAT!Table = batOnMedia'
      BY <1>1, <2>1
         DEF BAT!Flush, BAT!Table, BAT!StateValid, BatInv, BAT!BatTypeOK, BatCoherent, BAT!BatCoherent
    <3>2. call'.pc = "flushMapper" /\ session'.open
      BY <1>0, <1>1, <2>1, GotoPc
    <3>3. QED
      BY <1>2, <3>1, <3>2 DEF DurableInv
  <2>2. CASE FlushFailed("flushMapper")
    <3>1. call'.failed /\ session'.open
      BY <1>0, <1>1, <2>2 DEF FlushFailed, CallRecords
    <3>2. QED
      BY <3>1 DEF DurableInv
  <2>3. QED
    BY <2>1, <2>2 DEF FlushBat
<1>4. QED
  BY <1>0, <1>2, <1>3, FlushGoesOn DEF FlushBat

\* The bitmaps are flushed, or some of them.
LEMMA FlushMapperDisk ==
    ASSUME Sound, Shape', DiskInv, Grow, FlushMapper
    PROVE  DiskInv' /\ Disk!Next
<1>0. /\ call.pc = "flushMapper" /\ Flushing /\ UNCHANGED <<session, data, end>>
      /\ UNCHANGED batVars
  BY DEF FlushMapper, Flushing, diskVars
<1>1. call \in CallRecords /\ BatInv /\ session.open
  BY <1>0, FlushFacts
<1>2. BAT!Table' = BAT!Table /\ TablesMove /\ batOnMedia' = batOnMedia
  BY <1>0, <1>1, TableKept, BatMoves DEF batVars
<1>3. DurableInv'
  <2>1. CASE Mapper!FlushBits /\ Goto("fsync")
    <3>1. bitmap' = bitmapOnMedia'
      BY <2>1 DEF Mapper!FlushBits
    <3>2. call'.pc = "fsync" /\ session'.open /\ call'.failed = call.failed
      BY <1>0, <1>1, <2>1 DEF Goto, CallRecords
    <3>3. ~call.failed => BAT!Table = batOnMedia
      BY <1>0 DEF DiskInv, DurableInv
    <3>4. QED
      BY <1>2, <3>1, <3>2, <3>3 DEF DurableInv
  <2>2. CASE FlushFailed("fsync")
    <3>1. call'.failed /\ session'.open
      BY <1>0, <1>1, <2>2 DEF FlushFailed, CallRecords
    <3>2. QED
      BY <3>1 DEF DurableInv
  <2>3. QED
    BY <2>1, <2>2 DEF FlushMapper
<1>4. QED
  BY <1>0, <1>2, <1>3, FlushGoesOn DEF FlushMapper

\* A flush returns: if it did not fail, all is durable.
LEMMA FlushReturnsDisk ==
    ASSUME Sound, Shape', DiskInv, AllDurable => Settle, ~AllDurable => Grow, FlushReturns
    PROVE  DiskInv' /\ Disk!Next
<1>0. /\ call.pc = "fsync" /\ call.op \in {"write", "flush"} /\ Flushing
      /\ UNCHANGED <<session, data, end>> /\ UNCHANGED bitmapVars /\ UNCHANGED batVars
  BY DEF FlushReturns, Flushing, diskVars
<1>1. call \in CallRecords /\ BatInv /\ session.open /\ RecentInv
  BY <1>0, FlushFacts DEF DiskInv
<1>2. BAT!Table' = BAT!Table /\ TablesMove /\ batOnMedia' = batOnMedia
  BY <1>0, <1>1, TableKept, BatMoves DEF batVars
<1>3. UNCHANGED Content
  BY <1>0, <1>2 DEF Content, bitmapVars
<1>4. BlankInv'
  BY <1>0, BlankKept DEF DiskInv
<1>5. call.op = "write" => \A s \in call.first .. call.last : Content[s] = call.val
  BY <1>0 DEF DiskInv, WriteInv
<1>6. ASSUME NEW kind, Return(kind)
      PROVE  DurableInv' /\ CallInv'
  BY <1>0, <1>1, <1>6, ReturnPc, NotFlushed, IdleCall
<1>7. CASE Return("ok") /\ ~call.failed
  <2>1. Settle
    BY <1>0, <1>7 DEF AllDurable, Return, Reply
  <2>2. BAT!Table = batOnMedia /\ bitmap = bitmapOnMedia
    BY <1>0, <1>7 DEF DiskInv, DurableInv
  <2>3. RecentInv'
    BY <1>0, <1>2, <2>1, <2>2, SettledDisk DEF bitmapVars
  <2>4. Disk!Next
    <3>1. CASE call.op = "write"
      <4>1. call.first .. call.last \subseteq Sectors
        BY <3>1, SizeType DEF DiskInv, RangeInv, Sectors
      <4>2. QED
        BY <1>3, <1>5, <1>7, <2>1, <3>1, <4>1, IsWrite
    <3>2. CASE call.op = "flush"
      BY <1>3, <1>7, <2>1, <3>2, IsSync
    <3>3. QED
      BY <1>0, <3>1, <3>2
  <2>5. QED
    BY <1>4, <1>6, <1>7, <2>3, <2>4 DEF DiskInv, CallInv
<1>8. CASE Return("error")
  <2>1. ~AllDurable
    BY <1>0, <1>1, <1>8 DEF AllDurable, Return, Reply
  <2>2. Grow /\ call'.op = "none"
    BY <1>8, <2>1, ReturnPc
  <2>3. \A b \in Blocks : Undisturbed(b)
    BY <1>0, <1>2, QuietUndisturbed DEF Sound
  <2>4. RecentInv' /\ UNCHANGED recent
    BY <1>1, <1>3, <2>2, <2>3, UndisturbedDisk, GrowKeeps DEF Sound
  <2>5. Disk!Next
    <3>1. CASE call.op = "write"
      BY <1>8, <2>2, <2>3, <3>1, QuietWrite
    <3>2. CASE call.op = "flush"
      BY <1>3, <1>8, <2>4, <3>2, IsSync
    <3>3. QED
      BY <1>0, <3>1, <3>2
  <2>6. QED
    BY <1>4, <1>6, <1>8, <2>4, <2>5 DEF DiskInv, CallInv
<1>9. QED
  <2>1. PICK failed \in FlushOutcomes : Return(IF failed THEN "error" ELSE "ok")
    BY DEF FlushReturns
  <2>2. failed = TRUE \/ failed = call.failed
    BY <2>1 DEF FlushOutcomes
  <2>3. call.failed \in BOOLEAN
    BY <1>1 DEF CallRecords
  <2>4. QED
    BY <1>7, <1>8, <2>1, <2>2, <2>3

\* The file is closed: all is durable, unless a flush failed.
LEMMA CloseReturnsDisk ==
    ASSUME Sound, Shape', DiskInv, Settle, CloseReturns
    PROVE  DiskInv' /\ Disk!Next
<1>0. call.op = "close" /\ call.pc = "fsync" /\ Flushing /\ UNCHANGED <<data, end>>
  BY DEF CloseReturns, At, Flushing, diskVars
<1>1. call \in CallRecords /\ BatInv
  BY <1>0, FlushFacts
<1>2. CASE ~call.failed /\ UNCHANGED bitmapVars /\ DropSession("ok")
  <2>1. BAT!Table = batOnMedia /\ bitmap = bitmapOnMedia
    BY <1>0, <1>2 DEF DiskInv, DurableInv
  <2>2. BAT!Table' = batOnMedia' /\ batOnMedia' = batOnMedia
    BY <1>2 DEF DropSession, BAT!InvalidateCache, BAT!Table, BAT!StateValid
  <2>3. UNCHANGED Content /\ bitmap' = bitmapOnMedia'
    BY <1>0, <1>2, <2>1, <2>2 DEF Content, bitmapVars
  <2>4. Return("ok")
    BY <1>2 DEF DropSession
  <2>5. RecentInv' /\ Disk!Next
    BY <1>0, <2>2, <2>3, <2>4, SettledDisk, IsSync
  <2>6. DurableInv' /\ BlankInv' /\ CallInv'
    BY <1>0, <2>2, <2>3, <2>4, ReturnPc, BlankKept, IdleCall DEF DiskInv, DurableInv
  <2>7. QED
    BY <2>5, <2>6 DEF DiskInv, CallInv
<1>3. CASE /\ Mapper!LoseBits
           /\ \E W \in SUBSET Blocks :
                batOnMedia' = [b \in Blocks |-> IF b \in W THEN BAT!Table[b] ELSE batOnMedia[b]]
           /\ iBatBuffer' = BAT!EmptyTable /\ batState' = "EInvalid"
           /\ session' = Closed
           /\ Return("lost")
  <2>1. \A b \in Blocks : batOnMedia'[b] \in {batOnMedia[b], BAT!Table[b]}
    BY <1>3
  <2>2. BAT!Table' = batOnMedia'
    BY <1>3 DEF BAT!Table, BAT!StateValid
  <2>3. QED
    BY <1>0, <1>3, <2>1, <2>2, LoseDisk
<1>4. QED
  BY <1>2, <1>3 DEF CloseReturns

\* Dropping the session with what its caches hold.
LEMMA DropDisk ==
    ASSUME Sound, Shape', DiskInv, Settle, UNCHANGED data, UNCHANGED end,
           Mapper!LoseBits, NEW kind, DropSession(kind),
           kind = "lost" \/ (call.op = "open" /\ kind = "error")
    PROVE  DiskInv' /\ Disk!Next
<1>1. BAT!Table' = batOnMedia' /\ batOnMedia' = batOnMedia /\ session' = Closed /\ Return(kind)
  BY DEF DropSession, BAT!InvalidateCache, BAT!Table, BAT!StateValid
<1>2. QED
  BY <1>1, LoseDisk

\* The process dies.
LEMMA ProcessDiesDisk ==
    ASSUME Sound, Shape', DiskInv, Settle, ProcessDies
    PROVE  DiskInv' /\ Disk!Next
  BY DropDisk DEF ProcessDies, diskVars

-----------------------------------------------------------------------------
(***************************************************************************)
(* Opening for pure mode                                                   *)
(***************************************************************************)

\* The loop over the blocks: the current one, and where its bitmap is.
LEMMA OpenFacts ==
    ASSUME Sound, DiskInv, call.op = "open"
    PROVE  /\ call \in CallRecords /\ BatInv /\ BitmapsOK /\ DiskOK /\ session.open /\ RecentInv
           /\ call.pc = "scan" \/ call.pc \in {"fillUnset", "setUnset"} => call.cur \in Blocks
           /\ call.pc \in {"fillUnset", "setUnset"} =>
                /\ call.slot \in Slots /\ BAT!Table[call.cur] = call.slot
                /\ call.slot # Unused /\ call.slot < end
<1>1. /\ call \in CallRecords /\ BatInv /\ BitmapsOK /\ DiskOK /\ session.open /\ RecentInv
      /\ call.pc \in {"fillUnset", "setUnset"} => call.slot \in Slots
  BY NoCallOK DEF Sound, Shape, CallOK, SessionOK, DiskInv
<1>2. /\ call.pc = "scan" \/ call.pc \in {"fillUnset", "setUnset"} => call.cur \in Blocks
      /\ call.pc \in {"fillUnset", "setUnset"} => BAT!Table[call.cur] = call.slot
  BY DEF Sound, PureInv, OpenInv, Scanning
<1>3. call.pc \in {"fillUnset", "setUnset"} => call.slot # Unused /\ call.slot < end
  BY <1>1, <1>2, TableType DEF Sound, TablesInv, TablesSound, SoundTable
<1>4. QED
  BY <1>1, <1>2, <1>3

\* The processing goes on, and leaves the content as it is.
LEMMA OpenGoesOn ==
    ASSUME Sound, Shape', DiskInv, Grow, call.op = "open", UNCHANGED <<session, reply>>,
           call' \in CallRecords, call'.op = "open",
           call'.pc \in {"scan", "fillUnset", "setUnset", "flushBat"},
           UNCHANGED Content, RecentInv', BlankInv', FilledInv'
    PROVE  DiskInv' /\ Disk!Next
<1>1. session'.open /\ RecentInv
  BY OpenFacts DEF DiskInv
<1>2. DurableInv'
  BY <1>1, NotFlushed
<1>3. Disk!Continue
  BY DEF Disk!Continue, ClientCall
<1>4. UNCHANGED recent
  BY <1>1, GrowKeeps
<1>5. Disk!Next
  BY <1>3, <1>4, IsSync
<1>6. QED
  BY <1>2, <1>5 DEF DiskInv, RangeInv, WriteInv, ValueInv, DiscardedInv, OtherInv

\* A block whose bitmap is full, or that is not in the file, needs nothing; to fill
\* the others comes next.
LEMMA ScanBlockDisk ==
    ASSUME Sound, Shape', DiskInv, AllDurable => Settle, ~AllDurable => Grow, ScanBlock
    PROVE  DiskInv' /\ Disk!Next
<1>0. call.op = "open" /\ call.pc = "scan" /\ UNCHANGED <<data, end>>
  BY DEF ScanBlock, At, diskVars
<1>1. call \in CallRecords /\ BatInv /\ session.open /\ RecentInv /\ CallOK
  BY <1>0, OpenFacts DEF Sound, Shape
<1>2. CASE /\ BAT!ReadBAT /\ UNCHANGED session
           /\ UNCHANGED bitmapVars \/ Mapper!KeepBits
           /\ \/ ScanNext
              \/ \E x \in Slots : call' = [call EXCEPT !.pc = "fillUnset", !.slot = x] /\ UNCHANGED reply
  <2>1. BAT!Table' = BAT!Table /\ TablesMove
    BY <1>1, <1>2, TableKept, BatMoves
  <2>2. \A b \in Blocks : Undisturbed(b)
    BY <1>0, <1>2, <2>1, QuietUndisturbed DEF Sound
  <2>3. Grow
    BY <1>0, <1>1, <1>2 DEF AllDurable
  <2>4. UNCHANGED Content /\ RecentInv'
    BY <1>1, <2>2, <2>3, UndisturbedDisk DEF Sound
  <2>5. /\ call' \in CallRecords /\ call'.op = "open" /\ UNCHANGED reply
        /\ call'.pc \in {"scan", "fillUnset", "flushBat"}
    <3>1. CASE ScanNext
      BY <1>0, <1>1, <3>1, ScanNextOK
    <3>2. CASE \E x \in Slots : call' = [call EXCEPT !.pc = "fillUnset", !.slot = x] /\ UNCHANGED reply
      BY <1>0, <1>1, <3>2 DEF CallRecords
    <3>3. QED
      BY <1>2, <3>1, <3>2
  <2>6. BlankInv' /\ FilledInv'
    BY <1>0, <2>5, BlankKept DEF DiskInv, FilledInv
  <2>7. QED
    BY <1>0, <1>2, <2>3, <2>4, <2>5, <2>6, OpenGoesOn
<1>3. CASE OpenFails
  <2>1. Settle
    BY <1>3 DEF OpenFails, DropSession, AllDurable, Closed
  <2>2. QED
    BY <1>0, <1>3, <2>1, DropDisk DEF OpenFails
<1>4. QED
  BY <1>2, <1>3 DEF ScanBlock, BAT!ReadEntry

\* The data after sectors of a block whose bits are not set got the background.
FilledWith(x, b, W) ==
    /\ DataElsewhere(x)
    /\ \A i \in BlockSectors :
         data'[x][i] = IF i \in W /\ i \notin bitmap[x] THEN BackgroundOf(b)[i] ELSE data[x][i]

\* What a sector will hold, see ValueAt.
NewValueAt(x, maps, s) ==
    IF x # Unused /\ SectorInBlock(s) \in maps[x] THEN data'[x][SectorInBlock(s)] ELSE Background[s]

\* It shows the background, like the parent before, or what was there.
LEMMA FilledValues ==
    ASSUME Sound, RecentInv, NEW b \in Blocks, NEW x \in Slots, x = BAT!Table[b], NEW W,
           FilledWith(x, b, W), NEW s \in Sectors, NEW c, c = SectorToBlockNumber(s),
           NEW y \in {BAT!Table[c], batOnMedia[c]}
    PROVE  /\ y \in Slots \cup {Unused}
           /\ NewValueAt(y, bitmap, s) = ValueAt(y, bitmap, s)
           /\ NewValueAt(y, bitmap, s) \in recent[s] /\ NewValueAt(y, bitmapOnMedia, s) \in recent[s]
<1>1. c \in Blocks /\ SectorInBlock(s) \in BlockSectors
  BY BlockOfSector, SectorsType, SectorPlace
<1>2. y \in Slots \cup {Unused}
  BY <1>1, TableType DEF Sound
<1>3. ValueAt(y, bitmap, s) \in recent[s] /\ ValueAt(y, bitmapOnMedia, s) \in recent[s]
  BY DEF RecentInv, RecentAt
<1>4. CASE y # x
  BY <1>2, <1>3, <1>4 DEF FilledWith, DataElsewhere, NewValueAt, ValueAt
<1>5. CASE y = x
  <2>1. c = b
    BY <1>1, <1>5, PlaceOfOne
  <2>2. BackgroundOf(b)[SectorInBlock(s)] = Background[s]
    BY <2>1, BackgroundOfSector
  <2>3. SectorInBlock(s) \in bitmap[x] => data'[x][SectorInBlock(s)] = data[x][SectorInBlock(s)]
    BY <1>1 DEF FilledWith
  <2>4. NewValueAt(x, bitmap, s) = ValueAt(x, bitmap, s)
    BY <2>3 DEF NewValueAt, ValueAt
  <2>5. x # Unused
    BY TableType DEF Sound
  <2>6. NewValueAt(x, bitmapOnMedia, s) \in {ValueAt(x, bitmapOnMedia, s), ValueAt(x, bitmap, s)}
    <3>1. data'[x][SectorInBlock(s)] = IF SectorInBlock(s) \in W /\ SectorInBlock(s) \notin bitmap[x]
                                       THEN Background[s] ELSE data[x][SectorInBlock(s)]
      BY <1>1, <2>2 DEF FilledWith
    <3>2. QED
      BY <2>5, <3>1 DEF NewValueAt, ValueAt
  <2>7. QED
    BY <1>2, <1>3, <1>5, <2>4, <2>6
<1>6. QED
  BY <1>4, <1>5

\* Sectors whose bits are not set are filled, or opening fails.
LEMMA FillUnsetDisk ==
    ASSUME Sound, Shape', DiskInv, AllDurable => Settle, ~AllDurable => Grow, FillUnset
    PROVE  DiskInv' /\ Disk!Next
<1>0. call.op = "open" /\ call.pc = "fillUnset" /\ UNCHANGED end
  BY DEF FillUnset, At
<1>1. /\ call \in CallRecords /\ BatInv /\ BitmapsOK /\ DiskOK /\ session.open /\ RecentInv
      /\ call.cur \in Blocks /\ call.slot \in Slots /\ BAT!Table[call.cur] = call.slot
      /\ call.slot # Unused /\ call.slot < end
  BY <1>0, OpenFacts
<1>2. PICK b \in Blocks : b = call.cur
  BY <1>1
<1>3. PICK x \in Slots : x = call.slot
  BY <1>1
<1>4. PICK all : all = (IF Dynamic THEN BlockSectors ELSE InUse(b)) \ bitmap[x]
  OBVIOUS
<1>5. PICK v : v = BackgroundOf(b)
  OBVIOUS
<1>6. PICK W \in SUBSET all :
        /\ data' = DataWith(x, W, v)
        /\ \/ W = all /\ Goto("setUnset") /\ UNCHANGED <<batVars, bitmapVars, session>>
           \/ OpenFails
  BY <1>2, <1>3, <1>4, <1>5 DEF FillUnset, WriteSlot, DataWith
<1>7. FilledWith(x, b, W)
  <2>1. /\ DataElsewhere(x)
        /\ \A i \in BlockSectors : data'[x][i] = IF i \in W THEN v[i] ELSE data[x][i]
    BY <1>1, <1>6, WriteElsewhere
  <2>2. \A i \in W : i \notin bitmap[x]
    BY <1>4, <1>6
  <2>3. QED
    BY <1>5, <2>1, <2>2 DEF FilledWith
<1>8. ASSUME NEW s \in Sectors, NEW y \in {BAT!Table[SectorToBlockNumber(s)], batOnMedia[SectorToBlockNumber(s)]}
      PROVE  /\ y \in Slots \cup {Unused}
             /\ NewValueAt(y, bitmap, s) = ValueAt(y, bitmap, s)
             /\ NewValueAt(y, bitmap, s) \in recent[s] /\ NewValueAt(y, bitmapOnMedia, s) \in recent[s]
  <2>1. x = BAT!Table[b]
    BY <1>1, <1>2, <1>3
  <2>2. QED
    BY <1>1, <1>7, <2>1, FilledValues
<1>9. BlankInv'
  <2>1. DataElsewhere(x) /\ x < end' /\ end' >= end
    BY <1>0, <1>1, <1>3, <1>7, TableType DEF FilledWith, Sound
  <2>2. QED
    BY <2>1, BlankStays DEF Sound, DiskInv
<1>10. CASE W = all /\ Goto("setUnset") /\ UNCHANGED <<batVars, bitmapVars, session>>
  <2>1. Grow
    BY <1>0, <1>1, <1>10 DEF AllDurable
  <2>2. BAT!Table' = BAT!Table /\ batOnMedia' = batOnMedia /\ bitmap' = bitmap
        /\ bitmapOnMedia' = bitmapOnMedia
    BY <1>1, <1>10, TableKept DEF batVars, bitmapVars
  <2>3. ASSUME NEW s \in Sectors
        PROVE  Content'[s] = Content[s] /\ RecentAt(s)'
    <3>1. \A y : /\ ValueAt(y, bitmap, s)' = NewValueAt(y, bitmap, s)
                 /\ ValueAt(y, bitmapOnMedia, s)' = NewValueAt(y, bitmapOnMedia, s)
      BY <2>2 DEF ValueAt, NewValueAt
    <3>2. recent[s] \subseteq recent'[s]
      BY <1>1, <2>1, GrowKeeps
    <3>3. Content'[s] = Content[s]
      BY <1>8, <2>2, <3>1, ContentIs
    <3>4. RecentAt(s)'
      BY <1>8, <2>2, <3>1, <3>2 DEF RecentAt, ValueAt, NewValueAt
    <3>5. QED
      BY <3>3, <3>4
  <2>4. UNCHANGED Content
    <3>1. Content = [s \in Sectors |-> Content[s]] /\ Content' = [s \in Sectors |-> Content'[s]]
      BY DEF Content
    <3>2. QED
      BY <2>3, <3>1
  <2>5. RecentInv'
    BY <1>1, <2>1, <2>3, GrowKeeps DEF RecentInv
  <2>6. /\ call' \in CallRecords /\ call'.op = "open" /\ UNCHANGED reply /\ call'.pc = "setUnset"
        /\ call'.cur = call.cur /\ call'.slot = call.slot
    BY <1>0, <1>1, <1>10 DEF Goto, CallRecords
  <2>7. FilledInv'
    <3>1. ASSUME NEW s \in Sectors, SectorToBlockNumber(s) = b, SectorInBlock(s) \notin bitmap[x]
          PROVE  data'[x][SectorInBlock(s)] = Background[s]
      <4>1. /\ SectorInBlock(s) \in BlockSectors /\ SectorInBlock(s) \in InUse(b)
            /\ BackgroundOf(b)[SectorInBlock(s)] = Background[s]
        BY <3>1, SectorsType, SectorPlace, BackgroundOfSector
      <4>2. SectorInBlock(s) \in W
        BY <1>4, <1>10, <3>1, <4>1
      <4>3. QED
        BY <1>7, <3>1, <4>1, <4>2 DEF FilledWith
    <3>2. QED
      BY <1>2, <1>3, <2>2, <2>6, <3>1 DEF FilledInv
  <2>8. QED
    BY <1>0, <1>9, <1>10, <2>1, <2>4, <2>5, <2>6, <2>7, OpenGoesOn
<1>11. CASE OpenFails
  <2>1. /\ BAT!Table' = batOnMedia' /\ batOnMedia' = batOnMedia /\ session' = Closed
        /\ Return("error") /\ Mapper!LoseBits
    BY <1>11 DEF OpenFails, DropSession, BAT!InvalidateCache, BAT!Table, BAT!StateValid
  <2>2. Settle
    BY <2>1 DEF AllDurable, Closed
  <2>3. /\ bitmap' = bitmapOnMedia'
        /\ \A y \in Slots : bitmap'[y] \in {bitmap[y], bitmapOnMedia[y]}
    BY <2>1 DEF Mapper!LoseBits, Mapper!WriteBack
  <2>4. ASSUME NEW s \in Sectors PROVE Content'[s] \in recent[s]
    <3>1. PICK y : y = batOnMedia[SectorToBlockNumber(s)]
      OBVIOUS
    <3>2. /\ y \in Slots \cup {Unused}
          /\ NewValueAt(y, bitmap, s) \in recent[s] /\ NewValueAt(y, bitmapOnMedia, s) \in recent[s]
      BY <1>8, <3>1
    <3>3. ValueAt(y, bitmap, s)' \in {NewValueAt(y, bitmap, s), NewValueAt(y, bitmapOnMedia, s)}
      BY <2>3, <3>2 DEF ValueAt, NewValueAt
    <3>4. Content'[s] = ValueAt(y, bitmap, s)'
      BY <2>1, <3>1, ContentIs DEF ValueAt
    <3>5. QED
      BY <3>2, <3>3, <3>4
  <2>5. RecentInv' /\ Disk!Next
    BY <1>0, <2>1, <2>2, <2>3, <2>4, SettledDisk, IsLose
  <2>6. DurableInv' /\ CallInv'
    BY <2>1, <2>3, ReturnPc, IdleCall DEF DurableInv
  <2>7. QED
    BY <1>9, <2>5, <2>6 DEF DiskInv, CallInv
<1>12. QED
  BY <1>6, <1>10, <1>11

\* The bits of the filled sectors are set.
LEMMA SetUnsetDisk ==
    ASSUME Sound, Shape', DiskInv, AllDurable => Settle, ~AllDurable => Grow, SetUnset
    PROVE  DiskInv' /\ Disk!Next
<1>0. /\ call.op = "open" /\ call.pc = "setUnset" /\ UNCHANGED <<data, end, session>>
      /\ UNCHANGED batVars /\ ScanNext
  BY DEF SetUnset, At, diskVars
<1>1. /\ call \in CallRecords /\ BatInv /\ BitmapsOK /\ DiskOK /\ session.open /\ RecentInv
      /\ call.cur \in Blocks /\ call.slot \in Slots /\ BAT!Table[call.cur] = call.slot
      /\ call.slot # Unused /\ call.slot < end /\ CallOK
  BY <1>0, OpenFacts DEF Sound, Shape
<1>2. PICK b \in Blocks : b = call.cur
  BY <1>1
<1>3. PICK x \in Slots : x = call.slot
  BY <1>1
<1>4. Grow
  BY <1>0, <1>1 DEF AllDurable
<1>5. BAT!Table' = BAT!Table /\ batOnMedia' = batOnMedia /\ TablesMove
  BY <1>0, <1>1, TableKept, BatMoves DEF batVars
<1>6. Mapper!SetBits(x, BlockSectors) /\ BAT!Table[b] = x
  BY <1>1, <1>2, <1>3 DEF SetUnset
<1>7. BitmapsElsewhere(x) /\ DataElsewhere(x)
  BY <1>0, <1>1, <1>6, MapperElsewhere DEF DataElsewhere
<1>8. /\ bitmap'[x] = BlockSectors /\ bitmapOnMedia'[x] \in {bitmapOnMedia[x], bitmap[x]}
  BY <1>1, <1>6 DEF Mapper!SetBits, Mapper!WriteBack, BitmapsOK, Mapper!Bitmaps
<1>9. \A c \in Blocks : c # b => Undisturbed(c)
  BY <1>5, <1>6, <1>7, OthersUndisturbed
<1>10. ASSUME NEW s \in Sectors, SectorToBlockNumber(s) = b
       PROVE  Content'[s] = Content[s] /\ RecentAt(s)'
  <2>1. SectorInBlock(s) \in BlockSectors
    BY SectorsType, SectorPlace
  <2>2. SectorInBlock(s) \notin bitmap[x] => data[x][SectorInBlock(s)] = Background[s]
    BY <1>0, <1>2, <1>3, <1>10 DEF DiskInv, FilledInv
  <2>3. ValueAt(x, bitmap, s)' = ValueAt(x, bitmap, s)
    BY <1>0, <1>1, <1>3, <1>8, <2>1, <2>2 DEF ValueAt
  <2>4. ValueAt(x, bitmapOnMedia, s)' \in {ValueAt(x, bitmap, s), ValueAt(x, bitmapOnMedia, s)}
    BY <1>0, <1>8 DEF ValueAt
  <2>5. ASSUME NEW y \in Slots \cup {Unused}, y # x
        PROVE  /\ ValueAt(y, bitmap, s)' = ValueAt(y, bitmap, s)
               /\ ValueAt(y, bitmapOnMedia, s)' \in
                    {ValueAt(y, bitmap, s), ValueAt(y, bitmapOnMedia, s)}
    BY <1>7, <2>5 DEF ValueAt, BitmapsElsewhere, DataElsewhere
  <2>6. recent[s] \subseteq recent'[s]
    BY <1>1, <1>4, GrowKeeps
  <2>7. \A y \in {BAT!Table[b], batOnMedia[b]} :
          ValueAt(y, bitmap, s)' \in recent'[s] /\ ValueAt(y, bitmapOnMedia, s)' \in recent'[s]
    <3>1. \A y \in {BAT!Table[b], batOnMedia[b]} :
            /\ y \in Slots \cup {Unused}
            /\ ValueAt(y, bitmap, s) \in recent[s] /\ ValueAt(y, bitmapOnMedia, s) \in recent[s]
      BY <1>1, <1>10, TableType DEF Sound, RecentInv, RecentAt
    <3>2. QED
      BY <2>3, <2>4, <2>5, <2>6, <3>1
  <2>8. RecentAt(s)'
    BY <1>5, <1>10, <2>7 DEF RecentAt, ValueAt
  <2>9. Content'[s] = Content[s]
    BY <1>5, <1>6, <1>10, <2>3, ContentIs
  <2>10. QED
    BY <2>8, <2>9
<1>11. \A s \in Sectors : Content'[s] = Content[s] /\ RecentAt(s)'
  BY <1>1, <1>4, <1>9, <1>10, OtherSectors DEF Sound
<1>12. UNCHANGED Content
  <2>1. Content = [s \in Sectors |-> Content[s]] /\ Content' = [s \in Sectors |-> Content'[s]]
    BY DEF Content
  <2>2. QED
    BY <1>11, <2>1
<1>13. RecentInv'
  BY <1>1, <1>4, <1>11, GrowKeeps DEF RecentInv
<1>14. /\ call' \in CallRecords /\ call'.op = "open" /\ UNCHANGED reply
       /\ call'.pc \in {"scan", "flushBat"}
  BY <1>0, <1>1, ScanNextOK
<1>15. BlankInv' /\ FilledInv'
  BY <1>0, <1>14, BlankKept DEF DiskInv, FilledInv
<1>16. QED
  BY <1>0, <1>4, <1>12, <1>13, <1>14, <1>15, OpenGoesOn

\* Opening succeeds when all is durable, or fails.
LEMMA OpenReturnsDisk ==
    ASSUME Sound, Shape', DiskInv, AllDurable => Settle, OpenReturns
    PROVE  DiskInv' /\ Disk!Next
<1>0. call.op = "open" /\ call.pc = "fsync" /\ UNCHANGED <<data, end>>
  BY DEF OpenReturns, At, diskVars
<1>1. call \in CallRecords /\ BatInv /\ session.open
  BY <1>0, OpenFacts
<1>2. CASE ~call.failed /\ Return("ok") /\ UNCHANGED <<batVars, bitmapVars, session>>
  <2>1. Settle
    BY <1>0, <1>2 DEF AllDurable, Return, Reply
  <2>2. BAT!Table' = BAT!Table /\ batOnMedia' = batOnMedia /\ bitmap' = bitmap
        /\ bitmapOnMedia' = bitmapOnMedia
    BY <1>1, <1>2, TableKept DEF batVars, bitmapVars
  <2>3. BAT!Table = batOnMedia /\ bitmap = bitmapOnMedia
    BY <1>0, <1>2 DEF DiskInv, DurableInv
  <2>4. UNCHANGED Content
    BY <1>0, <2>2 DEF Content
  <2>5. RecentInv' /\ Disk!Next
    BY <1>0, <1>2, <2>1, <2>2, <2>3, <2>4, SettledDisk, IsSync
  <2>6. DurableInv' /\ BlankInv' /\ CallInv'
    BY <1>0, <1>1, <1>2, ReturnPc, NotFlushed, BlankKept, IdleCall DEF DiskInv
  <2>7. QED
    BY <2>5, <2>6 DEF DiskInv, CallInv
<1>3. CASE Mapper!LoseBits /\ DropSession(IF Dynamic /\ call.failed THEN "lost" ELSE "error")
  <2>1. PICK kind : kind = IF Dynamic /\ call.failed THEN "lost" ELSE "error"
    OBVIOUS
  <2>2. Settle
    BY <1>3 DEF DropSession, AllDurable, Closed
  <2>3. QED
    BY <1>0, <1>3, <2>1, <2>2, DropDisk
<1>4. QED
  BY <1>2, <1>3 DEF OpenReturns

-----------------------------------------------------------------------------
(***************************************************************************)
(* Discarding                                                              *)
(***************************************************************************)

\* What a bitmap looks like when bits of it were reset.
LEMMA BitsReset ==
    ASSUME BitmapsOK, NEW x \in Slots, NEW S \in SUBSET BlockSectors, Mapper!ResetBits(x, S)
    PROVE  /\ bitmap'[x] \subseteq bitmap[x]
           /\ bitmapOnMedia'[x] \in {bitmapOnMedia[x], bitmap[x]}
           /\ (\E i, j \in S : i # j) => \A i \in S : i \notin bitmap'[x]
<1>1. bitmapOnMedia'[x] \in {bitmapOnMedia[x], bitmap[x]}
  BY DEF Mapper!ResetBits, Mapper!WriteBack
<1>2. \/ bitmap'[x] = bitmap[x] \ S
      \/ bitmap'[x] = {}
      \/ (\E i \in S : S = {i}) /\ bitmap'[x] = bitmap[x]
  BY DEF Mapper!ResetBits, BitmapsOK, Mapper!Bitmaps
<1>3. QED
  BY <1>1, <1>2

\* A step of a discard: the sectors of its block keep their content or get the
\* background back, and the latter if more than one of them is discarded.
LEMMA ResetDisk ==
    ASSUME Sound, DiskInv, Grow, call.op = "discard", ResetBits
    PROVE  /\ \A s \in Sectors :
                \/ Content'[s] = Content[s]
                \/ SectorToBlockNumber(s) = CurrBlock /\ Content'[s] = Background[s]
           /\ \A s, t \in CurrRange : s # t => Content'[s] = Background[s]
           /\ RecentInv'
<1>1. BatInv /\ BitmapsOK /\ RecentInv /\ RangeInv /\ UNCHANGED data
  BY DEF Sound, Shape, DiskInv, ResetBits, diskVars
<1>2. CurrBlock \in Blocks /\ CurrSectors \subseteq BlockSectors /\ CurrRange \subseteq Sectors
  BY <1>1, RangeCall
<1>3. BAT!Table' = BAT!Table /\ TablesMove /\ batOnMedia' = batOnMedia
  BY <1>1, TableKept, BatMoves DEF ResetBits, BAT!ReadEntry, BAT!ReadBAT
<1>4. \A s \in CurrRange : SectorToBlockNumber(s) = CurrBlock /\ SectorInBlock(s) \in CurrSectors
  BY <1>1, <1>2, RangeCall
<1>5. CASE BAT!Table[CurrBlock] = Unused /\ UNCHANGED bitmapVars
  <2>1. \A b \in Blocks : Undisturbed(b)
    BY <1>1, <1>3, <1>5, QuietUndisturbed DEF Sound
  <2>2. UNCHANGED Content /\ RecentInv'
    BY <1>1, <2>1, UndisturbedDisk DEF Sound
  <2>3. \A s \in CurrRange : Content[s] = Background[s]
    BY <1>2, <1>4, <1>5, ContentIs DEF ValueAt
  <2>4. QED
    BY <1>2, <2>2, <2>3
<1>6. CASE \E x \in Slots : x = BAT!Table[CurrBlock] /\ Mapper!ResetBits(x, CurrSectors)
  <2>1. PICK x \in Slots : x = BAT!Table[CurrBlock] /\ Mapper!ResetBits(x, CurrSectors)
    BY <1>6
  <2>2. BitmapsElsewhere(x) /\ DataElsewhere(x) /\ x # Unused
    BY <1>1, <2>1, MapperElsewhere, TableType DEF DataElsewhere, Sound
  <2>3. \A c \in Blocks : c # CurrBlock => Undisturbed(c)
    BY <1>2, <1>3, <2>1, <2>2, OthersUndisturbed
  <2>4. /\ bitmap'[x] \subseteq bitmap[x]
        /\ bitmapOnMedia'[x] \in {bitmapOnMedia[x], bitmap[x]}
        /\ (\E i, j \in CurrSectors : i # j) => \A i \in CurrSectors : i \notin bitmap'[x]
    BY <1>1, <1>2, <2>1, BitsReset
  <2>5. ASSUME NEW s \in Sectors, SectorToBlockNumber(s) = CurrBlock
        PROVE  /\ Content'[s] \in {Content[s], Background[s]}
               /\ SectorInBlock(s) \notin bitmap'[x] => Content'[s] = Background[s]
               /\ RecentAt(s)'
    <3>1. Content[s] = ValueAt(x, bitmap, s) /\ Content'[s] = ValueAt(x, bitmap, s)'
      BY <1>3, <2>1, <2>5, ContentIs DEF ValueAt
    <3>2. /\ Content'[s] \in {Content[s], Background[s]}
          /\ SectorInBlock(s) \notin bitmap'[x] => Content'[s] = Background[s]
      BY <1>1, <2>4, <3>1 DEF ValueAt
    <3>3. recent[s] \subseteq recent'[s] /\ Content'[s] \in recent'[s]
      BY <1>1, GrowKeeps
    <3>4. ValueAt(x, bitmapOnMedia, s)' \in {ValueAt(x, bitmap, s), ValueAt(x, bitmapOnMedia, s)}
      BY <1>1, <2>4 DEF ValueAt
    <3>5. ASSUME NEW y \in Slots \cup {Unused}, y # x
          PROVE  /\ ValueAt(y, bitmap, s)' = ValueAt(y, bitmap, s)
                 /\ ValueAt(y, bitmapOnMedia, s)' \in
                      {ValueAt(y, bitmap, s), ValueAt(y, bitmapOnMedia, s)}
      BY <2>2, <3>5 DEF ValueAt, BitmapsElsewhere, DataElsewhere
    <3>6. \A y \in {BAT!Table[CurrBlock], batOnMedia[CurrBlock]} :
            ValueAt(y, bitmap, s)' \in recent'[s] /\ ValueAt(y, bitmapOnMedia, s)' \in recent'[s]
      <4>1. \A y \in {BAT!Table[CurrBlock], batOnMedia[CurrBlock]} :
              /\ y \in Slots \cup {Unused}
              /\ ValueAt(y, bitmap, s) \in recent[s] /\ ValueAt(y, bitmapOnMedia, s) \in recent[s]
        BY <1>1, <1>2, <2>5, TableType DEF Sound, RecentInv, RecentAt
      <4>2. QED
        BY <3>1, <3>3, <3>4, <3>5, <4>1
    <3>7. RecentAt(s)'
      BY <1>3, <2>5, <3>6 DEF RecentAt, ValueAt
    <3>8. QED
      BY <3>2, <3>7
  <2>6. \A s \in Sectors :
          /\ \/ Content'[s] = Content[s]
             \/ SectorToBlockNumber(s) = CurrBlock /\ Content'[s] = Background[s]
          /\ RecentAt(s)'
    BY <1>1, <2>3, <2>5, OtherSectors DEF Sound
  <2>7. ASSUME NEW s \in CurrRange, NEW t \in CurrRange, s # t
        PROVE  Content'[s] = Background[s]
    <3>1. SectorInBlock(s) # SectorInBlock(t)
      <4>1. s \in Nat /\ t \in Nat
        BY <1>2, SectorsType
      <4>2. QED
        BY <1>4, <2>7, <4>1, SectorPlace
    <3>2. SectorInBlock(s) \notin bitmap'[x]
      BY <1>4, <2>4, <3>1
    <3>3. QED
      BY <1>2, <1>4, <2>5, <3>2
  <2>8. RecentInv'
    BY <1>1, <2>6, GrowKeeps DEF RecentInv
  <2>9. QED
    BY <2>6, <2>7, <2>8
<1>7. QED
  BY <1>5, <1>6 DEF ResetBits, BAT!ReadEntry

\* The discard goes on with the next block, or returns.
LEMMA ResetBitsDisk ==
    ASSUME Sound, Shape', DiskInv, Grow, ResetBits
    PROVE  DiskInv' /\ Disk!Next
<1>0. call.op = "discard" /\ call.pc = "resetBits" /\ UNCHANGED <<session, data, end>>
  BY DEF ResetBits, At, diskVars
<1>1. call \in CallRecords /\ session.open /\ RangeInv /\ DiscardedInv
  BY <1>0, NoCallOK DEF Sound, Shape, CallOK, SessionOK, DiskInv
<1>2. /\ \A s \in Sectors :
           \/ Content'[s] = Content[s]
           \/ SectorToBlockNumber(s) = CurrBlock /\ Content'[s] = Background[s]
      /\ \A s, t \in CurrRange : s # t => Content'[s] = Background[s]
      /\ RecentInv'
  BY <1>0, ResetDisk
<1>3. BlankInv'
  BY <1>0, BlankKept DEF DiskInv
<1>4. /\ CurrRange \subseteq call.first .. call.last /\ call.first .. call.last \subseteq Sectors
      /\ call.cur \in CurrRange
  BY <1>0, <1>1, RangeCall
<1>5. ASSUME NEW s \in call.first .. call.last, NEW t \in call.first .. call.last,
             s # t, SectorToBlockNumber(s) = SectorToBlockNumber(t),
             s < call.cur \/ s \in CurrRange
      PROVE  Content'[s] = Background[s]
  <2>1. CASE s < call.cur
    <3>1. Content[s] = Background[s]
      BY <1>0, <1>1, <1>5, <2>1 DEF DiscardedInv
    <3>2. QED
      BY <1>2, <1>4, <3>1
  <2>2. CASE s \in CurrRange
    <3>1. SectorToBlockNumber(t) = CurrBlock
      BY <1>5, <2>2 DEF CurrRange
    <3>2. ~(t < call.cur)
      BY <1>0, <1>1, <3>1, DoneElsewhere
    <3>3. t \in CurrRange
      <4>1. t \in Nat /\ call.cur \in Nat /\ call.last \in Nat /\ t <= call.last
        BY <1>1, <1>4, SectorsType DEF CallRecords
      <4>2. QED
        BY <3>1, <3>2, <4>1 DEF CurrRange
    <3>4. QED
      BY <1>2, <1>5, <2>2, <3>3
  <2>3. QED
    BY <1>5, <2>1, <2>2
<1>6. \A s \in Sectors :
        \/ Content'[s] = Content[s]
        \/ /\ Content'[s] = Background[s]
           /\ \E t \in call.first .. call.last : SectorToBlockNumber(s) = SectorToBlockNumber(t)
  BY <1>2, <1>4 DEF CurrBlock
<1>7. CASE LastBlock /\ Return("ok")
  <2>1. \A s, t \in call.first .. call.last :
          s # t /\ SectorToBlockNumber(s) = SectorToBlockNumber(t) => Content'[s] = Background[s]
    BY <1>0, <1>1, <1>5, <1>7, RangeEnds
  <2>2. Disk!Next
    BY <1>0, <1>6, <1>7, <2>1, IsDiscard
  <2>3. DurableInv' /\ CallInv'
    BY <1>0, <1>1, <1>7, ReturnPc, NotFlushed, IdleCall
  <2>4. QED
    BY <1>2, <1>3, <2>2, <2>3 DEF DiskInv, CallInv
<1>8. CASE ~LastBlock /\ NextBlock("resetBits")
  <2>1. /\ Continues /\ call'.cur = (CurrBlock + 1) * SectorsPerBlock /\ call'.pc = "resetBits"
    BY <1>1, <1>8 DEF NextBlock, Continues, CallRecords
  <2>2. /\ call'.op = call.op /\ call'.first = call.first /\ call'.last = call.last
        /\ Disk!Continue
    BY <1>1, <2>1, ContinuesCall
  <2>3. /\ RangeInv'
        /\ \A s \in call.first .. call.last : s < call'.cur => s < call.cur \/ s \in CurrRange
    BY <1>0, <1>1, <1>8, <2>1, RangeNext
  <2>4. Disk!Next
    BY <1>0, <1>6, <2>2, IsDiscard
  <2>5. DurableInv'
    BY <1>0, <1>1, <2>1, NotFlushed
  <2>6. DiscardedInv'
    <3>1. \A s, t \in call'.first .. call'.last :
            s < call'.cur /\ s # t /\ SectorToBlockNumber(s) = SectorToBlockNumber(t) =>
              Content'[s] = Background[s]
      BY <1>5, <2>2, <2>3
    <3>2. QED
      BY <2>1, <3>1 DEF DiscardedInv
  <2>7. QED
    BY <1>0, <1>2, <1>3, <2>2, <2>3, <2>4, <2>5, <2>6
       DEF DiskInv, WriteInv, ValueInv, FilledInv, OtherInv
<1>9. QED
  BY <1>7, <1>8 DEF ResetBits

-----------------------------------------------------------------------------
(***************************************************************************)
(* What the clients do between calls                                       *)
(***************************************************************************)

\* Between calls, a step that changes no bitmap and no table changes nothing.
LEMMA IdleDisk ==
    ASSUME Sound, Shape', DiskInv, Grow, call = NoCall, call' = NoCall, session'.open,
           UNCHANGED <<data, end>>, BAT!Table' = BAT!Table, TablesMove,
           UNCHANGED bitmapVars \/ Mapper!KeepBits
    PROVE  /\ DiskInv' /\ UNCHANGED <<Content, recent>>
           /\ ClientCall = Disk!NoCall /\ ClientCall' = Disk!NoCall
<1>1. \A b \in Blocks : Undisturbed(b)
  BY QuietUndisturbed DEF Sound
<1>2. UNCHANGED Content /\ RecentInv'
  BY <1>1, UndisturbedDisk DEF Sound, DiskInv
<1>3. call'.op = "none" /\ call'.pc = "none"
  BY NoCallOK
<1>4. UNCHANGED recent
  BY <1>2, <1>3, GrowKeeps DEF DiskInv
<1>5. DurableInv' /\ BlankInv' /\ CallInv'
  BY <1>3, NotFlushed, BlankKept, IdleCall DEF DiskInv
<1>6. ClientCall = Disk!NoCall /\ ClientCall' = Disk!NoCall
  BY DEF NoCall, ClientCall, Disk!NoCall
<1>7. QED
  BY <1>2, <1>4, <1>5, <1>6 DEF DiskInv, CallInv

\* A call begins.
LEMMA BeginDisk ==
    ASSUME Sound, Shape', DiskInv, Grow, call = NoCall, session'.open,
           UNCHANGED <<batVars, bitmapVars, diskVars>>,
           NEW op, NEW pc, NEW r \in Sectors \X Sectors, r[1] <= r[2], NEW v, Begin(op, pc, r, v),
           \/ op = "write" /\ pc = "readEntry" /\ r \in Ranges /\ v \in Written /\ ~ReadOnly'
           \/ op = "discard" /\ pc = "resetBits" /\ r \in Ranges
           \/ op = "open" /\ pc = "scan"
           \/ op \in {"flush", "close"} /\ pc = "flushBat"
    PROVE  DiskInv' /\ Disk!Next
<1>0. BatInv /\ UNCHANGED bitmapVars /\ UNCHANGED batVars /\ UNCHANGED <<data, end>>
  BY DEF Sound, Shape, diskVars
<1>1. /\ call'.op = op /\ call'.pc = pc /\ call'.first = r[1] /\ call'.cur = r[1]
      /\ call'.last = r[2] /\ call'.val = v /\ call'.fresh = FALSE
      /\ reply' = Reply("none", <<>>)
  BY DEF Begin, NoCall
<1>2. BAT!Table' = BAT!Table /\ TablesMove
  BY <1>0, TableKept, BatMoves
<1>3. \A b \in Blocks : Undisturbed(b)
  BY <1>0, <1>2, QuietUndisturbed DEF Sound
<1>4. UNCHANGED Content /\ RecentInv' /\ RecentInv
  BY <1>3, UndisturbedDisk DEF Sound, DiskInv
<1>5. BlankInv' /\ DurableInv'
  BY <1>0, <1>1, BlankKept, NotFlushed DEF DiskInv
<1>6. r[1] \in Sectors /\ r[2] \in Sectors /\ r[1] \in Nat /\ r[2] \in Nat
  BY SectorsType
<1>7. RangeInv'
  <2>1. \A s \in r[1] .. r[2] : ~(s < r[1])
    BY <1>6
  <2>2. QED
    BY <1>1, <1>6, <2>1 DEF RangeInv
<1>8. ClientCall' \in ClientCalls
  <2>1. ClientCall' = [op |-> op,
                       range |-> IF op \in {"write", "discard"} THEN r[1] .. r[2] ELSE {},
                       val |-> IF op = "write" THEN v ELSE "none"]
    BY <1>1 DEF ClientCall
  <2> DEFINE ranges == {q[1] .. q[2] : q \in Ranges}
  <2>2. r \in Ranges => r[1] .. r[2] \in ranges
    OBVIOUS
  <2> HIDE DEF ranges
  <2>3. CASE op = "write"
    <3>1. ClientCall' = [op |-> "write", range |-> r[1] .. r[2], val |-> v]
      BY <2>1, <2>3
    <3>2. ClientCall' \in [op : {"write"}, range : ranges, val : Written]
      BY <2>2, <2>3, <3>1
    <3>3. QED
      BY <3>2 DEF ClientCalls, ranges
  <2>4. CASE op = "discard"
    <3>1. ClientCall' = [op |-> "discard", range |-> r[1] .. r[2], val |-> "none"]
      BY <2>1, <2>4
    <3>2. ClientCall' \in [op : {"discard"}, range : ranges, val : {"none"}]
      BY <2>2, <2>4, <3>1
    <3>3. QED
      BY <3>2 DEF ClientCalls, ranges
  <2>5. CASE op \in {"open", "flush", "close"}
    <3>1. ClientCall' = [op |-> op, range |-> {}, val |-> "none"]
      BY <2>1, <2>5
    <3>2. ClientCall' \in [op : {"open", "flush", "close"}, range : {{}}, val : {"none"}]
      BY <2>5, <3>1
    <3>3. QED
      BY <3>2 DEF ClientCalls
  <2>6. QED
    BY <2>3, <2>4, <2>5
<1>9. Disk!Next
  <2>1. ClientCall = Disk!NoCall
    BY NoClientCall
  <2>2. reply' = Disk!Reply("none", <<>>)
    BY <1>1 DEF Reply, Disk!Reply
  <2>3. Disk!Begin
    BY <1>4, <1>8, <2>1, <2>2, GrowRemembers DEF Disk!Begin
  <2>4. QED
    BY <2>3 DEF Disk!Next
<1>10. CASE op = "write"
  <2>1. \A s \in r[1] .. r[2] : ~(s < r[1])
    BY <1>6
  <2>2. ~Flushing'
    BY <1>1, <1>10 DEF Flushing
  <2>3. WriteInv'
    BY <1>1, <1>10, <2>1, <2>2 DEF WriteInv
  <2>4. QED
    BY <1>1, <1>4, <1>5, <1>7, <1>9, <1>10, <2>3, WriteGoesOn
<1>11. CASE op # "write"
  <2>1. \A s \in r[1] .. r[2] : ~(s < r[1])
    BY <1>6
  <2>2. WriteInv' /\ ValueInv'
    BY <1>1, <1>11 DEF WriteInv, ValueInv
  <2>3. DiscardedInv'
    BY <1>1, <1>11, <2>1 DEF DiscardedInv
  <2>4. FilledInv' /\ OtherInv'
    BY <1>1, <1>11 DEF FilledInv, OtherInv, Flushing
  <2>5. QED
    BY <1>4, <1>5, <1>7, <1>9, <2>2, <2>3, <2>4 DEF DiskInv
<1>12. QED
  BY <1>10, <1>11

\* PURE "has no effect on files opened Read-Only" (libvhd2.h): with these two flags the
\* code does not do as it says, and is asked nothing here.
PureWrites == \A m \in Modes : "PURE" \in m => "RDWR" \in m

\* The extent of s begins where the request does, if the request meets no other.
LEMMA NothingBefore ==
    ASSUME NEW r \in Ranges, NEW s \in r[1] .. r[2], Uniform(r[1] .. r[2], s)
    PROVE  Before(r, s) = {}
<1>0. r[1] \in Nat /\ r[2] \in Nat /\ s \in Nat
  BY RangeType
<1>1. ASSUME NEW t \in PartOf(r, s), t < s, NEW u \in t .. s
      PROVE  FromFile(u) = FromFile(s)
  <2>1. t \in r[1] .. r[2] /\ SectorToBlockNumber(t) = SectorToBlockNumber(s)
    BY DEF PartOf
  <2>2. u \in r[1] .. r[2] /\ t \in Nat /\ u \in Nat /\ t <= u /\ u <= s
    BY <1>0, <2>1
  <2>3. /\ SectorToBlockNumber(t) <= SectorToBlockNumber(u)
        /\ SectorToBlockNumber(u) <= SectorToBlockNumber(s)
        /\ SectorToBlockNumber(u) \in Nat /\ SectorToBlockNumber(s) \in Nat
    BY <1>0, <2>2, BlocksInOrder, SectorPlace
  <2>4. SectorToBlockNumber(u) = SectorToBlockNumber(s)
    BY <2>1, <2>3
  <2>5. QED
    BY <2>2, <2>4 DEF Uniform
<1>2. QED
  BY <1>1 DEF Before

\* What is read is the content, also where a pure session ignores the bitmaps, unless
\* the request meets sectors of a differencing VHD's block that are in the file and
\* sectors that are not.
LEMMA ReadIsContent ==
    ASSUME PureWrites, Shape, PureInv, session.open, call.op # "open",
           NEW r \in Ranges, NEW s \in r[1] .. r[2], Dynamic \/ Uniform(r[1] .. r[2], s)
    PROVE  ReadValue(r, s) = Content[s]
<1> DEFINE x == BAT!Table[SectorToBlockNumber(s)]
<1>0. s \in Sectors /\ s \in Nat
  BY RangeType, SizeType DEF Sectors
<1>1. SectorToBlockNumber(s) \in Blocks /\ SectorInBlock(s) \in BlockSectors
  BY <1>0, BlockOfSector, SectorPlace
<1>2. BlockPureMode => ~ReadOnly
  BY DEF PureWrites, Shape, SessionOK, BlockPureMode, ReadOnly
<1>3. BlockPureMode /\ x # Unused => bitmap[x] = BlockSectors
  BY <1>1, <1>2 DEF PureInv, PureBitmapsFull
<1>4. FromFile(s) <=> x # Unused /\ SectorInBlock(s) \in bitmap[x]
  BY <1>1, <1>3 DEF FromFile
<1>5. Content[s] = IF FromFile(s) THEN data[x][SectorInBlock(s)] ELSE Background[s]
  BY <1>0, <1>4, ContentIs DEF ValueAt
<1>6. CASE Dynamic
  BY <1>0, <1>5, <1>6 DEF ReadValue, Background
<1>7. CASE ~Dynamic
  <2>1. Cardinality(Before(r, s)) = 0
    BY <1>7, NothingBefore, FS_EmptySet
  <2>2. s - Cardinality(Before(r, s)) = s
    BY <1>0, <2>1
  <2>3. QED
    BY <1>0, <1>5, <1>7, <2>2 DEF ReadValue, Background
<1>8. QED
  BY <1>6, <1>7

\* A sector whose error is missed is read together with one of the other kind.
LEMMA MissedNotUniform ==
    ASSUME NEW r \in Ranges, NEW F \in ErrorsMissed(r), NEW s \in F
    PROVE  s \in r[1] .. r[2] /\ ~Uniform(r[1] .. r[2], s)
  BY DEF ErrorsMissed, PartOf, Uniform

\* A sector that is alone in its block is read with no other.
LEMMA AloneUniform ==
    ASSUME NEW R \in SUBSET Nat, NEW s \in R, Disk!Alone(R, s)
    PROVE  Uniform(R, s)
  BY DEF Disk!Alone, Disk!SameBlock, Uniform, SectorToBlockNumber

\* What a read that succeeds returns, as far as it does not depend on the failures
\* and places that a block read extent by extent loses.
LEMMA ReadReturns ==
    ASSUME "batRead" \notin Faults, PureWrites, Shape, PureInv, NEW r \in Ranges,
           ReadSectors(r) \/ ReadSectorsMissesError(r)
    PROVE  /\ reply' = Reply("ok", reply'.vals) /\ DOMAIN reply'.vals = r[1] .. r[2]
           /\ \A s \in r[1] .. r[2] :
                Dynamic \/ Uniform(r[1] .. r[2], s) => reply'.vals[s] = Content[s]
<1>1. session.open /\ call.op # "open"
  BY NoCallOK DEF ReadSectors, ReadSectorsMissesError, Ready
<1>2. \A s \in r[1] .. r[2] : Dynamic \/ Uniform(r[1] .. r[2], s) => ReadValue(r, s) = Content[s]
  BY <1>1, ReadIsContent
<1>3. CASE ReadSectors(r)
  <2>1. reply' = Reply("ok", [s \in r[1] .. r[2] |-> ReadValue(r, s)])
    BY <1>3 DEF ReadSectors
  <2>2. reply'.vals = [s \in r[1] .. r[2] |-> ReadValue(r, s)]
    BY <2>1 DEF Reply
  <2>3. QED
    BY <1>2, <2>1, <2>2
<1>4. CASE ReadSectorsMissesError(r)
  <2>1. PICK F \in SUBSET (r[1] .. r[2]) :
          /\ ~Dynamic /\ F \in ErrorsMissed(r)
          /\ reply' = Reply("ok", [s \in r[1] .. r[2] |-> IF s \in F THEN Garbage ELSE ReadValue(r, s)])
    BY <1>4 DEF ReadSectorsMissesError, CanFail
  <2>2. reply'.vals = [s \in r[1] .. r[2] |-> IF s \in F THEN Garbage ELSE ReadValue(r, s)]
    BY <2>1 DEF Reply
  <2>3. \A s \in r[1] .. r[2] : Uniform(r[1] .. r[2], s) => s \notin F
    BY <2>1, MissedNotUniform
  <2>4. QED
    BY <1>2, <2>1, <2>2, <2>3
<1>5. QED
  BY <1>3, <1>4

\* A read returns the content.
LEMMA ReadSectorsDisk ==
    ASSUME "batRead" \notin Faults, PureWrites, Sound, Shape', DiskInv, Grow, NEW r \in Ranges,
           ReadSectors(r) \/ ReadSectorsMissesError(r)
    PROVE  DiskInv' /\ Disk!Next
<1>0. /\ call = NoCall /\ session.open /\ UNCHANGED session /\ call' = NoCall /\ UNCHANGED <<data, end>>
      /\ BatInv /\ call.op = "none"
  BY NoCallOK, ReadMoves DEF ReadSectors, ReadSectorsMissesError, Ready, diskVars, Sound, Shape
<1>1. BAT!Table' = BAT!Table /\ TablesMove
  BY <1>0, ReadMoves, TableKept, BatMoves
<1>2. UNCHANGED bitmapVars \/ Mapper!KeepBits
  BY ReadMoves
<1>3. /\ DiskInv' /\ UNCHANGED <<Content, recent>>
      /\ ClientCall = Disk!NoCall /\ ClientCall' = Disk!NoCall
  BY <1>0, <1>1, <1>2, IdleDisk
<1>4. /\ r[1] \in Sectors /\ r[2] \in Sectors /\ r[1] .. r[2] \subseteq Sectors
      /\ r[1] .. r[2] \subseteq Nat
  BY RangeType, SizeType DEF Sectors
<1>5. /\ reply' = Reply("ok", reply'.vals) /\ DOMAIN reply'.vals = r[1] .. r[2]
      /\ \A s \in r[1] .. r[2] :
           Dynamic \/ Uniform(r[1] .. r[2], s) => reply'.vals[s] = Content[s]
  BY ReadReturns DEF Sound
<1>6. \A s \in r[1] .. r[2] :
        (~Dynamic => Disk!Alone(r[1] .. r[2], s)) => reply'.vals[s] = Content[s]
  BY <1>4, <1>5, AloneUniform
<1>7. reply' = Disk!Reply("ok", reply'.vals)
  BY <1>5 DEF Reply, Disk!Reply
<1>8. Disk!Read(r[1] .. r[2])
  BY <1>3, <1>5, <1>6, <1>7 DEF Disk!Read
<1>9. QED
  BY <1>3, <1>4, <1>8 DEF Disk!Next, Disk!Sectors, Sectors

\* A read fails, a call is refused, or the caches are dropped.
LEMMA NoCallDisk ==
    ASSUME Sound, Shape', DiskInv, Grow, call = NoCall, call' = NoCall, session.open,
           UNCHANGED <<session, data, end>>, BAT!Table' = BAT!Table, TablesMove,
           UNCHANGED bitmapVars \/ Mapper!KeepBits,
           NEW kind \in {"ok", "error"}, reply' = Reply(kind, <<>>)
    PROVE  DiskInv' /\ Disk!Next
<1>1. /\ DiskInv' /\ UNCHANGED <<Content, recent>>
      /\ ClientCall = Disk!NoCall /\ ClientCall' = Disk!NoCall
  BY IdleDisk
<1>2. Disk!Refuse \/ Disk!Drop
  BY <1>1 DEF Disk!Refuse, Disk!Drop, Reply, Disk!Reply
<1>3. QED
  BY <1>1, <1>2 DEF Disk!Next

\* A file is opened: nothing changes until the first call.
LEMMA OpenDisk ==
    ASSUME Sound, Shape', DiskInv, Grow, NEW flags \in Modes, Open(flags)
    PROVE  DiskInv' /\ Disk!Next
<1>0. /\ ~session.open /\ session' = [open |-> TRUE, flags |-> flags] /\ session'.open
      /\ UNCHANGED <<batVars, bitmapVars, diskVars>> /\ BatInv /\ UNCHANGED batVars
      /\ UNCHANGED bitmapVars /\ UNCHANGED <<data, end>>
  BY DEF Open, Sound, Shape, diskVars
<1>1. call = NoCall
  BY <1>0 DEF Sound, Shape, SessionOK
<1>2. CASE Begin("open", "scan", <<0, 0>>, Zero)
  <2>1. <<0, 0>> \in Sectors \X Sectors
    BY SizeAssumption DEF Sectors
  <2>2. QED
    BY <1>0, <1>1, <1>2, <2>1, BeginDisk
<1>3. CASE reply' = Reply("ok", <<>>) /\ UNCHANGED call
  <2>1. BAT!Table' = BAT!Table /\ TablesMove
    BY <1>0, TableKept, BatMoves
  <2>2. /\ DiskInv' /\ UNCHANGED <<Content, recent>>
        /\ ClientCall = Disk!NoCall /\ ClientCall' = Disk!NoCall
    BY <1>0, <1>1, <1>3, <2>1, IdleDisk
  <2>3. Disk!Drop
    BY <1>3, <2>2 DEF Disk!Drop, Reply, Disk!Reply
  <2>4. QED
    BY <2>2, <2>3 DEF Disk!Next
<1>4. QED
  BY <1>2, <1>3 DEF Open

\* Whatever the clients do.
LEMMA ClientDisk ==
    ASSUME "batRead" \notin Faults, PureWrites, Sound, Shape', DiskInv, Grow, Client,
           end # Bogus
    PROVE  DiskInv' /\ Disk!Next
<1>0. call = NoCall /\ BatInv
  BY ClientBegins DEF Sound, Shape
<1>1. ASSUME UNCHANGED <<batVars, bitmapVars, diskVars, session>>, session.open, Refuse
      PROVE  DiskInv' /\ Disk!Next
  <2>1. UNCHANGED batVars /\ UNCHANGED bitmapVars /\ call' = NoCall /\ reply' = Reply("error", <<>>)
        /\ UNCHANGED session
    BY <1>0, <1>1 DEF Refuse
  <2>2. BAT!Table' = BAT!Table /\ TablesMove /\ UNCHANGED <<data, end>>
    BY <1>0, <1>1, <2>1, TableKept, BatMoves DEF diskVars
  <2>3. QED
    BY <1>0, <1>1, <2>1, <2>2, NoCallDisk
<1>2. <<0, 0>> \in Sectors \X Sectors
  BY SizeAssumption DEF Sectors
<1>3. ASSUME NEW flags \in Modes, Open(flags) PROVE DiskInv' /\ Disk!Next
  BY <1>3, OpenDisk
<1>4. ASSUME NEW r \in Ranges, ReadSectors(r) \/ ReadSectorsMissesError(r)
      PROVE  DiskInv' /\ Disk!Next
  BY <1>4, ReadSectorsDisk
<1>5. ~OpenRefused
  BY DEF OpenRefused
<1>6. ASSUME NEW r \in Ranges, NEW v \in Written, WriteSectors(r, v) PROVE DiskInv' /\ Disk!Next
  <2>1. UNCHANGED <<batVars, bitmapVars, diskVars, session>> /\ session.open
    BY <1>6 DEF WriteSectors, Ready
  <2>2. CASE ReadOnly /\ Refuse
    BY <1>1, <2>1, <2>2
  <2>3. CASE ~ReadOnly /\ Begin("write", "readEntry", r, v)
    <3>1. session'.open /\ ~ReadOnly'
      BY <2>1, <2>3 DEF ReadOnly
    <3>2. r \in Sectors \X Sectors /\ r[1] <= r[2]
      BY RangeType
    <3>3. QED
      BY <1>0, <2>1, <2>3, <3>1, <3>2, BeginDisk
  <2>4. QED
    BY <1>6, <2>2, <2>3 DEF WriteSectors
<1>7. ASSUME NEW r \in Ranges, DiscardSectors(r) PROVE DiskInv' /\ Disk!Next
  <2>1. UNCHANGED <<batVars, bitmapVars, diskVars, session>> /\ session.open
    BY <1>7 DEF DiscardSectors, Ready
  <2>2. CASE Refuse
    BY <1>1, <2>1, <2>2
  <2>3. CASE Begin("discard", "resetBits", r, Zero)
    <3>1. session'.open
      BY <2>1
    <3>2. r \in Sectors \X Sectors /\ r[1] <= r[2]
      BY RangeType
    <3>3. QED
      BY <1>0, <2>1, <2>3, <3>1, <3>2, BeginDisk
  <2>4. QED
    BY <1>7, <2>2, <2>3 DEF DiscardSectors
<1>8. ASSUME ReadSectorsFails PROVE DiskInv' /\ Disk!Next
  <2>1. /\ session.open /\ UNCHANGED session /\ call' = NoCall /\ reply' = Reply("error", <<>>)
        /\ UNCHANGED <<data, end>>
    BY <1>0, <1>8 DEF ReadSectorsFails, Ready, Refuse, diskVars
  <2>2. BAT!Table' = BAT!Table /\ TablesMove
    BY <1>0, <1>8, ReadMoves, TableKept, BatMoves
  <2>3. UNCHANGED bitmapVars \/ Mapper!KeepBits
    BY <1>8, ReadMoves
  <2>4. QED
    BY <1>0, <2>1, <2>2, <2>3, NoCallDisk
<1>9. ASSUME InvalidateCaches PROVE DiskInv' /\ Disk!Next
  <2>1. session.open /\ UNCHANGED session /\ call' = NoCall /\ reply' = Reply("ok", <<>>)
        /\ UNCHANGED bitmapVars /\ UNCHANGED <<data, end>>
    BY <1>0, <1>9 DEF InvalidateCaches, Ready, diskVars
  <2>2. BAT!Table' = BAT!Table /\ TablesMove
    BY <1>0, <1>9, TableKept, BatMoves DEF InvalidateCaches
  <2>3. QED
    BY <1>0, <2>1, <2>2, NoCallDisk
<1>10. ASSUME Flush \/ Close PROVE DiskInv' /\ Disk!Next
  <2>1. /\ UNCHANGED <<batVars, bitmapVars, diskVars, session>> /\ session'.open
        /\ Begin("flush", "flushBat", <<0, 0>>, Zero) \/ Begin("close", "flushBat", <<0, 0>>, Zero)
    BY <1>10 DEF Flush, Close, Ready
  <2>2. QED
    BY <1>0, <1>2, <2>1, BeginDisk
<1>11. QED
  BY <1>3, <1>4, <1>5, <1>6, <1>7, <1>8, <1>9, <1>10 DEF Client

-----------------------------------------------------------------------------
(***************************************************************************)
(* The refinement                                                          *)
(***************************************************************************)

\* A step of a call.
LEMMA StepDisk ==
    ASSUME "batRead" \notin Faults, Sound, Shape', DiskInv,
           AllDurable => Settle, ~AllDurable => Grow, Step
    PROVE  DiskInv' /\ Disk!Next
<1>0. session.open /\ CallOK /\ SessionOK
  <2>1. call.op # "none"
    BY DEF Step, ReadBlockEntry, AppendFooter, AppendBitmap, FillAndPlaceEntry, WriteData,
           WriteDataAnywhere, SetBits, ResetBits, FlushBat, FlushMapper, FlushReturns, CloseReturns, ScanBlock, FillUnset, SetUnset,
           OpenReturns, At, Sound, Shape, CallOK
  <2>2. QED
    BY <2>1, NoCallOK DEF Sound, Shape, SessionOK
<1>1. ASSUME call.pc # "fsync", UNCHANGED session
      PROVE  Grow
  BY <1>0, <1>1 DEF AllDurable
<1>2. ASSUME ReadBlockEntry PROVE DiskInv' /\ Disk!Next
  BY <1>1, <1>2, ReadBlockEntryDisk DEF ReadBlockEntry, At
<1>3. ASSUME AppendFooter PROVE DiskInv' /\ Disk!Next
  BY <1>1, <1>3, AppendFooterDisk DEF AppendFooter, At
<1>4. ASSUME AppendBitmap PROVE DiskInv' /\ Disk!Next
  BY <1>1, <1>4, AppendBitmapDisk DEF AppendBitmap, At
<1>5. ASSUME FillAndPlaceEntry PROVE DiskInv' /\ Disk!Next
  BY <1>1, <1>5, FillAndPlaceEntryDisk DEF FillAndPlaceEntry, At
<1>6. ASSUME WriteData PROVE DiskInv' /\ Disk!Next
  BY <1>1, <1>6, WriteDataDisk DEF WriteData, At
<1>7. ASSUME SetBits PROVE DiskInv' /\ Disk!Next
  BY <1>1, <1>7, SetBitsDisk DEF SetBits, At
<1>8. ASSUME ResetBits PROVE DiskInv' /\ Disk!Next
  BY <1>1, <1>8, ResetBitsDisk DEF ResetBits, At
<1>9. ASSUME FlushBat PROVE DiskInv' /\ Disk!Next
  BY <1>1, <1>9, FlushBatDisk DEF FlushBat
<1>10. ASSUME FlushMapper PROVE DiskInv' /\ Disk!Next
  BY <1>1, <1>10, FlushMapperDisk DEF FlushMapper
<1>11. ASSUME FlushReturns PROVE DiskInv' /\ Disk!Next
  BY <1>11, FlushReturnsDisk
<1>12. ASSUME CloseReturns PROVE DiskInv' /\ Disk!Next
  <2>1. session' = Closed
    BY <1>12 DEF CloseReturns, DropSession
  <2>2. Settle
    BY <2>1 DEF AllDurable, Closed
  <2>3. QED
    BY <1>12, <2>2, CloseReturnsDisk
<1>13. ASSUME ScanBlock PROVE DiskInv' /\ Disk!Next
  BY <1>13, ScanBlockDisk
<1>14. ASSUME FillUnset PROVE DiskInv' /\ Disk!Next
  BY <1>14, FillUnsetDisk
<1>15. ASSUME SetUnset PROVE DiskInv' /\ Disk!Next
  BY <1>15, SetUnsetDisk
<1>16. ASSUME OpenReturns PROVE DiskInv' /\ Disk!Next
  BY <1>16, OpenReturnsDisk
<1>17. ~WriteDataAnywhere
  BY TableType DEF WriteDataAnywhere, At, DiskInv, WriteInv, Sound
<1>18. QED
  BY <1>2, <1>3, <1>4, <1>5, <1>6, <1>7, <1>8, <1>9, <1>10, <1>11, <1>12, <1>13, <1>14, <1>15, <1>16,
     <1>17 DEF Step

\* A step of anybody.
LEMMA NextDisk ==
    ASSUME "batRead" \notin Faults, PureWrites, Sound, Shape', DiskInv, HistoryNext, end # Bogus
    PROVE  DiskInv' /\ Disk!Next
<1>1. Next /\ (AllDurable => Settle) /\ (~AllDurable => Grow)
  BY HistoryStep
<1>2. CASE Step
  BY <1>1, <1>2, StepDisk
<1>3. CASE Client
  <2>1. call.pc = "none"
    BY <1>3, ClientBegins, NoCallOK DEF Sound
  <2>2. session'.open
    <3>1. ASSUME NEW flags \in Modes, Open(flags) PROVE session'.open
      BY <3>1 DEF Open
    <3>2. ASSUME Ready, UNCHANGED session PROVE session'.open
      BY <3>2 DEF Ready
    <3>3. ~OpenRefused
      BY DEF OpenRefused
    <3>4. QED
      BY <1>3, <3>1, <3>2, <3>3
         DEF Client, ReadSectors, ReadSectorsMissesError, WriteSectors, DiscardSectors, ReadSectorsFails,
             InvalidateCaches, Flush, Close
  <2>3. Grow
    BY <1>1, <2>1, <2>2 DEF AllDurable
  <2>4. QED
    BY <1>3, <2>3, ClientDisk
<1>4. CASE ProcessDies
  <2>1. Settle
    BY <1>1, <1>4 DEF ProcessDies, DropSession, AllDurable, Closed
  <2>2. QED
    BY <1>4, <2>1, ProcessDiesDisk
<1>5. QED
  BY <1>1, <1>2, <1>3, <1>4 DEF Next

\* Nobody's step changes nothing.
LEMMA StutterDisk ==
    ASSUME DiskInv, UNCHANGED historyVars
    PROVE  DiskInv' /\ UNCHANGED Disk!vars
<1>1. /\ UNCHANGED <<batOnMedia, iBatBuffer, batState, bitmap, bitmapOnMedia>>
      /\ UNCHANGED <<data, end, session, call, reply, recent>>
  BY DEF historyVars, vars, batVars, bitmapVars, diskVars
<1>2. BAT!Table' = BAT!Table
  BY <1>1 DEF BAT!Table, BAT!StateValid
<1>3. UNCHANGED Content /\ UNCHANGED ClientCall
  BY <1>1, <1>2 DEF Content, ClientCall
<1>4. RecentInv'
  BY <1>1, <1>2 DEF DiskInv, RecentInv, RecentAt, ValueAt
<1>5. DurableInv' /\ BlankInv' /\ RangeInv'
  BY <1>1, <1>2 DEF DiskInv, DurableInv, BlankInv, Blank, RangeInv, CurrBlock
<1>6. WriteInv'
  <2>1. /\ CurrBlock' = CurrBlock /\ CurrSectors' = CurrSectors /\ ReadOnly' = ReadOnly
        /\ Flushing' = Flushing /\ SetAllBmpBits' = SetAllBmpBits /\ Blank(call.slot)' = Blank(call.slot)
    BY <1>1 DEF CurrBlock, CurrSectors, CurrRange, ReadOnly, Flushing, SetAllBmpBits, BlockPureMode,
               TrimEnabled, Blank
  <2>2. QED
    BY <1>1, <1>2, <1>3, <2>1 DEF DiskInv, WriteInv
<1>7. ValueInv' /\ DiscardedInv' /\ FilledInv' /\ OtherInv'
  BY <1>1, <1>3 DEF DiskInv, ValueInv, DiscardedInv, FilledInv, OtherInv, Flushing
<1>8. QED
  BY <1>1, <1>3, <1>4, <1>5, <1>6, <1>7 DEF DiskInv, Disk!vars

\* The new disk shows the background.
LEMMA InitDisk == HistoryInit => DiskInv /\ Disk!Init
<1> SUFFICES ASSUME HistoryInit PROVE DiskInv /\ Disk!Init
  OBVIOUS
<1>1. /\ \A b \in Blocks : BAT!Table[b] = Unused /\ batOnMedia[b] = Unused
      /\ BAT!Table = batOnMedia /\ bitmapOnMedia = bitmap
      /\ data = [x \in Slots |-> [i \in BlockSectors |-> Zero]]
      /\ session = Closed /\ call = NoCall /\ reply = Reply("lost", <<>>)
      /\ recent = [s \in Sectors |-> {Content[s]}]
  BY DEF HistoryInit, Init, BAT!Init, BAT!EmptyTable, BAT!Table
<1>2. ASSUME NEW s \in Sectors
      PROVE  Content[s] = Background[s] /\ RecentAt(s)
  BY <1>1, BlockOfSector, ContentIs DEF RecentAt, ValueAt
<1>3. Content = Background
  <2>1. Background = [s \in Sectors |-> Background[s]]
    BY DataAssumption DEF Background, Sectors
  <2>2. QED
    BY <1>2, <2>1 DEF Content
<1>4. call.op = "none"
  BY <1>1, NoCallOK
<1>5. RecentInv
  BY <1>1, <1>2 DEF RecentInv
<1>6. DurableInv /\ BlankInv
  BY <1>1 DEF DurableInv, BlankInv, Blank
<1>7. CallInv
  BY <1>4 DEF CallInv, RangeInv, WriteInv, ValueInv, DiscardedInv, FilledInv, OtherInv
<1>8. Disk!Init
  BY <1>1, <1>3, NoClientCall DEF Disk!Init, Disk!Sectors, Sectors, Reply, Disk!Reply
<1>9. QED
  BY <1>5, <1>6, <1>7, <1>8 DEF DiskInv, CallInv

\* A dynamic or differencing VHD is a disk, whatever system calls fail and wherever the
\* process dies: a call changes the sectors of its range only; what was flushed, or written
\* with an append, is there after any failure, and what was not is what the sector had, or
\* was being given, since; a read returns the content, in a differencing VHD that of the
\* sectors that are read alone of their block: ImplementsVirtualDisk.  The assumptions
\* exclude what breaks the promise: an error code of reading the table is taken for an
\* entry, and PURE acts on read-only sessions.
THEOREM Refinement ==
    ASSUME "batRead" \notin Faults, PureWrites
    PROVE  HistorySpec => ImplementsVirtualDisk
<1> DEFINE Inv == Shape /\ TablesInv /\ FooterInv /\ PureInv /\ DiskInv
<1>1. HistoryInit => Inv /\ Disk!Init
  BY InitShape, InitTables, InitFooter, InitPure, InitDisk DEF HistoryInit
<1>2. Inv /\ [HistoryNext]_historyVars => Inv' /\ [Disk!Next]_(Disk!vars)
  <2> SUFFICES ASSUME Inv, [HistoryNext]_historyVars
               PROVE  Inv' /\ [Disk!Next]_(Disk!vars)
    OBVIOUS
  <2>1. [Next]_vars
    BY DEF HistoryNext, historyVars
  <2>2. Shape' /\ TablesInv' /\ FooterInv' /\ PureInv'
    BY <2>1, NextShape, NextTables, NextFooter, NextPure
  <2>3. DiskInv' /\ [Disk!Next]_(Disk!vars)
    <3>1. end # Bogus
      BY SizeAssumption DEF FooterInv, FooterAtEnd, Shape, DiskOK, Bogus
    <3>2. CASE HistoryNext
      BY <2>2, <3>1, <3>2, NextDisk DEF Sound
    <3>3. CASE UNCHANGED historyVars
      BY <3>3, StutterDisk
    <3>4. QED
      BY <3>2, <3>3
  <2>4. QED
    BY <2>2, <2>3
<1>3. QED
  BY <1>1, <1>2, PTL DEF HistorySpec, ImplementsVirtualDisk, Disk!Spec

\* What a step replies that is not a read.
LEMMA OtherReplies ==
    ASSUME Shape, Next, call.op = "none", reply'.kind = "ok",
           \A r \in Ranges : ~ReadSectors(r) /\ ~ReadSectorsMissesError(r)
    PROVE  DOMAIN reply'.vals = {}
<1>1. ASSUME NEW op, NEW pc, NEW r, NEW v, Begin(op, pc, r, v) PROVE FALSE
  BY <1>1 DEF Begin, Reply
<1>2. ~Refuse
  BY DEF Refuse, Reply
<1>3. ~Step
  BY DEF Step, ReadBlockEntry, AppendFooter, AppendBitmap, FillAndPlaceEntry, WriteData,
         WriteDataAnywhere, SetBits, ResetBits, FlushBat, FlushMapper, FlushReturns, CloseReturns,
         ScanBlock, FillUnset, SetUnset, OpenReturns, At, Shape, CallOK
<1>4. ~ProcessDies
  BY DEF ProcessDies, DropSession, Return, Reply
<1>5. reply' = Reply("ok", <<>>)
  BY <1>1, <1>2, <1>3, <1>4
     DEF Next, Client, Open, OpenRefused, WriteSectors, DiscardSectors, ReadSectorsFails,
         InvalidateCaches, Flush, Close
<1>6. QED
  BY <1>5 DEF Reply

\* What a read that succeeds returns.
Reads ==
    call.op = "none" /\ reply'.kind = "ok" =>
      \A s \in DOMAIN reply'.vals :
        Dynamic \/ Uniform(DOMAIN reply'.vals, s) => reply'.vals[s] = Content[s]

\* Every step keeps to it.
LEMMA NextReads ==
    ASSUME "batRead" \notin Faults, PureWrites
    PROVE  Shape /\ PureInv /\ [Next]_vars => [Reads]_vars
<1> SUFFICES ASSUME Shape, PureInv, Next, call.op = "none", reply'.kind = "ok",
                    NEW s \in DOMAIN reply'.vals, Dynamic \/ Uniform(DOMAIN reply'.vals, s)
             PROVE  reply'.vals[s] = Content[s]
  BY DEF Reads
<1>1. PICK r \in Ranges : ReadSectors(r) \/ ReadSectorsMissesError(r)
  BY OtherReplies
<1>2. QED
  BY <1>1, ReadReturns

\* A read that succeeds returns the content of the sectors whose block it does not read
\* extent by extent, through cached and stale bitmaps and tables, in sessions of every
\* mode and after what failed or died half-way, as long as the table can be read:
\* UniformReadsReturnContent.
THEOREM ReadsAreContent ==
    ASSUME "batRead" \notin Faults, PureWrites
    PROVE  Spec => UniformReadsReturnContent
<1>1. Init => Shape /\ PureInv
  BY InitShape, InitPure
<1>2. Shape /\ PureInv /\ [Next]_vars => Shape' /\ PureInv' /\ [Reads]_vars
  BY NextShape, NextPure, NextReads
<1> DEFINE Uniformly == call.op = "none" /\ reply'.kind = "ok" =>
             \A s \in DOMAIN reply'.vals :
               Uniform(DOMAIN reply'.vals, s) => reply'.vals[s] = Content[s]
<1>3. [Reads]_vars => [Uniformly]_vars
  BY DEF Reads
<1>4. QED
  BY <1>1, <1>2, <1>3, PTL DEF Spec, UniformReadsReturnContent

\* Of a dynamic VHD, which reads no parent, it returns the content of every sector:
\* ReadsReturnContent.
THEOREM DynamicReadsAreContent ==
    ASSUME Dynamic, "batRead" \notin Faults, PureWrites
    PROVE  Spec => ReadsReturnContent
<1>1. Init => Shape /\ PureInv
  BY InitShape, InitPure
<1>2. Shape /\ PureInv /\ [Next]_vars => Shape' /\ PureInv' /\ [Reads]_vars
  BY NextShape, NextPure, NextReads
<1> DEFINE Wholly == call.op = "none" /\ reply'.kind = "ok" =>
             \A s \in DOMAIN reply'.vals : reply'.vals[s] = Content[s]
<1>3. [Reads]_vars => [Wholly]_vars
  BY DEF Reads
<1>4. QED
  BY <1>1, <1>2, <1>3, PTL DEF Spec, ReadsReturnContent

=============================================================================
