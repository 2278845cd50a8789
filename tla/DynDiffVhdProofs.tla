-------------------------- MODULE DynDiffVhdProofs --------------------------
(***************************************************************************)
(* Proofs about DynDiffVhd, for disks of any number and size of blocks,    *)
(* any room in the file system, any data, ranges and modes, and any system *)
(* calls that may fail, where a theorem does not exclude some.  Shape      *)
(* gives the types; on it rest four invariants: of the tables, of the      *)
(* footer, of pure mode, and of the flush after an append.                 *)
(***************************************************************************)
EXTENDS DynDiffVhd, TLAPS

-----------------------------------------------------------------------------
(***************************************************************************)
(* Types                                                                   *)
(***************************************************************************)

\* The cached table: its types, and its agreement with the file.
BatInv == BAT!BatTypeOK /\ BatCoherent

\* The types of the bitmaps, ...
BitmapsOK == bitmap \in Mapper!Bitmaps /\ bitmapOnMedia \in Mapper!Bitmaps

\* ... of the file, ...
DiskOK ==
    /\ data \in [Slots -> [BlockSectors -> Data]]
    /\ end \in 0 .. MaxSlots \cup {Bogus}
    /\ footers \subseteq 0 .. MaxSlots

\* ... and of the call being executed.
CallRecords ==
    [op : {"none", "open", "write", "discard", "flush", "close"},
     pc : {"none", "readEntry", "appendFooter", "appendBitmap", "fill", "writeData",
           "setBits", "resetBits", "flushBat", "flushMapper", "fsync", "scan", "fillUnset",
           "setUnset"},
     first : Nat, cur : Nat, last : Nat, val : Data,
     slot : Slots \cup {Bogus}, fresh : BOOLEAN, flush : BOOLEAN, failed : BOOLEAN]

\* The calls that have a slot of their own at hand have a real one.
CallOK ==
    /\ call \in CallRecords
    /\ call.pc \in {"appendBitmap", "fill", "fillUnset", "setUnset"} => call.slot \in Slots
    /\ call.op = "none" => call.pc = "none"

\* A session was opened in one of the modes, and without one no call goes on.
SessionOK ==
    /\ session \in [open : BOOLEAN, flags : SUBSET Flags]
    /\ session.open => session.flags \in Modes
    /\ ~session.open => call = NoCall

\* The kinds of replies.
ReplyOK == reply.kind \in {"none", "ok", "error", "lost"}

\* The type invariant made inductive.
Shape == BatInv /\ BitmapsOK /\ DiskOK /\ CallOK /\ SessionOK /\ ReplyOK

\* What a step that places no block does to the two tables: entries of the cached
\* one may go to the file, and the cache may be dropped.
TablesMove ==
    /\ \A b \in Blocks : batOnMedia'[b] \in {batOnMedia[b], BAT!Table[b]}
    /\ BAT!Table' \in {BAT!Table, batOnMedia'}

\* Reading, flushing or dropping the table keeps its cache coherent and places no
\* block, also when the flush fails half-way.
LEMMA BatMoves ==
    ASSUME BatInv,
           \/ UNCHANGED batVars \/ BAT!ReadBAT \/ BAT!InvalidateCache \/ BAT!Flush
           \/ BAT!FlushFails
    PROVE  BatInv' /\ TablesMove
<1>1. CASE UNCHANGED batVars
  BY <1>1
     DEF BatInv, TablesMove, batVars, BAT!BatTypeOK, BatCoherent, BAT!BatCoherent,
         BAT!Table, BAT!StateValid
<1>2. CASE BAT!ReadBAT
  BY <1>2
     DEF BatInv, TablesMove, BAT!ReadBAT, BAT!BatTypeOK, BatCoherent, BAT!BatCoherent,
         BAT!Table, BAT!StateValid
<1>3. CASE BAT!InvalidateCache
  BY <1>3
     DEF BatInv, TablesMove, BAT!InvalidateCache, BAT!BatTypeOK, BatCoherent,
         BAT!BatCoherent, BAT!Table, BAT!StateValid, BAT!EmptyTable, BAT!Tables
<1>4. CASE BAT!Flush
  BY <1>4
     DEF BatInv, TablesMove, BAT!Flush, BAT!BatTypeOK, BatCoherent, BAT!BatCoherent,
         BAT!Table, BAT!StateValid
<1>5. CASE BAT!FlushFails
  <2>1. PICK W \in SUBSET Blocks :
         batOnMedia' = [b \in Blocks |-> IF b \in W THEN iBatBuffer[b] ELSE batOnMedia[b]]
    BY <1>5 DEF BAT!FlushFails
  <2>2. batState = "EDirty" /\ UNCHANGED <<iBatBuffer, batState>>
    BY <1>5 DEF BAT!FlushFails
  <2>3. BAT!Table = iBatBuffer /\ BAT!Table' = iBatBuffer
    BY <2>2 DEF BAT!Table, BAT!StateValid
  <2>4. BAT!BatTypeOK'
    BY <2>1, <2>2 DEF BatInv, BAT!BatTypeOK, BAT!Tables
  <2>5. QED
    BY <2>1, <2>2, <2>3, <2>4 DEF BatInv, TablesMove, BatCoherent, BAT!BatCoherent
<1>6. QED
  BY <1>1, <1>2, <1>3, <1>4, <1>5

\* The bitmaps keep their types.
LEMMA BitmapMoves ==
    ASSUME BitmapsOK, NEW x, NEW S \in SUBSET BlockSectors,
           \/ UNCHANGED bitmapVars \/ Mapper!KeepBits \/ Mapper!FlushBits \/ Mapper!LoseBits
           \/ Mapper!SetBits(x, S) \/ Mapper!ResetBits(x, S) \/ Mapper!CreateBits(x, S)
    PROVE  BitmapsOK'
<1>1. CASE UNCHANGED bitmapVars
  BY <1>1 DEF BitmapsOK, bitmapVars
<1>2. CASE Mapper!KeepBits \/ Mapper!LoseBits
  BY <1>2 DEF BitmapsOK, Mapper!KeepBits, Mapper!LoseBits, Mapper!WriteBack, Mapper!Bitmaps
<1>3. CASE Mapper!FlushBits
  BY <1>3 DEF BitmapsOK, Mapper!FlushBits
<1>4. CASE Mapper!SetBits(x, S)
  BY <1>4 DEF BitmapsOK, Mapper!SetBits, Mapper!WriteBack, Mapper!Bitmaps
<1>5. CASE Mapper!ResetBits(x, S)
  BY <1>5 DEF BitmapsOK, Mapper!ResetBits, Mapper!WriteBack, Mapper!Bitmaps
<1>6. CASE Mapper!CreateBits(x, S)
  BY <1>6 DEF BitmapsOK, Mapper!CreateBits, Mapper!Bitmaps
<1>7. QED
  BY <1>1, <1>2, <1>3, <1>4, <1>5, <1>6

\* Quotient and remainder.
LEMMA DivMod ==
    ASSUME NEW s \in Nat, NEW d \in Nat \ {0}
    PROVE  /\ s \div d \in Nat
           /\ s % d \in 0 .. d - 1
           /\ s = (d * (s \div d)) + (s % d)
  BY SMT

\* The sectors of a call are sectors of a block.
LEMMA CurrSectorsType ==
    ASSUME CallOK
    PROVE  CurrSectors \in SUBSET BlockSectors
<1>1. call.cur \in Nat /\ call.last \in Nat
  BY DEF CallOK, CallRecords
<1>2. ASSUME NEW s \in CurrRange
      PROVE  SectorInBlock(s) \in BlockSectors
  <2>1. s \in Nat
    BY <1>1, <1>2 DEF CurrRange
  <2>2. QED
    BY <2>1, DivMod, SizeAssumption DEF SectorInBlock, BlockSectors
<1>3. QED
  BY <1>2 DEF CurrSectors

\* No call is a call record.
LEMMA NoCallOK == NoCall \in CallRecords /\ NoCall.op = "none" /\ NoCall.pc = "none"
  BY SizeAssumption, DataAssumption DEF NoCall, CallRecords, Slots

\* A call begins with its parameters and no slot.
LEMMA BeginOK ==
    ASSUME SessionOK, session'.open, session' \in [open : BOOLEAN, flags : SUBSET Flags],
           session'.flags \in Modes,
           NEW op \in {"open", "write", "discard", "flush", "close"},
           NEW pc \in {"scan", "readEntry", "resetBits", "flushBat"},
           NEW r \in Nat \X Nat, NEW v \in Data, Begin(op, pc, r, v)
    PROVE  CallOK' /\ SessionOK' /\ ReplyOK' /\ call'.pc = pc
<1>1. call' = [NoCall EXCEPT !.op = op, !.pc = pc, !.first = r[1], !.cur = r[1],
                             !.last = r[2], !.val = v]
  BY DEF Begin
<1>2. r[1] \in Nat /\ r[2] \in Nat
  OBVIOUS
<1>3. call' \in CallRecords /\ call'.op = op /\ call'.pc = pc
  BY <1>1, <1>2, NoCallOK DEF CallRecords
<1>4. QED
  BY <1>3 DEF CallOK, SessionOK, ReplyOK, Begin, Reply

\* A call that returns leaves nothing behind, whether or not the file is closed.
LEMMA ReturnOK ==
    ASSUME SessionOK, NEW kind \in {"none", "ok", "error", "lost"}, Return(kind),
           session' \in {session, Closed}
    PROVE  CallOK' /\ SessionOK' /\ ReplyOK' /\ call' = NoCall
<1>1. call' = NoCall /\ reply'.kind = kind
  BY DEF Return, Reply
<1>2. CallOK'
  BY <1>1, NoCallOK DEF CallOK
<1>3. CASE session' = session
  BY <1>1, <1>2, <1>3 DEF SessionOK, ReplyOK
<1>4. CASE session' = Closed
  <2>1. Closed \in [open : BOOLEAN, flags : SUBSET Flags] /\ ~Closed.open
    BY DEF Closed
  <2>2. QED
    BY <1>1, <1>2, <1>4, <2>1 DEF SessionOK, ReplyOK
<1>5. QED
  BY <1>3, <1>4

\* A call that is refused changes nothing.
LEMMA RefuseOK ==
    ASSUME CallOK, SessionOK, Refuse, UNCHANGED session
    PROVE  CallOK' /\ SessionOK' /\ ReplyOK' /\ call' = call
  BY DEF CallOK, SessionOK, ReplyOK, Refuse, Reply

\* A call that goes on stays a call.
LEMMA UpdateCallOK ==
    ASSUME CallOK, SessionOK, ReplyOK, session.open, UNCHANGED <<session, reply>>, call.op # "none",
           call' \in CallRecords, call'.op = call.op,
           call'.pc \in {"appendBitmap", "fill", "fillUnset", "setUnset"} => call'.slot \in Slots
    PROVE  CallOK' /\ SessionOK' /\ ReplyOK'
  BY DEF CallOK, SessionOK, ReplyOK

\* A write, or a part of one, puts data into the file.
LEMMA DataType ==
    ASSUME DiskOK, NEW x, NEW W, NEW values \in [BlockSectors -> Data],
           data' = [data EXCEPT ![x] = [i \in BlockSectors |-> IF i \in W THEN values[i] ELSE @[i]]]
    PROVE  data' \in [Slots -> [BlockSectors -> Data]]
  BY DEF DiskOK

\* What surrounds new data is data.
LEMMA BackgroundType ==
    ASSUME NEW b \in Nat
    PROVE  BackgroundOf(b) \in [BlockSectors -> Data]
<1>1. Background \in [Sectors -> Data]
  BY DataAssumption, DiskTypeAssumption DEF Background, Sectors
<1>2. QED
  BY <1>1, DataAssumption DEF BackgroundOf

\* The number of the block a call is at is a number.
LEMMA CurrBlockType ==
    ASSUME CallOK
    PROVE  /\ CurrBlock \in Nat
           /\ (CurrBlock + 1) * SectorsPerBlock \in Nat
<1>1. call.cur \in Nat
  BY DEF CallOK, CallRecords
<1>2. CurrBlock \in Nat
  BY <1>1, DivMod, SizeAssumption DEF CurrBlock, SectorToBlockNumber
<1>3. QED
  BY <1>2, SizeAssumption

\* Placing a block changes its entry of the cached table, and no other.
LEMMA WriteEntryOK ==
    ASSUME BatInv, NEW b, NEW x \in Slots, BAT!WriteEntry(b, x)
    PROVE  BatInv' /\ BAT!Table' = [BAT!Table EXCEPT ![b] = x] /\ batOnMedia' = batOnMedia
  BY DEF BatInv, BAT!WriteEntry, BAT!BatTypeOK, BAT!Tables, BatCoherent, BAT!BatCoherent,
         BAT!Table, BAT!StateValid

\* The ranges of the clients are ranges of sectors.
LEMMA RangeType ==
    ASSUME NEW r \in Ranges
    PROVE  r \in Sectors \X Sectors /\ r[1] <= r[2] /\ r \in Nat \X Nat
<1>1. r \in (0 .. VhdSizeInSectors - 1) \X (0 .. VhdSizeInSectors - 1) /\ r[1] <= r[2]
  BY RangesAssumption
<1>2. Sectors \subseteq Nat
  BY DEF Sectors
<1>3. QED
  BY <1>1, <1>2 DEF Sectors

\* Dropping the session drops the caches and ends the call.
LEMMA DropSessionOK ==
    ASSUME BatInv, SessionOK, NEW kind \in {"none", "ok", "error", "lost"}, DropSession(kind)
    PROVE  BatInv' /\ TablesMove /\ CallOK' /\ SessionOK' /\ ReplyOK' /\ call' = NoCall
  BY BatMoves, ReturnOK DEF DropSession

\* Closing places no block, also when its flush fails half-way.
LEMMA CloseRelease ==
    ASSUME BatInv, CloseReturns
    PROVE  BatInv' /\ TablesMove /\ session' = Closed /\ (Return("ok") \/ Return("lost"))
<1>1. CASE DropSession("ok")
  BY <1>1, BatMoves DEF DropSession
<1>2. CASE /\ \E W \in SUBSET Blocks :
               batOnMedia' = [b \in Blocks |-> IF b \in W THEN BAT!Table[b] ELSE batOnMedia[b]]
           /\ iBatBuffer' = BAT!EmptyTable /\ batState' = "EInvalid"
           /\ session' = Closed
           /\ Return("lost")
  <2>1. PICK W \in SUBSET Blocks :
          batOnMedia' = [b \in Blocks |-> IF b \in W THEN BAT!Table[b] ELSE batOnMedia[b]]
    BY <1>2
  <2>2. BAT!Table \in BAT!Tables
    BY DEF BatInv, BAT!BatTypeOK, BAT!Table
  <2>3. BAT!Table' = batOnMedia'
    BY <1>2 DEF BAT!Table, BAT!StateValid
  <2>4. batOnMedia' \in BAT!Tables
    BY <2>1, <2>2 DEF BatInv, BAT!BatTypeOK, BAT!Tables
  <2>5. QED
    BY <1>2, <2>1, <2>3, <2>4
       DEF BatInv, BAT!BatTypeOK, BatCoherent, BAT!BatCoherent, BAT!EmptyTable, BAT!Tables,
           TablesMove
<1>3. QED
  BY <1>1, <1>2 DEF CloseReturns

\* The loop of the processing for pure mode goes on to the next block or to the flush.
LEMMA ScanNextOK ==
    ASSUME CallOK, ScanNext
    PROVE  /\ call' \in CallRecords /\ call'.op = call.op /\ UNCHANGED reply
           /\ call'.pc \in {"scan", "flushBat"}
<1>1. call.cur + 1 \in Nat /\ call \in CallRecords
  BY DEF CallOK, CallRecords
<1>2. CASE call' = [call EXCEPT !.pc = "scan", !.cur = call.cur + 1]
  BY <1>1, <1>2 DEF ScanNext, CallRecords
<1>3. CASE call' = [call EXCEPT !.pc = "flushBat"]
  BY <1>1, <1>3 DEF ScanNext, CallRecords
<1>4. QED
  BY <1>2, <1>3 DEF ScanNext

\* Data that goes astray: the call has returned, and either nothing was written or
\* the file was given up, which nothing reads again.
LEMMA AnywhereOK ==
    ASSUME Shape, WriteDataAnywhere
    PROVE  /\ BatInv' /\ TablesMove /\ BitmapsOK' /\ DiskOK' /\ CallOK' /\ SessionOK' /\ ReplyOK'
           /\ call' = NoCall /\ call'.pc = "none" /\ call'.op = "none"
           /\ \/ session' = Closed /\ end' = Bogus /\ footers' = footers /\ BAT!InvalidateCache
              \/ CanFail("write") /\ UNCHANGED <<batVars, bitmapVars, diskVars, session>>
<1> USE DEF Shape
<1>1. NoCall.pc = "none" /\ NoCall.op = "none"
  BY NoCallOK
<1>2. CASE end' = Bogus /\ Mapper!LoseBits /\ DropSession("lost") /\ UNCHANGED <<data, footers>>
  <2>1. BitmapsOK'
    BY <1>2, BitmapMoves
  <2>2. DiskOK'
    BY <1>2 DEF DiskOK
  <2>3. BatInv' /\ TablesMove /\ CallOK' /\ SessionOK' /\ ReplyOK' /\ call' = NoCall
    BY <1>2, DropSessionOK
  <2>4. session' = Closed /\ BAT!InvalidateCache
    BY <1>2 DEF DropSession
  <2>5. QED
    BY <1>1, <1>2, <2>1, <2>2, <2>3, <2>4
<1>3. CASE CanFail("write") /\ Return("error") /\ UNCHANGED <<batVars, bitmapVars, diskVars, session>>
  <2>1. BitmapsOK' /\ DiskOK' /\ BatInv' /\ TablesMove
    BY <1>3, BatMoves DEF BitmapsOK, bitmapVars, DiskOK, diskVars
  <2>2. CallOK' /\ SessionOK' /\ ReplyOK' /\ call' = NoCall
    BY <1>3, ReturnOK
  <2>3. QED
    BY <1>1, <1>3, <2>1, <2>2
<1>4. QED
  BY <1>2, <1>3 DEF WriteDataAnywhere

\* Every step of a call keeps the shape.
LEMMA StepShape ==
    ASSUME Shape, Step
    PROVE  Shape'
<1> USE DEF Shape
<1>0. /\ session.open => session \in [open : BOOLEAN, flags : SUBSET Flags]
      /\ call.pc # "none" \/ call.op # "none" => session.open /\ call.op # "none"
      /\ call \in CallRecords
  BY NoCallOK DEF SessionOK, CallOK
<1>1. ASSUME ReadBlockEntry PROVE Shape'
  <2>1. BatInv' /\ BitmapsOK' /\ DiskOK'
    <3>1. BAT!ReadBAT \/ UNCHANGED batVars
      BY <1>1 DEF ReadBlockEntry, BAT!ReadEntry, BAT!ReadEntryFails, BAT!vars, batVars
    <3>2. QED
      BY <1>1, <3>1, BatMoves DEF ReadBlockEntry, BitmapsOK, DiskOK, bitmapVars, diskVars
  <2>2. /\ call' \in CallRecords /\ call'.op = call.op
        /\ call'.pc \notin {"appendBitmap", "fill", "fillUnset", "setUnset"}
        /\ UNCHANGED <<session, reply>>
    BY <1>0, <1>1 DEF ReadBlockEntry, CallRecords, Goto
  <2>3. QED
    BY <1>0, <1>1, <2>1, <2>2, UpdateCallOK DEF ReadBlockEntry, At
<1>2. ASSUME AppendFooter PROVE Shape'
  <2>1. BatInv' /\ BitmapsOK'
    BY <1>2, BatMoves DEF AppendFooter, BitmapsOK, bitmapVars
  <2>2. DiskOK'
    BY <1>2, SizeAssumption DEF AppendFooter, DiskOK, Bogus
  <2>3. CASE Return("error")
    BY <1>2, <2>1, <2>2, <2>3, ReturnOK DEF AppendFooter
  <2>4. CASE call' = [call EXCEPT !.pc = "appendBitmap", !.slot = end] /\ UNCHANGED reply /\ end < MaxSlots
    <3>1. end \in Slots
      BY <2>4, SizeAssumption DEF DiskOK, Slots, Bogus
    <3>2. call' \in CallRecords /\ call'.op = call.op /\ call'.slot \in Slots
      BY <1>0, <2>4, <3>1 DEF CallRecords
    <3>3. QED
      BY <1>0, <1>2, <2>1, <2>2, <2>4, <3>2, UpdateCallOK DEF AppendFooter, At
  <2>5. QED
    BY <1>2, <2>3, <2>4 DEF AppendFooter
<1>3. ASSUME AppendBitmap PROVE Shape'
  <2>1. BatInv'
    BY <1>3, BatMoves DEF AppendBitmap
  <2>2. BitmapsOK'
    <3>1. \/ UNCHANGED bitmapVars
          \/ \E S \in SUBSET BlockSectors : Mapper!CreateBits(call.slot, S)
      BY <1>3 DEF AppendBitmap
    <3>2. QED
      BY <3>1, BitmapMoves
  <2>3. DiskOK'
    BY <1>3 DEF AppendBitmap, DiskOK
  <2>4. CASE Return("error")
    BY <1>3, <2>1, <2>2, <2>3, <2>4, ReturnOK DEF AppendBitmap
  <2>5. CASE Goto("fill")
    <3>1. call' \in CallRecords /\ call'.op = call.op /\ call'.slot \in Slots
      BY <1>0, <1>3, <2>5 DEF Goto, CallRecords, AppendBitmap, At, CallOK
    <3>2. QED
      BY <1>0, <1>3, <2>1, <2>2, <2>3, <2>5, <3>1, UpdateCallOK DEF AppendBitmap, At, Goto
  <2>6. QED
    BY <1>3, <2>4, <2>5 DEF AppendBitmap
<1>4. ASSUME FillAndPlaceEntry PROVE Shape'
  <2>1. PICK W :
          data' = [data EXCEPT ![call.slot] =
                     [i \in BlockSectors |-> IF i \in W THEN BackgroundOf(CurrBlock)[i] ELSE @[i]]]
    BY <1>4 DEF FillAndPlaceEntry, WriteSlot
  <2>2. BitmapsOK' /\ DiskOK'
    BY <1>4, <2>1, DataType, BackgroundType, CurrBlockType
       DEF FillAndPlaceEntry, DiskOK, BitmapsOK, bitmapVars
  <2>3. call.slot \in Slots
    BY <1>4 DEF FillAndPlaceEntry, At, CallOK
  <2>4. \/ /\ BAT!WriteEntry(CurrBlock, call.slot)
           /\ call' = [call EXCEPT !.pc = "writeData", !.fresh = TRUE, !.flush = TRUE]
           /\ UNCHANGED reply
        \/ Return("error") /\ UNCHANGED batVars
    BY <1>4 DEF FillAndPlaceEntry, WriteSlot
  <2>5. CASE Return("error") /\ UNCHANGED batVars
    BY <1>4, <2>2, <2>5, ReturnOK, BatMoves DEF FillAndPlaceEntry
  <2>6. CASE /\ BAT!WriteEntry(CurrBlock, call.slot)
             /\ call' = [call EXCEPT !.pc = "writeData", !.fresh = TRUE, !.flush = TRUE]
             /\ UNCHANGED reply
    <3>1. call' \in CallRecords /\ call'.op = call.op /\ call'.pc = "writeData"
      BY <1>0, <2>6 DEF CallRecords
    <3>2. QED
      BY <1>0, <1>4, <2>2, <2>3, <2>6, <3>1, UpdateCallOK, WriteEntryOK
         DEF FillAndPlaceEntry, At
  <2>7. QED
    BY <2>4, <2>5, <2>6
<1>5. ASSUME WriteData PROVE Shape'
  <2>1. BatInv' /\ BitmapsOK'
    BY <1>5, BatMoves DEF WriteData, BitmapsOK, bitmapVars
  <2>2. DiskOK'
    <3>1. [i \in BlockSectors |-> call.val] \in [BlockSectors -> Data]
      BY <1>0 DEF CallRecords
    <3>2. PICK W :
            data' = [data EXCEPT ![call.slot] =
              [i \in BlockSectors |-> IF i \in W THEN [j \in BlockSectors |-> call.val][i] ELSE @[i]]]
      BY <1>5 DEF WriteData, WriteSlot
    <3>3. UNCHANGED <<end, footers>>
      BY <1>5 DEF WriteData
    <3>4. QED
      BY <3>1, <3>2, <3>3, DataType DEF DiskOK
  <2>3. Goto("setBits") \/ Return("error")
    BY <1>5 DEF WriteData, WriteSlot
  <2>4. CASE Return("error")
    BY <1>5, <2>1, <2>2, <2>4, ReturnOK DEF WriteData
  <2>5. CASE Goto("setBits")
    <3>1. call' \in CallRecords /\ call'.op = call.op /\ call'.pc = "setBits"
      BY <1>0, <2>5 DEF CallRecords, Goto
    <3>2. QED
      BY <1>0, <1>5, <2>1, <2>2, <2>5, <3>1, UpdateCallOK DEF WriteData, At, Goto
  <2>6. QED
    BY <2>3, <2>4, <2>5
<1>6. ASSUME SetBits PROVE Shape'
  <2>1. BatInv' /\ DiskOK'
    BY <1>6, BatMoves DEF SetBits, DiskOK, diskVars
  <2>2. BitmapsOK'
    BY <1>6, BitmapMoves, CurrSectorsType DEF SetBits
  <2>3. NextBlock("readEntry") \/ Goto("flushBat") \/ Return("ok")
    BY <1>6 DEF SetBits
  <2>4. CASE Return("ok")
    BY <1>6, <2>1, <2>2, <2>4, ReturnOK DEF SetBits
  <2>5. CASE NextBlock("readEntry") \/ Goto("flushBat")
    <3>1. call' \in CallRecords /\ call'.op = call.op /\ call'.pc \in {"readEntry", "flushBat"}
      BY <1>0, <2>5, CurrBlockType DEF CallRecords, Goto, NextBlock
    <3>2. QED
      BY <1>0, <1>6, <2>1, <2>2, <2>5, <3>1, UpdateCallOK DEF SetBits, At, Goto, NextBlock
  <2>6. QED
    BY <2>3, <2>4, <2>5
<1>7. ASSUME ResetBits PROVE Shape'
  <2>1. BatInv' /\ DiskOK'
    BY <1>7, BatMoves DEF ResetBits, DiskOK, diskVars, BAT!ReadEntry
  <2>2. BitmapsOK'
    BY <1>7, BitmapMoves, CurrSectorsType DEF ResetBits
  <2>3. CASE Return("ok")
    BY <1>7, <2>1, <2>2, <2>3, ReturnOK DEF ResetBits
  <2>4. CASE NextBlock("resetBits")
    <3>1. call' \in CallRecords /\ call'.op = call.op /\ call'.pc = "resetBits"
      BY <1>0, <2>4, CurrBlockType DEF CallRecords, NextBlock
    <3>2. QED
      BY <1>0, <1>7, <2>1, <2>2, <2>4, <3>1, UpdateCallOK DEF ResetBits, At, NextBlock
  <2>5. QED
    BY <1>7, <2>3, <2>4 DEF ResetBits
<1>8. ASSUME FlushBat PROVE Shape'
  <2>1. BatInv' /\ DiskOK' /\ BitmapsOK'
    BY <1>8, BatMoves DEF FlushBat, DiskOK, diskVars, BitmapsOK, bitmapVars
  <2>2. /\ call' \in CallRecords /\ call'.op = call.op /\ call'.pc = "flushMapper"
        /\ UNCHANGED reply
    BY <1>0, <1>8 DEF FlushBat, CallRecords, Goto, FlushFailed
  <2>3. QED
    BY <1>0, <1>8, <2>1, <2>2, UpdateCallOK DEF FlushBat
<1>9. ASSUME FlushMapper PROVE Shape'
  <2>1. BatInv' /\ DiskOK' /\ BitmapsOK'
    BY <1>9, BatMoves, BitmapMoves DEF FlushMapper, DiskOK, diskVars
  <2>2. /\ call' \in CallRecords /\ call'.op = call.op /\ call'.pc = "fsync"
        /\ UNCHANGED reply
    BY <1>0, <1>9 DEF FlushMapper, CallRecords, Goto, FlushFailed
  <2>3. QED
    BY <1>0, <1>9, <2>1, <2>2, UpdateCallOK DEF FlushMapper
<1>10. ASSUME FlushReturns PROVE Shape'
  <2>1. BatInv' /\ DiskOK' /\ BitmapsOK'
    BY <1>10, BatMoves DEF FlushReturns, DiskOK, diskVars, BitmapsOK, bitmapVars
  <2>2. QED
    BY <1>10, <2>1, ReturnOK DEF FlushReturns
<1>11. ASSUME CloseReturns PROVE Shape'
  <2>1. DiskOK' /\ BitmapsOK'
    BY <1>11, BitmapMoves DEF CloseReturns, DiskOK, diskVars
  <2>2. QED
    BY <1>11, <2>1, ReturnOK, CloseRelease
<1>12. ASSUME ScanBlock PROVE Shape'
  <2>1. DiskOK' /\ BitmapsOK'
    BY <1>12, BitmapMoves DEF ScanBlock, DiskOK, diskVars, OpenFails
  <2>2. CASE OpenFails
    BY <2>1, <2>2, DropSessionOK DEF OpenFails
  <2>3. CASE /\ BAT!ReadBAT
             /\ UNCHANGED session
             /\ \/ ScanNext
                \/ \E x \in Slots :
                     call' = [call EXCEPT !.pc = "fillUnset", !.slot = x] /\ UNCHANGED reply
    <3>1. BatInv'
      BY <2>3, BatMoves
    <3>2. /\ call' \in CallRecords /\ call'.op = call.op /\ UNCHANGED reply
          /\ call'.pc = "fillUnset" => call'.slot \in Slots
          /\ call'.pc \in {"scan", "flushBat", "fillUnset"}
      <4>1. CASE ScanNext
        BY <4>1, ScanNextOK
      <4>2. CASE \E x \in Slots :
                   call' = [call EXCEPT !.pc = "fillUnset", !.slot = x] /\ UNCHANGED reply
        BY <1>0, <4>2 DEF CallRecords
      <4>3. QED
        BY <2>3, <4>1, <4>2
    <3>3. QED
      BY <1>0, <1>12, <2>1, <2>3, <3>1, <3>2, UpdateCallOK DEF ScanBlock, At
  <2>4. QED
    BY <1>12, <2>2, <2>3 DEF ScanBlock, BAT!ReadEntry
<1>13. ASSUME FillUnset PROVE Shape'
  <2>1. PICK W :
          data' = [data EXCEPT ![call.slot] =
                     [i \in BlockSectors |-> IF i \in W THEN BackgroundOf(call.cur)[i] ELSE @[i]]]
    BY <1>13 DEF FillUnset, WriteSlot
  <2>2. DiskOK'
    <3>1. call.cur \in Nat
      BY <1>0 DEF CallRecords
    <3>2. QED
      BY <1>13, <2>1, <3>1, DataType, BackgroundType DEF FillUnset, DiskOK
  <2>3. \/ Goto("setUnset") /\ UNCHANGED <<batVars, bitmapVars, session>>
        \/ OpenFails
    BY <1>13 DEF FillUnset, WriteSlot
  <2>4. BitmapsOK'
    BY <2>3, BitmapMoves DEF OpenFails
  <2>5. CASE OpenFails
    BY <2>2, <2>4, <2>5, DropSessionOK DEF OpenFails
  <2>6. CASE Goto("setUnset") /\ UNCHANGED <<batVars, bitmapVars, session>>
    <3>1. BatInv'
      BY <2>6, BatMoves
    <3>2. call' \in CallRecords /\ call'.op = call.op /\ call'.slot \in Slots
      BY <1>0, <1>13, <2>6 DEF Goto, CallRecords, FillUnset, At, CallOK
    <3>3. QED
      BY <1>0, <1>13, <2>2, <2>4, <2>6, <3>1, <3>2, UpdateCallOK DEF FillUnset, At, Goto
  <2>7. QED
    BY <2>3, <2>5, <2>6
<1>14. ASSUME SetUnset PROVE Shape'
  <2>1. BatInv' /\ DiskOK' /\ BitmapsOK'
    BY <1>14, BatMoves, BitmapMoves DEF SetUnset, DiskOK, diskVars
  <2>2. /\ call' \in CallRecords /\ call'.op = call.op /\ UNCHANGED reply
        /\ call'.pc \in {"scan", "flushBat"}
    BY <1>14, ScanNextOK DEF SetUnset
  <2>3. QED
    BY <1>0, <1>14, <2>1, <2>2, UpdateCallOK DEF SetUnset, At
<1>15. ASSUME OpenReturns PROVE Shape'
  <2>1. DiskOK' /\ BitmapsOK'
    BY <1>15, BitmapMoves DEF OpenReturns, DiskOK, diskVars
  <2>2. CASE Return("ok") /\ UNCHANGED <<batVars, bitmapVars, session>>
    BY <2>1, <2>2, ReturnOK, BatMoves
  <2>3. CASE DropSession(IF Dynamic /\ call.failed THEN "lost" ELSE "error")
    BY <2>1, <2>3, DropSessionOK
  <2>4. QED
    BY <1>15, <2>2, <2>3 DEF OpenReturns
<1>16. QED
  BY <1>1, <1>2, <1>3, <1>4, <1>5, <1>6, <1>7, <1>8, <1>9, <1>10, <1>11, <1>12, <1>13,
     <1>14, <1>15, AnywhereOK DEF Step

\* A call that returns at once.
LEMMA IdleOK ==
    ASSUME CallOK, SessionOK, UNCHANGED <<session, call>>,
           reply'.kind \in {"none", "ok", "error", "lost"}
    PROVE  CallOK' /\ SessionOK' /\ ReplyOK'
  BY DEF CallOK, SessionOK, ReplyOK

\* Reading sectors reads the table, or could not, and populates bitmaps.
LEMMA ReadMoves ==
    ASSUME NEW r, ReadSectors(r) \/ ReadSectorsMissesError(r) \/ ReadSectorsFails
    PROVE  /\ BAT!ReadBAT \/ UNCHANGED batVars
           /\ UNCHANGED bitmapVars \/ (Mapper!KeepBits /\ KeepsMedia)
           /\ UNCHANGED diskVars /\ UNCHANGED <<session, call>>
           /\ reply'.kind \in {"ok", "error"}
<1>1. CASE ReadSectors(r)
  BY <1>1 DEF ReadSectors, PopulateBitmaps, Reply
<1>2. CASE ReadSectorsMissesError(r)
  BY <1>2 DEF ReadSectorsMissesError, ReadAnywhere, PopulateBitmaps, Reply
<1>3. CASE ReadSectorsFails
  BY <1>3 DEF ReadSectorsFails, PopulateBitmaps, Refuse, Reply
<1>4. QED
  BY <1>1, <1>2, <1>3

\* Every call begins in the shape.
LEMMA ClientShape ==
    ASSUME Shape, Client
    PROVE  Shape'
<1> USE DEF Shape
<1>1. ASSUME NEW flags \in Modes, Open(flags) PROVE Shape'
  <2>1. BatInv' /\ DiskOK' /\ BitmapsOK'
    BY <1>1, BatMoves DEF Open, DiskOK, diskVars, BitmapsOK, bitmapVars
  <2>2. /\ session' \in [open : BOOLEAN, flags : SUBSET Flags]
        /\ session'.open /\ session'.flags \in Modes
    BY <1>1, ModesAssumption DEF Open
  <2>3. CASE Begin("open", "scan", <<0, 0>>, Zero)
    <3>1. <<0, 0>> \in Nat \X Nat /\ Zero \in Data
      BY DataAssumption
    <3>2. QED
      BY <2>1, <2>2, <2>3, <3>1, BeginOK
  <2>4. CASE reply' = Reply("ok", <<>>) /\ UNCHANGED call
    <3>1. CallOK' /\ ReplyOK'
      BY <2>4 DEF CallOK, ReplyOK, Reply
    <3>2. SessionOK'
      BY <2>2, <2>4 DEF SessionOK
    <3>3. QED
      BY <2>1, <3>1, <3>2
  <2>5. QED
    BY <1>1, <2>3, <2>4 DEF Open
<1>2. ASSUME NEW r \in Ranges, ReadSectors(r) \/ ReadSectorsMissesError(r) \/ ReadSectorsFails
      PROVE  Shape'
  <2>1. BatInv' /\ DiskOK' /\ BitmapsOK'
    BY <1>2, ReadMoves, BatMoves, BitmapMoves DEF DiskOK, diskVars
  <2>2. QED
    BY <1>2, <2>1, ReadMoves, IdleOK
<1>3. ASSUME NEW r \in Ranges, NEW v \in Data, NEW pc \in {"readEntry", "resetBits"},
             NEW op \in {"write", "discard"},
             UNCHANGED <<batVars, bitmapVars, diskVars, session>>,
             Ready, Refuse \/ Begin(op, pc, r, v)
      PROVE  Shape'
  <2>1. BatInv' /\ DiskOK' /\ BitmapsOK'
    BY <1>3, BatMoves DEF DiskOK, diskVars, BitmapsOK, bitmapVars
  <2>2. CASE Refuse
    BY <1>3, <2>1, <2>2, RefuseOK
  <2>3. CASE Begin(op, pc, r, v)
    <3>1. session' \in [open : BOOLEAN, flags : SUBSET Flags] /\ session'.open /\ session'.flags \in Modes
      BY <1>3 DEF SessionOK, Ready
    <3>2. QED
      BY <1>3, <2>1, <2>3, <3>1, BeginOK, RangeType
  <2>4. QED
    BY <1>3, <2>2, <2>3
<1>4. ASSUME NEW r \in Ranges, NEW v \in Written, WriteSectors(r, v) PROVE Shape'
  BY <1>3, <1>4, DataAssumption DEF WriteSectors
<1>5. ASSUME NEW r \in Ranges, DiscardSectors(r) PROVE Shape'
  BY <1>3, <1>5, DataAssumption DEF DiscardSectors
<1>6. ASSUME OpenRefused \/ ReadSectorsFails PROVE Shape'
  <2>1. /\ BAT!ReadBAT \/ UNCHANGED batVars
        /\ UNCHANGED bitmapVars \/ Mapper!KeepBits
        /\ UNCHANGED diskVars /\ UNCHANGED session /\ Refuse
    BY <1>6 DEF OpenRefused, ReadSectorsFails, PopulateBitmaps
  <2>2. BatInv' /\ DiskOK' /\ BitmapsOK'
    BY <2>1, BatMoves, BitmapMoves DEF DiskOK, diskVars
  <2>3. QED
    BY <2>1, <2>2, RefuseOK
<1>7. ASSUME InvalidateCaches PROVE Shape'
  <2>1. BatInv' /\ DiskOK' /\ BitmapsOK'
    BY <1>7, BatMoves DEF InvalidateCaches, DiskOK, diskVars, BitmapsOK, bitmapVars
  <2>2. UNCHANGED <<session, call>> /\ reply'.kind = "ok"
    BY <1>7 DEF InvalidateCaches, Reply
  <2>3. QED
    BY <2>1, <2>2, IdleOK
<1>8. ASSUME Flush \/ Close PROVE Shape'
  <2>1. BatInv' /\ DiskOK' /\ BitmapsOK'
    BY <1>8, BatMoves DEF Flush, Close, DiskOK, diskVars, BitmapsOK, bitmapVars
  <2>2. <<0, 0>> \in Nat \X Nat /\ Zero \in Data
    BY DataAssumption
  <2>3. session' \in [open : BOOLEAN, flags : SUBSET Flags] /\ session'.open /\ session'.flags \in Modes
    BY <1>8 DEF SessionOK, Ready, Flush, Close
  <2>4. QED
    BY <1>8, <2>1, <2>2, <2>3, BeginOK DEF Flush, Close
<1>9. QED
  BY <1>1, <1>2, <1>4, <1>5, <1>6, <1>7, <1>8 DEF Client

\* Every step keeps the shape.
LEMMA NextShape == Shape /\ [Next]_vars => Shape'
<1> SUFFICES ASSUME Shape, [Next]_vars PROVE Shape'
  OBVIOUS
<1>1. CASE ProcessDies
  <2>1. DiskOK' /\ BitmapsOK'
    BY <1>1, BitmapMoves DEF ProcessDies, DiskOK, diskVars, Shape
  <2>2. QED
    BY <1>1, <2>1, DropSessionOK DEF ProcessDies, Shape
<1>2. CASE UNCHANGED vars
  BY <1>2, BatMoves
     DEF vars, bitmapVars, diskVars, Shape, DiskOK, BitmapsOK, CallOK, SessionOK, ReplyOK
<1>3. QED
  BY <1>1, <1>2, StepShape, ClientShape DEF Next

\* The new file has the shape.
LEMMA InitShape == Init => Shape
<1> SUFFICES ASSUME Init PROVE Shape
  OBVIOUS
<1>1. BatInv
  BY DEF Init, BAT!Init, BAT!EmptyTable, BAT!Tables, BatInv, BAT!BatTypeOK, BatCoherent,
         BAT!BatCoherent
<1>2. BitmapsOK
  BY DEF Init, BitmapsOK, Mapper!Bitmaps
<1>3. DiskOK
  BY SizeAssumption, DataAssumption DEF Init, DiskOK
<1>4. CallOK /\ SessionOK /\ ReplyOK
  <2>1. CallOK /\ ReplyOK
    BY NoCallOK DEF Init, CallOK, ReplyOK, Reply
  <2>2. Closed \in [open : BOOLEAN, flags : SUBSET Flags] /\ ~Closed.open
    BY DEF Closed
  <2>3. QED
    BY <2>1, <2>2 DEF Init, SessionOK
<1>5. QED
  BY <1>1, <1>2, <1>3, <1>4 DEF Shape

\* The types are invariant, with what makes them inductive: Shape.
THEOREM ShapeInvariance == Spec => []Shape
  BY InitShape, NextShape, PTL DEF Spec

\* The variables of an open VHD, its caches and its calls keep their types: TypeOK.
THEOREM TypeCorrectness == Spec => []TypeOK
<1>1. Shape => TypeOK
  BY DEF Shape, TypeOK, BatInv, BitmapsOK, DiskOK, CallOK, CallRecords, SessionOK, ReplyOK
<1>2. QED
  BY <1>1, ShapeInvariance, PTL

\* A cached table that is not marked dirty is the one in the file, through failed
\* writes of it, as long as it can be read: an error code taken for an entry sends
\* data over the table, behind the back of its cache: BatCoherent.
THEOREM BatCoherence ==
    ASSUME "batRead" \notin Faults
    PROVE  Spec => []BatCoherent
<1>1. Shape => BatCoherent
  BY DEF Shape, BatInv
<1>2. QED
  BY <1>1, ShapeInvariance, PTL

-----------------------------------------------------------------------------
(***************************************************************************)
(* The places of the blocks                                                *)
(***************************************************************************)
\* While a block is appended, its place is the last one of the file, no table has it,
\* and in the end there is no footer in it.
Appending ==
    /\ call.pc \in {"appendBitmap", "fill"} =>
         /\ end = call.slot + 1
         /\ \A b \in Blocks : BAT!Table[b] # call.slot /\ batOnMedia[b] # call.slot
    /\ call.pc = "fill" => call.slot \notin footers

\* The tables are sound, and so they stay when the append places its block.
TablesInv == TablesSound /\ Appending

\* Entries are slots or free, and numbers; Bogus is behind all slots.
LEMMA TableType ==
    ASSUME Shape
    PROVE  /\ \A b \in Blocks : BAT!Table[b] \in Slots \cup {Unused} /\ batOnMedia[b] \in Slots \cup {Unused}
           /\ Unused \notin Slots /\ Slots \subseteq Nat /\ end \in Nat /\ footers \subseteq Nat
           /\ Bogus \in Nat /\ Bogus \notin Slots /\ \A x \in Slots : x < Bogus
  BY SizeAssumption
     DEF Shape, BatInv, BAT!BatTypeOK, BAT!Tables, BAT!Table, DiskOK, Unused, Bogus, Slots

\* The tables stay sound when entries go to the file or the cache is dropped, as long
\* as the file does not shrink and no footer is written into a block.
LEMMA SoundMoves ==
    ASSUME Shape, Shape', TablesSound, TablesMove,
           \A x \in Slots : x < end => x < end' /\ (x \in footers' => x \in footers)
    PROVE  TablesSound'
<1> DEFINE T == BAT!Table
           M == batOnMedia
           T2 == BAT!Table'
           M2 == batOnMedia'
<1>1. /\ \A b \in Blocks : T[b] \in Slots \cup {Unused} /\ M[b] \in Slots \cup {Unused}
      /\ \A b \in Blocks : T2[b] \in Slots \cup {Unused} /\ M2[b] \in Slots \cup {Unused}
  <2>1. BAT!Table' \in BAT!Tables /\ batOnMedia' \in BAT!Tables
    BY DEF Shape, BatInv, BAT!BatTypeOK, BAT!Table
  <2>2. QED
    BY <2>1, TableType DEF BAT!Tables
<1>2. /\ \A b \in Blocks : T[b] # Unused =>
           T[b] < end /\ T[b] \notin footers /\ \A c \in Blocks \ {b} : T[c] # T[b]
      /\ \A b \in Blocks : M[b] # Unused =>
           M[b] < end /\ M[b] \notin footers /\ \A c \in Blocks \ {b} : M[c] # M[b]
      /\ \A b, c \in Blocks : T[b] = M[c] /\ M[c] # Unused => b = c
  BY DEF TablesSound, SoundTable
<1>3. /\ \A b \in Blocks : M2[b] \in {M[b], T[b]}
      /\ T2 = T \/ T2 = M2
  BY DEF TablesMove
<1> HIDE DEF T, M, T2, M2
<1>4. \A b \in Blocks : M2[b] # Unused =>
        M2[b] < end' /\ M2[b] \notin footers' /\ \A c \in Blocks \ {b} : M2[c] # M2[b]
  BY <1>1, <1>2, <1>3
<1>5. \A b \in Blocks : T2[b] # Unused =>
        T2[b] < end' /\ T2[b] \notin footers' /\ \A c \in Blocks \ {b} : T2[c] # T2[b]
  BY <1>1, <1>2, <1>3, <1>4
<1>6. \A b, c \in Blocks : T2[b] = M2[c] /\ M2[c] # Unused => b = c
  BY <1>1, <1>2, <1>3, <1>4
<1>7. QED
  BY <1>4, <1>5, <1>6 DEF TablesSound, SoundTable, T2, M2

\* So they do in a step that does not touch the end of the file.
LEMMA QuietTables ==
    ASSUME Shape, Shape', TablesInv, TablesMove, UNCHANGED <<end, footers>>,
           call'.pc \notin {"appendBitmap", "fill"}
    PROVE  TablesInv'
  BY SoundMoves DEF TablesInv, Appending

\* Where a call is when it has returned, ...
LEMMA ReturnPc ==
    ASSUME NEW kind, Return(kind)
    PROVE  call' = NoCall /\ call'.pc = "none" /\ call'.op = "none"
  BY NoCallOK DEF Return

\* ... and when it goes on.
LEMMA GotoPc ==
    ASSUME call \in CallRecords, NEW pc, Goto(pc) \/ NextBlock(pc) \/ FlushFailed(pc)
    PROVE  call'.pc = pc /\ call'.op = call.op
  BY DEF Goto, NextBlock, FlushFailed, CallRecords

\* No step of a call makes two blocks share a place.
LEMMA StepTables ==
    ASSUME Shape, Shape', TablesInv, Step
    PROVE  TablesInv'
<1>0. call \in CallRecords /\ BatInv
  BY DEF Shape, CallOK
<1>1. ASSUME ReadBlockEntry PROVE TablesInv'
  <2>1. CASE call'.pc # "appendFooter"
    <3>1. TablesMove
      BY <1>0, <1>1, BatMoves
         DEF ReadBlockEntry, BAT!ReadEntry, BAT!ReadEntryFails, BAT!vars, batVars
    <3>2. call'.pc \notin {"appendBitmap", "fill"} /\ UNCHANGED <<end, footers>>
      BY <1>0, <1>1 DEF ReadBlockEntry, Goto, diskVars, CallRecords
    <3>3. QED
      BY <3>1, <3>2, QuietTables
  <2>2. CASE call'.pc = "appendFooter"
    <3>1. TablesMove
      BY <1>0, <1>1, BatMoves
         DEF ReadBlockEntry, BAT!ReadEntry, BAT!ReadEntryFails, BAT!vars, batVars
    <3>2. QED
      BY <1>1, <2>2, <3>1, QuietTables DEF ReadBlockEntry, diskVars
  <2>3. QED
    BY <2>1, <2>2
<1>2. ASSUME AppendFooter PROVE TablesInv'
  <2>1. TablesMove
    BY <1>0, <1>2, BatMoves DEF AppendFooter
  <2>2. TablesSound'
    <3>1. \/ UNCHANGED <<end, footers>>
          \/ end' = end + 1 /\ footers' \subseteq footers \cup {end + 1}
      BY <1>2 DEF AppendFooter
    <3>2. \A x \in Slots : x < end => x < end' /\ (x \in footers' => x \in footers)
      BY <3>1, TableType
    <3>3. QED
      BY <2>1, <3>2, SoundMoves DEF TablesInv
  <2>3. Appending'
    <3>1. CASE Return("error")
      BY <3>1 DEF Return, NoCall, Appending
    <3>2. CASE /\ call' = [call EXCEPT !.pc = "appendBitmap", !.slot = end]
               /\ end' = end + 1 /\ UNCHANGED batVars
      <4>1. call'.pc = "appendBitmap" /\ call'.slot = end
        BY <1>0, <3>2 DEF CallRecords
      <4>2. \A b \in Blocks : BAT!Table[b] # end /\ batOnMedia[b] # end
        <5>1. end \in Slots
          BY <1>2, <3>2, SizeAssumption DEF AppendFooter, Shape, DiskOK, Slots, Bogus
        <5>2. QED
          BY <5>1, TableType DEF TablesInv, TablesSound, SoundTable
      <4>3. BAT!Table' = BAT!Table /\ batOnMedia' = batOnMedia
        BY <3>2 DEF batVars, BAT!Table, BAT!StateValid
      <4>4. QED
        BY <3>2, <4>1, <4>2, <4>3 DEF Appending
    <3>3. QED
      BY <1>2, <3>1, <3>2 DEF AppendFooter
  <2>4. QED
    BY <2>2, <2>3 DEF TablesInv
<1>3. ASSUME AppendBitmap PROVE TablesInv'
  <2>1. TablesMove
    BY <1>0, <1>3, BatMoves DEF AppendBitmap
  <2>2. TablesSound'
    BY <1>3, <2>1, SoundMoves, TableType DEF TablesInv, AppendBitmap
  <2>3. Appending'
    <3>1. CASE Return("error")
      BY <3>1 DEF Return, NoCall, Appending
    <3>2. CASE Goto("fill") /\ footers' = footers \ {call.slot}
      <4>1. call'.pc = "fill" /\ call'.slot = call.slot
        BY <1>0, <3>2 DEF Goto, CallRecords
      <4>2. BAT!Table' = BAT!Table /\ batOnMedia' = batOnMedia /\ end' = end
        BY <1>3 DEF AppendBitmap, batVars, BAT!Table, BAT!StateValid
      <4>3. call.pc = "appendBitmap"
        BY <1>3 DEF AppendBitmap, At
      <4>4. QED
        BY <3>2, <4>1, <4>2, <4>3 DEF TablesInv, Appending
    <3>3. QED
      BY <1>3, <3>1, <3>2 DEF AppendBitmap
  <2>4. QED
    BY <2>2, <2>3 DEF TablesInv
<1>4. ASSUME FillAndPlaceEntry PROVE TablesInv'
  <2>0. UNCHANGED <<end, footers>> /\ call.pc = "fill" /\ call.slot \in Slots
    BY <1>4 DEF FillAndPlaceEntry, At, Shape, CallOK
  <2>1. CASE Return("error") /\ UNCHANGED batVars
    BY <1>0, <2>0, <2>1, BatMoves, QuietTables DEF Return, NoCall
  <2>2. CASE /\ BAT!WriteEntry(CurrBlock, call.slot)
             /\ call' = [call EXCEPT !.pc = "writeData", !.fresh = TRUE, !.flush = TRUE]
    <3>1. call'.pc = "writeData"
      BY <1>0, <2>2 DEF CallRecords
    <3>2. BAT!Table' = [BAT!Table EXCEPT ![CurrBlock] = call.slot] /\ batOnMedia' = batOnMedia
      BY <1>0, <2>0, <2>2, WriteEntryOK
    <3>3. BAT!Table \in BAT!Tables
      BY <1>0 DEF BatInv, BAT!BatTypeOK, BAT!Table
    <3>4. /\ call.slot \in Nat /\ call.slot < end /\ call.slot \notin footers
          /\ \A b \in Blocks : BAT!Table[b] # call.slot /\ batOnMedia[b] # call.slot
      BY <2>0, TableType DEF TablesInv, Appending
    <3>5. SoundTable(batOnMedia)'
      BY <2>0, <3>2 DEF TablesInv, TablesSound, SoundTable
    <3>6. \A b \in Blocks : BAT!Table'[b] = BAT!Table[b] \/ (b = CurrBlock /\ BAT!Table'[b] = call.slot)
      BY <3>2, <3>3 DEF BAT!Tables
    <3>7. /\ \A b \in Blocks : BAT!Table'[b] # Unused =>
                /\ BAT!Table'[b] < end
                /\ BAT!Table'[b] \notin footers
                /\ \A c \in Blocks \ {b} : BAT!Table'[c] # BAT!Table'[b]
          /\ \A b, c \in Blocks :
               BAT!Table'[b] = batOnMedia[c] /\ batOnMedia[c] # Unused => b = c
      BY <3>4, <3>6 DEF TablesInv, TablesSound, SoundTable
    <3>8. TablesSound'
      BY <2>0, <3>2, <3>5, <3>7 DEF TablesSound, SoundTable
    <3>9. QED
      BY <3>1, <3>8 DEF TablesInv, Appending
  <2>3. QED
    BY <1>4, <2>1, <2>2 DEF FillAndPlaceEntry, WriteSlot
<1>5. ASSUME WriteData PROVE TablesInv'
  <2>1. TablesMove
    BY <1>0, <1>5, BatMoves DEF WriteData
  <2>2. call'.pc \in {"setBits", "none"}
    BY <1>0, <1>5, GotoPc, ReturnPc DEF WriteData, WriteSlot
  <2>3. TablesSound'
    BY <1>5, <2>1, SoundMoves, TableType DEF WriteData, TablesInv
  <2>4. QED
    BY <2>2, <2>3 DEF TablesInv, Appending
<1>6. ASSUME SetBits PROVE TablesInv'
  <2>1. TablesMove /\ UNCHANGED <<end, footers>>
    BY <1>0, <1>6, BatMoves DEF SetBits, diskVars
  <2>2. call'.pc \in {"readEntry", "flushBat", "none"}
    BY <1>0, <1>6, GotoPc, ReturnPc DEF SetBits
  <2>3. QED
    BY <2>1, <2>2, QuietTables
<1>7. ASSUME ResetBits PROVE TablesInv'
  <2>1. TablesMove /\ UNCHANGED <<end, footers>>
    BY <1>0, <1>7, BatMoves DEF ResetBits, diskVars, BAT!ReadEntry
  <2>2. call'.pc \in {"resetBits", "none"}
    BY <1>0, <1>7, GotoPc, ReturnPc DEF ResetBits
  <2>3. QED
    BY <2>1, <2>2, QuietTables
<1>8. ASSUME FlushBat \/ FlushMapper \/ FlushReturns PROVE TablesInv'
  <2>1. TablesMove /\ UNCHANGED <<end, footers>>
    BY <1>0, <1>8, BatMoves DEF FlushBat, FlushMapper, FlushReturns, diskVars
  <2>2. call'.pc \in {"flushMapper", "fsync", "none"}
    BY <1>0, <1>8, GotoPc, ReturnPc DEF FlushBat, FlushMapper, FlushReturns
  <2>3. QED
    BY <2>1, <2>2, QuietTables
<1>9. ASSUME CloseReturns PROVE TablesInv'
  <2>1. TablesMove /\ UNCHANGED <<end, footers>>
    BY <1>0, <1>9, CloseRelease DEF CloseReturns, diskVars
  <2>2. call'.pc = "none"
    BY <1>0, <1>9, CloseRelease, ReturnPc
  <2>3. QED
    BY <2>1, <2>2, QuietTables
<1>10. ASSUME ScanBlock \/ SetUnset PROVE TablesInv'
  <2>1. TablesMove /\ UNCHANGED <<end, footers>>
    BY <1>0, <1>10, BatMoves
       DEF ScanBlock, SetUnset, OpenFails, DropSession, diskVars, BAT!ReadEntry
  <2>2. call'.pc \in {"scan", "fillUnset", "flushBat", "none"}
    <3>1. CASE ScanNext
      BY <3>1, ScanNextOK DEF Shape
    <3>2. CASE OpenFails
      BY <3>2, ReturnPc DEF OpenFails, DropSession
    <3>3. CASE \E x \in Slots : call' = [call EXCEPT !.pc = "fillUnset", !.slot = x]
      BY <1>0, <3>3 DEF CallRecords
    <3>4. QED
      BY <1>10, <3>1, <3>2, <3>3 DEF ScanBlock, SetUnset
  <2>3. QED
    BY <2>1, <2>2, QuietTables
<1>11. ASSUME FillUnset PROVE TablesInv'
  <2>1. TablesMove /\ UNCHANGED <<end, footers>>
    BY <1>0, <1>11, BatMoves DEF FillUnset, WriteSlot, OpenFails, DropSession
  <2>2. call'.pc \in {"setUnset", "none"}
    BY <1>0, <1>11, GotoPc, ReturnPc DEF FillUnset, WriteSlot, OpenFails, DropSession
  <2>3. QED
    BY <2>1, <2>2, QuietTables
<1>12. ASSUME OpenReturns PROVE TablesInv'
  <2>1. TablesMove /\ UNCHANGED <<end, footers>>
    BY <1>0, <1>12, BatMoves DEF OpenReturns, DropSession, diskVars
  <2>2. call'.pc = "none"
    BY <1>12, ReturnPc DEF OpenReturns, DropSession
  <2>3. QED
    BY <2>1, <2>2, QuietTables
<1>13. ASSUME WriteDataAnywhere PROVE TablesInv'
  <2>1. TablesMove /\ call'.pc = "none"
    BY <1>13, AnywhereOK
  <2>2. \A x \in Slots : x < end => x < end' /\ (x \in footers' => x \in footers)
    BY <1>13, AnywhereOK, TableType DEF diskVars
  <2>3. TablesSound'
    BY <2>1, <2>2, SoundMoves DEF TablesInv
  <2>4. QED
    BY <2>1, <2>3 DEF TablesInv, Appending
<1>14. QED
  BY <1>1, <1>2, <1>3, <1>4, <1>5, <1>6, <1>7, <1>8, <1>9, <1>10, <1>11, <1>12, <1>13 DEF Step

\* What a call does when it begins.
LEMMA ClientMoves ==
    ASSUME Client
    PROVE  /\ UNCHANGED batVars \/ BAT!ReadBAT \/ BAT!InvalidateCache
           /\ UNCHANGED <<end, footers>>
  BY ReadMoves
     DEF Client, Open, OpenRefused, WriteSectors, DiscardSectors, InvalidateCaches, Flush, Close,
         diskVars

\* Where a call begins.
LEMMA ClientBegins ==
    ASSUME Shape, Client
    PROVE  /\ call = NoCall /\ call.op = "none"
           /\ call'.pc \in {"none", "scan", "readEntry", "resetBits", "flushBat"}
<1>1. call = NoCall
  BY DEF Client, Open, OpenRefused, ReadSectors, ReadSectorsMissesError, WriteSectors,
         DiscardSectors, ReadSectorsFails, InvalidateCaches, Flush, Close, Ready, Shape, SessionOK
<1>2. ASSUME UNCHANGED call
      PROVE  call'.pc = "none"
  BY <1>1, <1>2, NoCallOK
<1>3. ASSUME NEW op, NEW pc \in {"scan", "readEntry", "resetBits", "flushBat"}, NEW r, NEW v,
             Begin(op, pc, r, v)
      PROVE  call'.pc = pc
  BY <1>3 DEF Begin, NoCall
<1>4. QED
  BY <1>1, <1>2, <1>3, NoCallOK
     DEF Client, Open, OpenRefused, ReadSectors, ReadSectorsMissesError, WriteSectors,
         DiscardSectors, ReadSectorsFails, InvalidateCaches, Flush, Close, Refuse

\* No step does.
LEMMA NextTables == Shape /\ Shape' /\ TablesInv /\ [Next]_vars => TablesInv'
<1> SUFFICES ASSUME Shape, Shape', TablesInv, [Next]_vars PROVE TablesInv'
  OBVIOUS
<1>0. BatInv
  BY DEF Shape
<1>1. CASE Client
  <2>1. TablesMove /\ UNCHANGED <<end, footers>>
    BY <1>0, <1>1, ClientMoves, BatMoves
  <2>2. call'.pc \notin {"appendBitmap", "fill"}
    BY <1>1, ClientBegins
  <2>3. QED
    BY <2>1, <2>2, QuietTables
<1>2. CASE ProcessDies
  BY <1>0, <1>2, BatMoves, QuietTables DEF ProcessDies, DropSession, Return, NoCall, diskVars
<1>3. CASE UNCHANGED vars
  <2>1. TablesMove
    BY <1>0, <1>3, BatMoves DEF vars
  <2>2. TablesSound'
    BY <1>3, <2>1, SoundMoves DEF vars, diskVars, TablesInv
  <2>3. Appending'
    BY <1>3 DEF vars, diskVars, batVars, TablesInv, Appending, BAT!Table, BAT!StateValid
  <2>4. QED
    BY <2>2, <2>3 DEF TablesInv
<1>4. QED
  BY <1>1, <1>2, <1>3, StepTables DEF Next

\* The new file has no blocks.
LEMMA InitTables == Init => TablesInv
<1> SUFFICES ASSUME Init PROVE TablesInv
  OBVIOUS
<1>1. \A b \in Blocks : BAT!Table[b] = Unused /\ batOnMedia[b] = Unused
  BY DEF Init, BAT!Init, BAT!EmptyTable, BAT!Table
<1>2. call.pc = "none"
  BY NoCallOK DEF Init
<1>3. QED
  BY <1>1, <1>2 DEF TablesInv, TablesSound, SoundTable, Appending

\* Wherever an append, a flush or the process stops, no two blocks share a place in the
\* file, in the cached table, in the one in the file, or across them, as long as the
\* table can be read, without which data may go over it: TablesSound.
THEOREM BlocksKeepPlaces ==
    ASSUME "batRead" \notin Faults
    PROVE  Spec => []TablesSound
<1>1. Shape /\ TablesInv /\ [Next]_vars => Shape' /\ TablesInv'
  BY NextShape, NextTables
<1>2. Init => Shape /\ TablesInv
  BY InitShape, InitTables
<1>3. TablesInv => TablesSound
  BY DEF TablesInv
<1>4. QED
  BY <1>1, <1>2, <1>3, PTL DEF Spec

-----------------------------------------------------------------------------
(***************************************************************************)
(* The footer at the end of the file                                       *)
(***************************************************************************)

\* Products of natural numbers are monotone.
LEMMA ProductMonotone ==
    ASSUME NEW m \in Nat, NEW n \in Nat, NEW d \in Nat, m <= n
    PROVE  m * d <= n * d
<1>1. PICK k \in Nat : n = m + k
  <2>1. n - m \in Nat /\ n = m + (n - m)
    OBVIOUS
  <2>2. QED
    BY <2>1
<1>2. n * d = m * d + k * d /\ k * d \in Nat
  BY <1>1, SMT
<1>3. QED
  BY <1>2, SMT

\* The sizes are natural numbers.
LEMMA SizeType == VhdSizeInSectors \in Nat /\ NumBlocks \in Nat /\ SectorsPerBlock \in Nat \ {0}
  BY SizeAssumption

\* The quotient of a number below n * d is below n.
LEMMA DivBelow ==
    ASSUME NEW s \in Nat, NEW d \in Nat \ {0}, NEW n \in Nat, s < n * d
    PROVE  s \div d \in 0 .. n - 1
<1> DEFINE q == s \div d
<1>1. q \in Nat /\ s >= d * q /\ d * q = q * d
  BY DivMod, SMT
<1> HIDE DEF q
<1>2. ~(n <= q)
  <2>1. SUFFICES ASSUME n <= q PROVE FALSE
    OBVIOUS
  <2>2. n * d <= q * d
    BY <1>1, <2>1, ProductMonotone
  <2>3. QED
    BY <1>1, <2>2, SMT
<1>3. QED
  BY <1>1, <1>2, SMT DEF q

\* What is not in the block of s is behind it.
LEMMA DivNext ==
    ASSUME NEW s \in Nat, NEW l \in Nat, NEW d \in Nat \ {0}, s <= l, s \div d # l \div d
    PROVE  (s \div d + 1) * d <= l
<1> DEFINE q == s \div d
           p == l \div d
<1>1. q \in Nat /\ p \in Nat /\ q # p
  BY DivMod
<1>2. s >= q * d /\ s < (q + 1) * d /\ l >= p * d /\ l < (p + 1) * d
  BY DivMod, SMT
<1> HIDE DEF q, p
<1>3. q + 1 <= p
  <2>1. SUFFICES ASSUME p + 1 <= q PROVE FALSE
    BY <1>1, SMT
  <2>2. (p + 1) * d <= q * d
    BY <1>1, <2>1, ProductMonotone
  <2>3. QED
    BY <1>1, <1>2, <2>2, SMT
<1>4. (q + 1) * d <= p * d
  BY <1>1, <1>3, ProductMonotone
<1>5. (q + 1) * d <= l
  BY <1>1, <1>2, <1>4, SMT
<1>6. QED
  BY <1>5 DEF q

\* Every sector of the disk is in one of its blocks, ...
LEMMA BlockOfSector ==
    ASSUME NEW s \in Sectors
    PROVE  SectorToBlockNumber(s) \in Blocks
<1>1. s \in Nat /\ s < NumBlocks * SectorsPerBlock
  BY SizeAssumption, SMT DEF Sectors
<1>2. QED
  BY <1>1, SizeType, DivBelow DEF SectorToBlockNumber, Blocks

\* ... and the block after that of s begins within the range if the range goes on.
LEMMA NextBlockInRange ==
    ASSUME NEW s \in Nat, NEW l \in Nat, s <= l, SectorToBlockNumber(s) # SectorToBlockNumber(l)
    PROVE  (SectorToBlockNumber(s) + 1) * SectorsPerBlock <= l
  BY SizeType, DivNext DEF SectorToBlockNumber

\* A write is at a sector of its range.
InRange ==
    call.op = "write" =>
      call.cur \in Sectors /\ call.last \in Sectors /\ call.cur <= call.last

\* The last sector is a footer, and no write goes anywhere but to a block.
FooterInv == FooterAtEnd /\ InRange /\ call.slot # Bogus

\* Every step of a call keeps a footer at the end of the file: the one that a new
\* bitmap replaces was copied behind the new block before.
LEMMA StepFooter ==
    ASSUME "batRead" \notin Faults, Shape, TablesInv, FooterInv, Step
    PROVE  FooterInv'
<1>0. call \in CallRecords /\ BatInv
  BY DEF Shape, CallOK
<1>a. ASSUME Return("ok") \/ Return("error") \/ Return("lost"), UNCHANGED <<end, footers>>
      PROVE FooterInv'
  BY <1>a, TableType, SizeAssumption
     DEF Return, NoCall, FooterInv, FooterAtEnd, InRange, Bogus
<1>b. ASSUME UNCHANGED <<end, footers>>, call'.op = call.op, call'.last = call.last, call'.cur = call.cur,
             call'.slot # Bogus
      PROVE FooterInv'
  BY <1>b DEF FooterInv, FooterAtEnd, InRange
<1>1. ASSUME ReadBlockEntry PROVE FooterInv'
  <2>1. call.op = "write"
    BY <1>1 DEF ReadBlockEntry, At
  <2>2. CurrBlock \in Blocks
    BY <2>1, BlockOfSector DEF FooterInv, InRange, CurrBlock
  <2>3. CASE Goto("appendFooter")
    BY <1>0, <1>1, <1>b, <2>3 DEF ReadBlockEntry, Goto, diskVars, CallRecords, FooterInv
  <2>4. CASE \E x \in Slots : call' = [call EXCEPT !.pc = "writeData", !.slot = x]
    <3>1. UNCHANGED <<end, footers>>
      BY <1>1 DEF ReadBlockEntry, diskVars
    <3>2. /\ call'.op = call.op /\ call'.last = call.last /\ call'.cur = call.cur
          /\ call'.slot \in Slots
      BY <1>0, <2>4 DEF CallRecords
    <3>3. QED
      BY <1>b, <3>1, <3>2, TableType
  <2>5. ~BAT!ReadEntry(CurrBlock, Bogus)
    BY <2>2, TableType, SizeAssumption DEF BAT!ReadEntry, Unused, Bogus
  <2>6. ASSUME NEW x \in Slots \cup {Bogus},
               BAT!ReadEntry(CurrBlock, x) \/ (CanFail("batRead") /\ BAT!ReadEntryFails(x))
        PROVE  x \in Slots
    BY <2>5, <2>6 DEF CanFail
  <2>7. CASE \E x \in Slots \cup {Bogus} :
               /\ BAT!ReadEntry(CurrBlock, x) \/ (CanFail("batRead") /\ BAT!ReadEntryFails(x))
               /\ call' = [call EXCEPT !.pc = "writeData", !.slot = x]
    <3>1. PICK x \in Slots \cup {Bogus} :
            /\ BAT!ReadEntry(CurrBlock, x) \/ (CanFail("batRead") /\ BAT!ReadEntryFails(x))
            /\ call' = [call EXCEPT !.pc = "writeData", !.slot = x]
      BY <2>7
    <3>2. x \in Slots
      BY <2>6, <3>1
    <3>3. QED
      BY <2>4, <3>1, <3>2
  <2>8. QED
    BY <1>1, <2>3, <2>7 DEF ReadBlockEntry
<1>2. ASSUME AppendFooter PROVE FooterInv'
  <2>1. /\ end \in footers
        /\ \/ end' = end + 1 /\ footers' = footers \cup {end + 1}
           \/ UNCHANGED <<end, footers>>
    BY <1>2 DEF AppendFooter, FooterInv, FooterAtEnd
  <2>2. CASE Return("error")
    BY <2>1, <2>2, TableType, SizeAssumption
       DEF Return, NoCall, FooterInv, FooterAtEnd, InRange, Bogus
  <2>3. CASE call' = [call EXCEPT !.pc = "appendBitmap", !.slot = end] /\ end < MaxSlots
    <3>1. end # Bogus
      BY <2>3, SizeAssumption DEF Bogus
    <3>2. /\ call'.op = call.op /\ call'.last = call.last /\ call'.cur = call.cur
          /\ call'.slot = end
      BY <1>0, <2>3 DEF CallRecords
    <3>3. QED
      BY <2>1, <3>1, <3>2 DEF FooterInv, FooterAtEnd, InRange
  <2>4. QED
    BY <1>2, <2>2, <2>3 DEF AppendFooter
<1>3. ASSUME AppendBitmap PROVE FooterInv'
  <2>1. end = call.slot + 1 /\ call.slot \in Nat
    BY <1>3, TableType DEF AppendBitmap, At, TablesInv, Appending, Shape, CallOK
  <2>2. end' = end /\ end' \in footers'
    BY <1>3, <2>1 DEF AppendBitmap, FooterInv, FooterAtEnd
  <2>3. CASE Return("error")
    BY <2>2, <2>3, SizeAssumption
       DEF Return, NoCall, FooterInv, FooterAtEnd, InRange, Bogus
  <2>4. CASE Goto("fill")
    BY <1>0, <2>2, <2>4 DEF Goto, CallRecords, FooterInv, FooterAtEnd, InRange
  <2>5. QED
    BY <1>3, <2>3, <2>4 DEF AppendBitmap
<1>4. ASSUME FillAndPlaceEntry PROVE FooterInv'
  <2>1. CASE Return("error")
    BY <1>4, <1>a, <2>1 DEF FillAndPlaceEntry
  <2>2. CASE call' = [call EXCEPT !.pc = "writeData", !.fresh = TRUE, !.flush = TRUE]
    BY <1>0, <1>4, <1>b, <2>2 DEF FillAndPlaceEntry, CallRecords, FooterInv
  <2>3. QED
    BY <1>4, <2>1, <2>2 DEF FillAndPlaceEntry, WriteSlot
<1>5. ASSUME WriteData PROVE FooterInv'
  <2>1. UNCHANGED <<end, footers>> /\ (Goto("setBits") \/ Return("error"))
    BY <1>5 DEF WriteData, WriteSlot, FooterInv
  <2>2. QED
    BY <1>0, <1>a, <1>b, <2>1 DEF Goto, CallRecords, FooterInv
<1>6. ASSUME SetBits PROVE FooterInv'
  <2>1. CASE Return("ok") \/ Goto("flushBat")
    BY <1>0, <1>6, <1>a, <1>b, <2>1 DEF SetBits, Goto, CallRecords, FooterInv, diskVars
  <2>2. CASE NextBlock("readEntry") /\ ~LastBlock
    <3>1. /\ call.cur \in Nat /\ call.last \in Nat /\ call.cur <= call.last
          /\ call.last \in Sectors
      BY <1>6 DEF SetBits, At, FooterInv, InRange, Sectors
    <3>2. (CurrBlock + 1) * SectorsPerBlock <= call.last
      BY <2>2, <3>1, NextBlockInRange DEF LastBlock, CurrBlock
    <3>3. (CurrBlock + 1) * SectorsPerBlock \in Sectors
      BY <3>1, <3>2, CurrBlockType, SizeType DEF Sectors, Shape
    <3>4. /\ call'.cur = (CurrBlock + 1) * SectorsPerBlock /\ call'.last = call.last
          /\ call'.slot = call.slot
      BY <1>0, <2>2 DEF NextBlock, CallRecords
    <3>5. QED
      BY <1>6, <3>1, <3>2, <3>3, <3>4 DEF SetBits, diskVars, FooterInv, FooterAtEnd, InRange
  <2>3. QED
    BY <1>6, <2>1, <2>2 DEF SetBits
<1>7. ASSUME ResetBits PROVE FooterInv'
  <2>1. CASE Return("ok")
    BY <1>7, <1>a, <2>1 DEF ResetBits, diskVars
  <2>2. CASE NextBlock("resetBits")
    <3>1. call'.op = "discard" /\ call'.slot = call.slot
      BY <1>0, <1>7, <2>2 DEF ResetBits, At, NextBlock, CallRecords
    <3>2. QED
      BY <1>7, <3>1 DEF ResetBits, diskVars, FooterInv, FooterAtEnd, InRange
  <2>3. QED
    BY <1>7, <2>1, <2>2 DEF ResetBits
<1>8. ASSUME FlushBat \/ FlushMapper PROVE FooterInv'
  BY <1>0, <1>8, <1>b
     DEF FlushBat, FlushMapper, Goto, FlushFailed, diskVars, CallRecords, FooterInv
<1>9. ASSUME FlushReturns \/ CloseReturns \/ OpenReturns PROVE FooterInv'
  BY <1>9, <1>a DEF FlushReturns, CloseReturns, OpenReturns, DropSession, diskVars
<1>10. ASSUME ScanBlock \/ FillUnset \/ SetUnset PROVE FooterInv'
  <2>1. UNCHANGED <<end, footers>>
    BY <1>10 DEF ScanBlock, FillUnset, SetUnset, diskVars
  <2>2. CASE OpenFails
    BY <1>a, <2>1, <2>2 DEF OpenFails, DropSession
  <2>3. CASE /\ call.op = "open"
             /\ \/ ScanNext \/ Goto("setUnset")
                \/ \E x \in Slots : call' = [call EXCEPT !.pc = "fillUnset", !.slot = x]
    <3>1. call'.op = "open" /\ call'.slot \in Slots \cup {call.slot}
      BY <1>0, <2>3 DEF ScanNext, Goto, CallRecords
    <3>2. QED
      BY <2>1, <3>1, TableType DEF FooterInv, FooterAtEnd, InRange
  <2>4. QED
    BY <1>10, <2>2, <2>3 DEF ScanBlock, FillUnset, SetUnset, At, WriteSlot
<1>11. ~WriteDataAnywhere
  BY DEF WriteDataAnywhere, FooterInv
<1>12. QED
  BY <1>1, <1>2, <1>3, <1>4, <1>5, <1>6, <1>7, <1>8, <1>9, <1>10, <1>11 DEF Step

\* Every step does.
LEMMA NextFooter ==
    ASSUME "batRead" \notin Faults
    PROVE  Shape /\ TablesInv /\ FooterInv /\ [Next]_vars => FooterInv'
<1> SUFFICES ASSUME Shape, TablesInv, FooterInv, [Next]_vars PROVE FooterInv'
  OBVIOUS
<1>1. CASE Client
  <2>1. UNCHANGED <<end, footers>>
    BY <1>1, ClientMoves
  <2>2. CASE UNCHANGED call
    BY <2>1, <2>2 DEF FooterInv, FooterAtEnd, InRange
  <2>3. ASSUME NEW op, NEW pc, NEW r, NEW v, Begin(op, pc, r, v),
               op = "write" => r \in Ranges
        PROVE  FooterInv'
    <3>1. call'.op = op /\ call'.cur = r[1] /\ call'.last = r[2] /\ call'.slot = 0
      BY <2>3 DEF Begin, NoCall
    <3>2. InRange'
      BY <2>3, <3>1, RangeType DEF InRange
    <3>3. QED
      BY <2>1, <3>1, <3>2, SizeAssumption DEF FooterInv, FooterAtEnd, Bogus
  <2>4. QED
    BY <1>1, <2>2, <2>3
       DEF Client, Open, OpenRefused, ReadSectors, ReadSectorsMissesError, WriteSectors,
           DiscardSectors, ReadSectorsFails, InvalidateCaches, Flush, Close, Refuse
<1>2. CASE ProcessDies
  BY <1>2, SizeAssumption
     DEF ProcessDies, DropSession, Return, NoCall, diskVars, FooterInv, FooterAtEnd,
         InRange, Bogus
<1>3. CASE UNCHANGED vars
  BY <1>3 DEF vars, diskVars, FooterInv, FooterAtEnd, InRange
<1>4. QED
  BY <1>1, <1>2, <1>3, StepFooter DEF Next

\* The new file ends with a footer.
LEMMA InitFooter == Init => FooterInv
  BY SizeAssumption DEF Init, NoCall, FooterInv, FooterAtEnd, InRange, Bogus

\* Wherever an append or the process stops, the last sector of the file is a footer,
\* unless a failed read of the table was taken for an entry: FooterAtEnd.
THEOREM FooterKept ==
    ASSUME "batRead" \notin Faults
    PROVE  Spec => []FooterAtEnd
<1>1. Shape /\ TablesInv /\ FooterInv /\ [Next]_vars => Shape' /\ TablesInv' /\ FooterInv'
  BY NextShape, NextTables, NextFooter
<1>2. Init => Shape /\ TablesInv /\ FooterInv
  BY InitShape, InitTables, InitFooter
<1>3. FooterInv => FooterAtEnd
  BY DEF FooterInv
<1>4. QED
  BY <1>1, <1>2, <1>3, PTL DEF Spec

-----------------------------------------------------------------------------
(***************************************************************************)
(* Pure mode                                                               *)
(***************************************************************************)
\* A session whose bitmaps must be full.
PureWriter == session.open /\ ~ReadOnly /\ BlockPureMode

\* The bitmap of block b is full, if the block is in the file.
FullIn(map, b) == BAT!Table[b] # Unused => map[BAT!Table[b]] = BlockSectors

\* The call opens the file and is in the loop over its blocks.
Scanning == call.pc \in {"scan", "fillUnset", "setUnset"}

\* Opening for pure mode: the bitmaps of the blocks before the current one are full,
\* and after a flush without failures so are those in the file.
OpenInv ==
    call.op = "open" =>
      /\ PureWriter
      /\ call.pc \in {"scan", "fillUnset", "setUnset", "flushBat", "flushMapper", "fsync"}
      /\ Scanning => call.cur \in Blocks
      /\ call.pc \in {"fillUnset", "setUnset"} => call.slot = BAT!Table[call.cur]
      /\ \A b \in Blocks : (Scanning => b < call.cur) => FullIn(bitmap, b)
      /\ call.pc = "fsync" /\ ~call.failed => \A b \in Blocks : FullIn(bitmapOnMedia, b)

\* A block that is being appended got a full bitmap.
FillInv ==
    PureWriter /\ call.pc = "fill" =>
      bitmap[call.slot] = BlockSectors /\ bitmapOnMedia[call.slot] = BlockSectors

\* Discarding needs TRIM, which excludes pure mode.
DiscardInv == call.op = "discard" => TrimEnabled

\* The inductive invariant of pure mode.
PureInv == PureBitmapsFull /\ OpenInv /\ FillInv /\ DiscardInv

\* Reading or flushing the table, or dropping a clean one, does not change it.
LEMMA TableKept ==
    ASSUME BatInv,
           \/ UNCHANGED batVars \/ BAT!ReadBAT \/ BAT!Flush \/ BAT!FlushFails
           \/ BAT!InvalidateCache /\ batState # "EDirty"
    PROVE  BAT!Table' = BAT!Table
  BY DEF BatInv, BAT!BatTypeOK, BatCoherent, BAT!BatCoherent, batVars, BAT!ReadBAT, BAT!Flush,
         BAT!FlushFails, BAT!InvalidateCache, BAT!Table, BAT!StateValid

\* Full bitmaps stay full, in the cache and in the file.
FullKept ==
    \A x \in Slots :
      /\ bitmap[x] = BlockSectors => bitmap'[x] = BlockSectors
      /\ bitmap[x] = BlockSectors /\ bitmapOnMedia[x] = BlockSectors => bitmapOnMedia'[x] = BlockSectors

\* They do whatever the cache is asked, apart from resetting bits.
LEMMA FullMoves ==
    ASSUME BitmapsOK, NEW y, NEW S \in SUBSET BlockSectors,
           \/ UNCHANGED bitmapVars \/ Mapper!KeepBits \/ Mapper!FlushBits
           \/ Mapper!SetBits(y, S) \/ Mapper!CreateBits(y, BlockSectors)
    PROVE  FullKept
<1>1. CASE UNCHANGED bitmapVars
  BY <1>1 DEF bitmapVars, FullKept
<1>2. CASE Mapper!KeepBits
  BY <1>2 DEF Mapper!KeepBits, Mapper!WriteBack, FullKept
<1>3. CASE Mapper!FlushBits
  BY <1>3 DEF Mapper!FlushBits, FullKept
<1>4. CASE Mapper!SetBits(y, S)
  BY <1>4 DEF Mapper!SetBits, Mapper!WriteBack, Mapper!Bitmaps, BitmapsOK, FullKept
<1>5. CASE Mapper!CreateBits(y, BlockSectors)
  BY <1>5 DEF Mapper!CreateBits, Mapper!Bitmaps, BitmapsOK, FullKept
<1>6. QED
  BY <1>1, <1>2, <1>3, <1>4, <1>5

\* A call goes on or ends, and with it the session perhaps.
LEMMA StepOp ==
    ASSUME Shape, Step
    PROVE  call'.op \in {call.op, "none"} /\ session' \in {session, Closed}
<1>0. call \in CallRecords /\ CallOK
  BY DEF Shape, CallOK
<1>1. CASE ReadBlockEntry \/ AppendFooter \/ AppendBitmap
  BY <1>0, <1>1, GotoPc, ReturnPc DEF ReadBlockEntry, AppendFooter, AppendBitmap, CallRecords
<1>2. CASE FillAndPlaceEntry
  BY <1>0, <1>2, ReturnPc DEF FillAndPlaceEntry, WriteSlot, CallRecords
<1>3. CASE WriteData \/ SetBits \/ ResetBits
  BY <1>0, <1>3, GotoPc, ReturnPc DEF WriteData, SetBits, ResetBits, WriteSlot
<1>4. CASE FlushBat \/ FlushMapper \/ FlushReturns \/ CloseReturns \/ OpenReturns
  BY <1>0, <1>4, GotoPc, ReturnPc
     DEF FlushBat, FlushMapper, FlushReturns, CloseReturns, OpenReturns, DropSession
<1>5. CASE ScanBlock \/ FillUnset \/ SetUnset
  <2>1. ASSUME NEW x, call' = [call EXCEPT !.pc = "fillUnset", !.slot = x]
        PROVE  call'.op = call.op
    BY <1>0, <2>1 DEF CallRecords
  <2>2. QED
    BY <1>0, <1>5, <2>1, GotoPc, ReturnPc, ScanNextOK
       DEF ScanBlock, FillUnset, SetUnset, WriteSlot, OpenFails, DropSession
<1>6. CASE WriteDataAnywhere
  BY <1>6, AnywhereOK
<1>7. QED
  BY <1>1, <1>2, <1>3, <1>4, <1>5, <1>6 DEF Step

\* In any other session there is nothing to keep.
LEMMA NotPure ==
    ASSUME Shape', ~PureWriter', call'.op # "open", DiscardInv'
    PROVE  PureInv'
  BY DEF PureWriter, PureInv, PureBitmapsFull, OpenInv, FillInv, ReadOnly, BlockPureMode

\* Nor when the file is closed.
LEMMA ClosedPure ==
    ASSUME Shape', ~session'.open
    PROVE  PureInv'
<1>1. call'.op = "none"
  BY NoCallOK DEF Shape, SessionOK
<1>2. QED
  BY <1>1, NotPure DEF PureWriter, DiscardInv

\* A pure session creates blocks with all bits set.
LEMMA PureNotTrim ==
    ASSUME Shape, PureWriter
    PROVE  ~TrimEnabled /\ SetAllBmpBits
  BY ModesAssumption DEF Shape, SessionOK, PureWriter, BlockPureMode, TrimEnabled, SetAllBmpBits

\* A step of a pure session that places no block.
LEMMA PureQuiet ==
    ASSUME Shape, PureInv, PureWriter, UNCHANGED session, call.op # "open",
           call'.op \in {"none", "write", "flush", "close"}, call'.pc # "fill",
           BAT!Table' = BAT!Table, FullKept
    PROVE  PureInv'
<1>1. \A b \in Blocks : BAT!Table[b] # Unused =>
        /\ BAT!Table[b] \in Slots
        /\ bitmap[BAT!Table[b]] = BlockSectors
        /\ bitmapOnMedia[BAT!Table[b]] = BlockSectors
  BY TableType DEF PureInv, PureBitmapsFull, PureWriter
<1>2. PureBitmapsFull'
  BY <1>1 DEF FullKept, PureBitmapsFull
<1>3. QED
  BY <1>2 DEF PureInv, OpenInv, FillInv, DiscardInv

\* The bitmaps of the blocks in the table stay full.
LEMMA FullTable ==
    ASSUME Shape, FullKept, BAT!Table' = BAT!Table, NEW b \in Blocks, FullIn(bitmap, b)
    PROVE  FullIn(bitmap, b)'
  BY TableType DEF FullKept, FullIn

\* The processing for pure mode makes one bitmap full after the other.
LEMMA OpenStepPure ==
    ASSUME Shape, Shape', PureInv, call.op = "open", UNCHANGED session,
           ScanBlock \/ FillUnset \/ SetUnset \/ FlushBat \/ FlushMapper \/ OpenReturns
    PROVE  PureInv'
<1>0. /\ call \in CallRecords /\ BatInv /\ BitmapsOK /\ PureWriter /\ session.open
      /\ Closed # session /\ PureWriter'
  BY DEF Shape, CallOK, PureInv, OpenInv, PureWriter, Closed, ReadOnly, BlockPureMode
<1>1. ASSUME ScanNext, call.cur \in Blocks, BAT!Table' = BAT!Table,
             \A b \in Blocks : b <= call.cur => FullIn(bitmap, b)'
      PROVE  PureInv'
  <2>1. CASE call.cur + 1 < NumBlocks
    <3>1. call' = [call EXCEPT !.pc = "scan", !.cur = call.cur + 1]
      BY <1>1, <2>1 DEF ScanNext
    <3>2. call'.pc = "scan" /\ call'.op = "open" /\ call'.cur = call.cur + 1
      BY <1>0, <3>1 DEF CallRecords
    <3>3. call'.cur \in Blocks /\ \A b \in Blocks : b < call'.cur => b <= call.cur
      BY <1>1, <2>1, <3>2, SizeType DEF Blocks
    <3>4. QED
      BY <1>0, <1>1, <3>2, <3>3
         DEF PureInv, PureBitmapsFull, OpenInv, FillInv, DiscardInv, Scanning
  <2>2. CASE ~(call.cur + 1 < NumBlocks)
    <3>1. call' = [call EXCEPT !.pc = "flushBat"]
      BY <1>1, <2>2 DEF ScanNext
    <3>2. call'.pc = "flushBat" /\ call'.op = "open"
      BY <1>0, <3>1 DEF CallRecords
    <3>3. \A b \in Blocks : b <= call.cur
      BY <1>1, <2>2, SizeType DEF Blocks
    <3>4. QED
      BY <1>0, <1>1, <3>2, <3>3
         DEF PureInv, PureBitmapsFull, OpenInv, FillInv, DiscardInv, Scanning
  <2>3. QED
    BY <2>1, <2>2
<1>2. CASE ScanBlock
  <2>1. /\ call.pc = "scan" /\ call.cur \in Blocks
        /\ \A b \in Blocks : b < call.cur => FullIn(bitmap, b)
    BY <1>2 DEF ScanBlock, At, PureInv, OpenInv, Scanning
  <2>2. ~OpenFails
    BY <1>0 DEF OpenFails, DropSession
  <2>3. BAT!Table' = BAT!Table /\ FullKept
    <3>1. BAT!ReadBAT /\ (UNCHANGED bitmapVars \/ Mapper!KeepBits)
      BY <1>2, <2>2 DEF ScanBlock, BAT!ReadEntry
    <3>2. QED
      BY <1>0, <3>1, TableKept, FullMoves
  <2>4. \A b \in Blocks : b < call.cur => FullIn(bitmap, b)'
    BY <2>1, <2>3, FullTable
  <2>5. CASE ScanNext /\ FullIn(bitmap, call.cur)
    <3>1. ASSUME NEW b \in Blocks, b = call.cur
          PROVE  FullIn(bitmap, b)'
      BY <2>3, <2>5, <3>1, FullTable
    <3>2. \A b \in Blocks : b <= call.cur => b < call.cur \/ b = call.cur
      BY <2>1 DEF Blocks
    <3>3. \A b \in Blocks : b <= call.cur => FullIn(bitmap, b)'
      BY <2>4, <3>1, <3>2
    <3>4. QED
      BY <1>1, <2>1, <2>3, <2>5, <3>3
  <2>6. CASE call' = [call EXCEPT !.pc = "fillUnset", !.slot = BAT!Table[call.cur]]
    <3>1. call'.pc = "fillUnset" /\ call'.op = "open" /\ call'.cur = call.cur /\ call'.slot = BAT!Table[call.cur]
      BY <1>0, <2>6 DEF CallRecords
    <3>2. QED
      BY <1>0, <2>1, <2>3, <2>4, <3>1
         DEF PureInv, PureBitmapsFull, OpenInv, FillInv, DiscardInv, Scanning
  <2>7. QED
    BY <1>2, <2>2, <2>5, <2>6 DEF ScanBlock, BAT!ReadEntry, FullIn
<1>3. CASE FillUnset
  <2>1. Goto("setUnset") /\ UNCHANGED <<batVars, bitmapVars>>
    BY <1>0, <1>3 DEF FillUnset, WriteSlot, OpenFails, DropSession
  <2>2. call'.pc = "setUnset" /\ call'.op = "open" /\ call'.cur = call.cur /\ call'.slot = call.slot
    BY <1>0, <1>3, <2>1 DEF FillUnset, At, Goto, CallRecords
  <2>3. BAT!Table' = BAT!Table /\ FullKept
    BY <1>0, <2>1, TableKept, FullMoves
  <2>4. /\ call.pc = "fillUnset" /\ call.cur \in Blocks /\ call.slot = BAT!Table[call.cur]
        /\ \A b \in Blocks : b < call.cur => FullIn(bitmap, b)
    BY <1>3 DEF FillUnset, At, PureInv, OpenInv, Scanning
  <2>5. \A b \in Blocks : b < call.cur => FullIn(bitmap, b)'
    BY <2>3, <2>4, FullTable
  <2>6. QED
    BY <1>0, <2>2, <2>3, <2>4, <2>5
       DEF PureInv, PureBitmapsFull, OpenInv, FillInv, DiscardInv, Scanning
<1>4. CASE SetUnset
  <2>1. Mapper!SetBits(call.slot, BlockSectors) /\ ScanNext /\ UNCHANGED batVars
    BY <1>4 DEF SetUnset
  <2>2. BAT!Table' = BAT!Table /\ FullKept
    BY <1>0, <2>1, TableKept, FullMoves
  <2>3. /\ call.cur \in Blocks /\ call.slot = BAT!Table[call.cur] /\ call.slot \in Slots
        /\ \A b \in Blocks : b < call.cur => FullIn(bitmap, b)
    BY <1>4 DEF SetUnset, At, PureInv, OpenInv, Scanning, Shape, CallOK
  <2>4. bitmap'[call.slot] = BlockSectors
    BY <1>0, <2>1, <2>3 DEF Mapper!SetBits, Mapper!Bitmaps, BitmapsOK
  <2>5. \A b \in Blocks : b <= call.cur => b < call.cur \/ b = call.cur
    BY <2>3 DEF Blocks
  <2>6. \A b \in Blocks : b < call.cur => FullIn(bitmap, b)'
    BY <2>2, <2>3, FullTable
  <2>7. \A b \in Blocks : b <= call.cur => FullIn(bitmap, b)'
    BY <2>2, <2>3, <2>4, <2>5, <2>6 DEF FullIn
  <2>8. QED
    BY <1>1, <2>1, <2>2, <2>3, <2>7
<1>5. CASE FlushBat \/ FlushMapper
  <2>1. BAT!Table' = BAT!Table /\ FullKept
    BY <1>0, <1>5, TableKept, FullMoves DEF FlushBat, FlushMapper
  <2>2. \A b \in Blocks : FullIn(bitmap, b)
    BY <1>5 DEF FlushBat, FlushMapper, PureInv, OpenInv, Scanning
  <2>3. \A b \in Blocks : FullIn(bitmap, b)'
    BY <2>1, <2>2, FullTable
  <2>4. call'.op = "open" /\ call'.pc \in {"flushMapper", "fsync"}
    BY <1>0, <1>5, GotoPc DEF FlushBat, FlushMapper
  <2>5. call'.pc = "fsync" /\ ~call'.failed => bitmapOnMedia' = bitmap'
    BY <1>0, <1>5
       DEF FlushBat, FlushMapper, Goto, FlushFailed, CallRecords, Mapper!FlushBits
  <2>6. call'.pc = "fsync" /\ ~call'.failed => \A b \in Blocks : FullIn(bitmapOnMedia, b)'
    BY <2>3, <2>5 DEF FullIn
  <2>7. QED
    BY <1>0, <2>3, <2>4, <2>6
       DEF PureInv, PureBitmapsFull, OpenInv, FillInv, DiscardInv, Scanning
<1>6. CASE OpenReturns
  <2>1. call.pc = "fsync" /\ ~call.failed /\ Return("ok") /\ UNCHANGED <<batVars, bitmapVars>>
    BY <1>0, <1>6 DEF OpenReturns, At, DropSession
  <2>2. BAT!Table' = BAT!Table /\ bitmap' = bitmap /\ bitmapOnMedia' = bitmapOnMedia
    BY <1>0, <2>1, TableKept DEF bitmapVars
  <2>3. \A b \in Blocks : FullIn(bitmap, b) /\ FullIn(bitmapOnMedia, b)
    BY <2>1 DEF PureInv, OpenInv, Scanning
  <2>4. call'.op = "none" /\ call'.pc = "none"
    BY <2>1, ReturnPc
  <2>5. QED
    BY <2>2, <2>3, <2>4 DEF PureInv, PureBitmapsFull, OpenInv, FillInv, DiscardInv, FullIn
<1>7. QED
  BY <1>2, <1>3, <1>4, <1>5, <1>6

\* Every step of a call keeps the bitmaps of a pure session full.
LEMMA StepPure ==
    ASSUME Shape, Shape', PureInv, Step
    PROVE  PureInv'
<1>0. /\ call \in CallRecords /\ BatInv /\ BitmapsOK /\ call.op # "none" /\ session.open
  <2>1. call.pc # "none"
    BY
       DEF Step, ReadBlockEntry, AppendFooter, AppendBitmap, FillAndPlaceEntry, WriteData,
           WriteDataAnywhere, SetBits, ResetBits, FlushBat, FlushMapper, FlushReturns, CloseReturns, ScanBlock, FillUnset,
           SetUnset, OpenReturns, At
  <2>2. QED
    BY <2>1, NoCallOK DEF Shape, CallOK, SessionOK
<1>1. call'.op \in {call.op, "none"} /\ session' \in {session, Closed}
  BY StepOp
<1>2. CASE ~session'.open
  BY <1>2, ClosedPure
<1>3. CASE session'.open /\ ~PureWriter
  <2>1. UNCHANGED session
    BY <1>1, <1>3 DEF Closed
  <2>2. call'.op # "open" /\ DiscardInv' /\ ~PureWriter'
    BY <1>1, <1>3, <2>1
       DEF PureInv, OpenInv, DiscardInv, TrimEnabled, PureWriter, ReadOnly, BlockPureMode
  <2>3. QED
    BY <2>2, NotPure
<1>4. CASE session'.open /\ PureWriter /\ call.op = "open"
  <2>1. UNCHANGED session
    BY <1>1, <1>4 DEF Closed
  <2>2. ScanBlock \/ FillUnset \/ SetUnset \/ FlushBat \/ FlushMapper \/ OpenReturns
    BY <1>4
       DEF Step, ReadBlockEntry, AppendFooter, AppendBitmap, FillAndPlaceEntry, WriteData,
           WriteDataAnywhere, SetBits, ResetBits, FlushReturns, CloseReturns, At
  <2>3. QED
    BY <1>4, <2>1, <2>2, OpenStepPure
<1>5. CASE session'.open /\ PureWriter /\ call.op # "open"
  <2>1. UNCHANGED session
    BY <1>1, <1>5 DEF Closed
  <2>2. call'.op \in {"none", "write", "flush", "close"}
    BY <1>0, <1>1, <1>5, PureNotTrim DEF CallRecords, PureInv, DiscardInv
  <2>3. CASE ReadBlockEntry
    <3>1. BAT!Table' = BAT!Table
      BY <1>0, <2>3, TableKept
         DEF ReadBlockEntry, BAT!ReadEntry, BAT!ReadEntryFails, BAT!vars, batVars
    <3>2. FullKept
      BY <1>0, <2>3, FullMoves DEF ReadBlockEntry
    <3>3. call'.pc \in {"appendFooter", "writeData"}
      BY <1>0, <2>3, GotoPc DEF ReadBlockEntry, CallRecords
    <3>4. QED
      BY <1>5, <2>1, <2>2, <3>1, <3>2, <3>3, PureQuiet
  <2>4. CASE AppendFooter
    <3>1. BAT!Table' = BAT!Table /\ FullKept
      BY <1>0, <2>4, TableKept, FullMoves DEF AppendFooter
    <3>2. call'.pc \in {"appendBitmap", "none"}
      BY <1>0, <2>4, ReturnPc DEF AppendFooter, CallRecords
    <3>3. QED
      BY <1>5, <2>1, <2>2, <3>1, <3>2, PureQuiet
  <2>5. CASE AppendBitmap
    <3>1. BAT!Table' = BAT!Table
      BY <1>0, <2>5, TableKept DEF AppendBitmap
    <3>2. call.slot \in Slots /\ call.pc = "appendBitmap"
      BY <2>5 DEF AppendBitmap, At, Shape, CallOK
    <3>3. FullKept
      BY <1>0, <1>5, <2>5, FullMoves, PureNotTrim DEF AppendBitmap
    <3>4. CASE Return("error")
      BY <1>5, <2>1, <2>2, <3>1, <3>3, <3>4, PureQuiet, ReturnPc
    <3>5. CASE Goto("fill") /\ Mapper!CreateBits(call.slot, BlockSectors)
      <4>1. bitmap'[call.slot] = BlockSectors /\ bitmapOnMedia'[call.slot] = BlockSectors
        BY <1>0, <3>2, <3>5 DEF Mapper!CreateBits, Mapper!Bitmaps, BitmapsOK
      <4>2. call'.slot = call.slot /\ call'.op = call.op
        BY <1>0, <3>5 DEF Goto, CallRecords
      <4>3. FillInv'
        BY <4>1, <4>2 DEF FillInv
      <4>4. \A b \in Blocks : BAT!Table[b] # Unused =>
              /\ BAT!Table[b] \in Slots
              /\ bitmap[BAT!Table[b]] = BlockSectors
              /\ bitmapOnMedia[BAT!Table[b]] = BlockSectors
        BY <1>5, TableType DEF PureInv, PureBitmapsFull, PureWriter
      <4>5. PureBitmapsFull'
        BY <3>1, <3>3, <4>4 DEF FullKept, PureBitmapsFull
      <4>6. QED
        BY <1>5, <2>2, <4>2, <4>3, <4>5 DEF PureInv, OpenInv, DiscardInv
    <3>6. QED
      BY <1>5, <2>5, <3>4, <3>5, PureNotTrim DEF AppendBitmap
  <2>6. CASE FillAndPlaceEntry
    <3>1. call.pc = "fill" /\ call.slot \in Slots
      BY <2>6 DEF FillAndPlaceEntry, At, Shape, CallOK
    <3>2. FullKept
      BY <1>0, <2>6, FullMoves DEF FillAndPlaceEntry
    <3>3. CASE Return("error") /\ UNCHANGED batVars
      BY <1>0, <1>5, <2>1, <2>2, <3>2, <3>3, PureQuiet, ReturnPc, TableKept
    <3>4. CASE /\ BAT!WriteEntry(CurrBlock, call.slot)
               /\ call' = [call EXCEPT !.pc = "writeData", !.fresh = TRUE, !.flush = TRUE]
      <4>1. BAT!Table' = [BAT!Table EXCEPT ![CurrBlock] = call.slot] /\ UNCHANGED bitmapVars
        BY <1>0, <2>6, <3>1, <3>4, WriteEntryOK DEF FillAndPlaceEntry
      <4>2. BAT!Table \in BAT!Tables
        BY <1>0 DEF BatInv, BAT!BatTypeOK, BAT!Table
      <4>3. \A b \in Blocks : BAT!Table'[b] \in {BAT!Table[b], call.slot}
        BY <4>1, <4>2 DEF BAT!Tables
      <4>4. bitmap[call.slot] = BlockSectors /\ bitmapOnMedia[call.slot] = BlockSectors
        BY <1>5, <3>1 DEF PureInv, FillInv
      <4>5. \A b \in Blocks : BAT!Table[b] # Unused =>
              /\ bitmap[BAT!Table[b]] = BlockSectors
              /\ bitmapOnMedia[BAT!Table[b]] = BlockSectors
        BY <1>5 DEF PureInv, PureBitmapsFull, PureWriter
      <4>6. PureBitmapsFull'
        BY <4>1, <4>3, <4>4, <4>5 DEF bitmapVars, PureBitmapsFull
      <4>7. call'.pc = "writeData"
        BY <1>0, <3>4 DEF CallRecords
      <4>8. QED
        BY <2>2, <4>6, <4>7 DEF PureInv, OpenInv, FillInv, DiscardInv
    <3>5. QED
      BY <2>6, <3>3, <3>4 DEF FillAndPlaceEntry, WriteSlot
  <2>7. CASE WriteData
    <3>1. BAT!Table' = BAT!Table /\ FullKept
      BY <1>0, <2>7, TableKept, FullMoves DEF WriteData
    <3>2. call'.pc \in {"setBits", "none"}
      BY <1>0, <2>7, GotoPc, ReturnPc DEF WriteData, WriteSlot
    <3>3. QED
      BY <1>5, <2>1, <2>2, <3>1, <3>2, PureQuiet
  <2>8. CASE SetBits
    <3>1. BAT!Table' = BAT!Table /\ FullKept
      BY <1>0, <1>5, <2>8, TableKept, FullMoves DEF SetBits, PureWriter
    <3>2. call'.pc \in {"readEntry", "flushBat", "none"}
      BY <1>0, <2>8, GotoPc, ReturnPc DEF SetBits
    <3>3. QED
      BY <1>5, <2>1, <2>2, <3>1, <3>2, PureQuiet
  <2>9. CASE FlushBat \/ FlushMapper \/ FlushReturns
    <3>1. BAT!Table' = BAT!Table /\ FullKept
      BY <1>0, <2>9, TableKept, FullMoves DEF FlushBat, FlushMapper, FlushReturns
    <3>2. call'.pc \in {"flushMapper", "fsync", "none"}
      BY <1>0, <2>9, GotoPc, ReturnPc DEF FlushBat, FlushMapper, FlushReturns
    <3>3. QED
      BY <1>5, <2>1, <2>2, <3>1, <3>2, PureQuiet
  <2>10. ~ResetBits
    BY <1>5, PureNotTrim DEF ResetBits, At, PureInv, DiscardInv
  <2>11. ~CloseReturns
    BY <1>5, CloseRelease, <1>0 DEF Closed
  <2>12. ~(ScanBlock \/ FillUnset \/ SetUnset \/ OpenReturns)
    BY <1>5 DEF ScanBlock, FillUnset, SetUnset, OpenReturns, At
  <2>13. CASE WriteDataAnywhere
    <3>1. UNCHANGED <<batVars, bitmapVars>> /\ call'.pc = "none"
      BY <1>5, <2>13, AnywhereOK DEF Closed
    <3>2. BAT!Table' = BAT!Table /\ FullKept
      BY <1>0, <3>1, TableKept, FullMoves
    <3>3. QED
      BY <1>5, <2>1, <2>2, <3>1, <3>2, PureQuiet
  <2>14. QED
    BY <2>3, <2>4, <2>5, <2>6, <2>7, <2>8, <2>9, <2>10, <2>11, <2>12, <2>13 DEF Step
<1>6. QED
  BY <1>2, <1>3, <1>4, <1>5

\* Every call begins so.
LEMMA ClientPure ==
    ASSUME Shape, Shape', PureInv, Client
    PROVE  PureInv'
<1>0. call = NoCall /\ call.op = "none" /\ call.pc = "none" /\ BatInv /\ BitmapsOK
  BY ClientBegins, NoCallOK DEF Shape
<1>1. ASSUME NEW op, NEW pc, NEW r, NEW v, Begin(op, pc, r, v)
      PROVE  call'.op = op /\ call'.pc = pc /\ call'.cur = r[1]
  BY <1>1 DEF Begin, NoCall
<1>2. ASSUME NEW flags \in Modes, Open(flags) PROVE PureInv'
  <2>1. session' = [open |-> TRUE, flags |-> flags]
    BY <1>2 DEF Open
  <2>2. PureWriter' <=> {"RDWR", "PURE"} \subseteq flags
    BY <2>1 DEF PureWriter, ReadOnly, BlockPureMode
  <2>3. CASE {"RDWR", "PURE"} \subseteq flags
    <3>1. call'.op = "open" /\ call'.pc = "scan" /\ call'.cur = 0
      BY <1>1, <1>2, <2>3 DEF Open
    <3>2. 0 \in Blocks /\ \A b \in Blocks : ~(b < 0)
      BY SizeAssumption DEF Blocks
    <3>3. QED
      BY <2>2, <2>3, <3>1, <3>2
         DEF PureInv, PureBitmapsFull, OpenInv, FillInv, DiscardInv, Scanning
  <2>4. CASE ~({"RDWR", "PURE"} \subseteq flags)
    <3>1. call'.op = "none"
      BY <1>0, <1>2, <2>4 DEF Open
    <3>2. QED
      BY <2>2, <2>4, <3>1, NotPure DEF DiscardInv
  <2>5. QED
    BY <2>3, <2>4
<1>3. ASSUME UNCHANGED session, BAT!Table' = BAT!Table, FullKept,
             call'.op \in {"none", "write", "flush", "close"}, call'.pc # "fill"
      PROVE  PureInv'
  <2>1. CASE PureWriter
    BY <1>0, <1>3, <2>1, PureQuiet
  <2>2. CASE ~PureWriter
    BY <1>3, <2>2, NotPure DEF DiscardInv, PureWriter, ReadOnly, BlockPureMode
  <2>3. QED
    BY <2>1, <2>2
<1>4. ASSUME NEW r \in Ranges, DiscardSectors(r) PROVE PureInv'
  <2>0. UNCHANGED <<batVars, bitmapVars, session>>
    BY <1>4 DEF DiscardSectors
  <2>1. CASE Refuse
    BY <1>0, <1>3, <2>0, <2>1, TableKept, FullMoves DEF Refuse
  <2>2. CASE Begin("discard", "resetBits", r, Zero) /\ TrimEnabled
    <3>1. call'.op = "discard" /\ TrimEnabled'
      BY <1>1, <2>0, <2>2 DEF TrimEnabled
    <3>2. ~PureWriter'
      BY <2>0, <2>2, PureNotTrim DEF PureWriter, ReadOnly, BlockPureMode
    <3>3. QED
      BY <3>1, <3>2, NotPure DEF DiscardInv
  <2>3. QED
    BY <1>4, <2>1, <2>2 DEF DiscardSectors
<1>5. ASSUME NEW r, ReadSectors(r) \/ ReadSectorsMissesError(r) \/ ReadSectorsFails PROVE PureInv'
  <2>1. BAT!Table' = BAT!Table /\ FullKept
    BY <1>0, <1>5, ReadMoves, TableKept, FullMoves
  <2>2. QED
    BY <1>0, <1>3, <1>5, <2>1, ReadMoves
<1>6. ASSUME OpenRefused PROVE PureInv'
  BY <1>6, ClosedPure DEF OpenRefused
<1>7. ASSUME InvalidateCaches PROVE PureInv'
  BY <1>0, <1>3, <1>7, TableKept, FullMoves DEF InvalidateCaches
<1>8. ASSUME NEW r \in Ranges, NEW v \in Written, WriteSectors(r, v) PROVE PureInv'
  BY <1>0, <1>1, <1>3, <1>8, TableKept, FullMoves DEF WriteSectors, Refuse
<1>9. ASSUME Flush \/ Close PROVE PureInv'
  BY <1>0, <1>1, <1>3, <1>9, TableKept, FullMoves DEF Flush, Close
<1>10. QED
  BY <1>2, <1>4, <1>5, <1>6, <1>7, <1>8, <1>9 DEF Client

\* Every step does.
LEMMA NextPure == Shape /\ Shape' /\ PureInv /\ [Next]_vars => PureInv'
<1> SUFFICES ASSUME Shape, Shape', PureInv, [Next]_vars PROVE PureInv'
  OBVIOUS
<1>1. CASE ProcessDies
  BY <1>1, ClosedPure DEF ProcessDies, DropSession, Closed
<1>2. CASE UNCHANGED vars
  BY <1>2
     DEF vars, batVars, bitmapVars, PureInv, PureBitmapsFull, OpenInv, FillInv, DiscardInv,
         Scanning, PureWriter, ReadOnly, BlockPureMode, TrimEnabled, FullIn, BAT!Table,
         BAT!StateValid
<1>3. QED
  BY <1>1, <1>2, StepPure, ClientPure DEF Next

\* The new file is closed.
LEMMA InitPure == Init => PureInv
  BY NoCallOK
     DEF Init, Closed, PureInv, PureBitmapsFull, OpenInv, FillInv, DiscardInv, PureWriter

\* While a pure session is open for writing, the bitmaps of all blocks are full, in the
\* cache and in the file, whatever fails and wherever the process died before, so that
\* ignoring them is right: PureBitmapsFull.
THEOREM PureSessions == Spec => []PureBitmapsFull
<1>1. /\ Shape /\ PureInv /\ [Next]_vars => Shape' /\ PureInv'
      /\ Init => Shape /\ PureInv
  BY NextShape, NextPure, InitShape, InitPure
<1>2. PureInv => PureBitmapsFull
  BY DEF PureInv
<1>3. QED
  BY <1>1, <1>2, PTL DEF Spec

-----------------------------------------------------------------------------
(***************************************************************************)
(* The flush after an append                                               *)
(***************************************************************************)
\* A dirty table is that of a write that will flush it, or of a full disk.
FlushInv ==
    /\ batState = "EDirty" => end >= MaxSlots \/ (call.op = "write" /\ call.flush)
    /\ call.pc \in {"flushMapper", "fsync"} => batState # "EDirty"

\* A step that does not make the table dirty.
LEMMA QuietFlush ==
    ASSUME Shape, FlushInv, end' = end \/ end' >= MaxSlots,
           batState' = "EDirty" => batState = "EDirty",
           call'.pc \notin {"flushMapper", "fsync"},
           call.op = "write" /\ call.flush =>
             end >= MaxSlots \/ batState' # "EDirty" \/ (call'.op = "write" /\ call'.flush)
    PROVE  FlushInv'
  BY DEF FlushInv

\* Every step of a call keeps this.
LEMMA StepFlush ==
    ASSUME "read" \notin Faults, "write" \notin Faults, Shape, FlushInv, Step
    PROVE  FlushInv'
<1>0. call \in CallRecords /\ BatInv /\ end \in Nat /\ MaxSlots \in Nat
  BY TableType, SizeAssumption DEF Shape, CallOK
<1>1. ASSUME BAT!ReadBAT \/ UNCHANGED batVars \/ BAT!InvalidateCache
      PROVE  batState' = "EDirty" => batState = "EDirty"
  BY <1>1 DEF BAT!ReadBAT, batVars, BAT!InvalidateCache
<1>2. CASE ReadBlockEntry
  <2>1. BAT!ReadBAT \/ UNCHANGED batVars
    BY <1>2 DEF ReadBlockEntry, BAT!ReadEntry, BAT!ReadEntryFails, BAT!vars, batVars
  <2>2. call'.pc \in {"appendFooter", "writeData"} /\ call'.op = call.op /\ call'.flush = call.flush
    BY <1>0, <1>2 DEF ReadBlockEntry, Goto, CallRecords
  <2>3. QED
    BY <1>1, <1>2, <2>1, <2>2, QuietFlush DEF ReadBlockEntry, diskVars
<1>3. CASE AppendFooter
  <2>1. UNCHANGED batVars
    BY <1>3 DEF AppendFooter
  <2>2. CASE Return("error") /\ end >= MaxSlots /\ UNCHANGED end
    BY <1>1, <2>1, <2>2, QuietFlush, ReturnPc
  <2>3. CASE call' = [call EXCEPT !.pc = "appendBitmap", !.slot = end] /\ end < MaxSlots /\ end' = end + 1
    <3>1. call'.pc = "appendBitmap" /\ call'.op = call.op /\ call'.flush = call.flush
      BY <1>0, <2>3 DEF CallRecords
    <3>2. batState' = batState
      BY <2>1 DEF batVars
    <3>3. QED
      BY <1>0, <2>3, <3>1, <3>2 DEF FlushInv
  <2>4. QED
    BY <1>3, <2>2, <2>3 DEF AppendFooter, CanFail
<1>4. CASE AppendBitmap \/ WriteData
  <2>1. UNCHANGED batVars /\ (end' = end \/ end' >= MaxSlots)
    BY <1>0, <1>4 DEF AppendBitmap, WriteData, Bogus
  <2>2. Goto("fill") \/ Goto("setBits")
    BY <1>4 DEF AppendBitmap, WriteData, WriteSlot, CanFail
  <2>3. call'.pc \in {"fill", "setBits"} /\ call'.op = call.op /\ call'.flush = call.flush
    BY <1>0, <2>2 DEF Goto, CallRecords
  <2>4. QED
    BY <1>1, <2>1, <2>3, QuietFlush
<1>5. CASE FillAndPlaceEntry
  <2>1. call' = [call EXCEPT !.pc = "writeData", !.fresh = TRUE, !.flush = TRUE] /\ end' = end
    BY <1>5 DEF FillAndPlaceEntry, WriteSlot, CanFail
  <2>2. call'.pc = "writeData" /\ call'.op = "write" /\ call'.flush
    BY <1>0, <1>5, <2>1 DEF FillAndPlaceEntry, At, CallRecords
  <2>3. QED
    BY <2>2 DEF FlushInv
<1>6. CASE SetBits
  <2>1. UNCHANGED batVars /\ UNCHANGED end /\ call.op = "write"
    BY <1>6 DEF SetBits, diskVars, At
  <2>2. CASE NextBlock("readEntry") \/ Goto("flushBat")
    <3>1. call'.pc \in {"readEntry", "flushBat"} /\ call'.op = call.op /\ call'.flush = call.flush
      BY <1>0, <2>2 DEF NextBlock, Goto, CallRecords
    <3>2. QED
      BY <1>1, <2>1, <3>1, QuietFlush
  <2>3. CASE Return("ok") /\ ~call.flush
    BY <1>1, <2>1, <2>3, QuietFlush, ReturnPc
  <2>4. QED
    BY <1>6, <2>2, <2>3 DEF SetBits
<1>7. CASE ResetBits
  <2>1. BAT!ReadBAT /\ UNCHANGED end /\ call.op = "discard"
    BY <1>7 DEF ResetBits, BAT!ReadEntry, diskVars, At
  <2>2. call'.pc \in {"resetBits", "none"}
    BY <1>0, <1>7, GotoPc, ReturnPc DEF ResetBits
  <2>3. QED
    BY <1>1, <2>1, <2>2, QuietFlush
<1>8. CASE FlushBat
  <2>1. batState' # "EDirty" /\ UNCHANGED end
    BY <1>8 DEF FlushBat, CanFail, BAT!Flush, diskVars
  <2>2. QED
    BY <2>1 DEF FlushInv
<1>9. CASE FlushMapper \/ FlushReturns \/ CloseReturns \/ OpenReturns
  <2>1. batState' # "EDirty"
    BY <1>9
       DEF FlushMapper, FlushReturns, CloseReturns, OpenReturns, At, FlushInv, batVars,
           DropSession, BAT!InvalidateCache
  <2>2. QED
    BY <2>1 DEF FlushInv
<1>10. CASE ScanBlock \/ FillUnset \/ SetUnset
  <2>1. UNCHANGED end /\ call.op = "open"
    BY <1>10 DEF ScanBlock, FillUnset, SetUnset, diskVars, At
  <2>2. BAT!ReadBAT \/ UNCHANGED batVars \/ BAT!InvalidateCache
    BY <1>10
       DEF ScanBlock, FillUnset, SetUnset, WriteSlot, OpenFails, DropSession, BAT!ReadEntry
  <2>3. call'.pc \notin {"flushMapper", "fsync"}
    <3>1. ASSUME NEW x, call' = [call EXCEPT !.pc = "fillUnset", !.slot = x]
          PROVE  call'.pc = "fillUnset"
      BY <1>0, <3>1 DEF CallRecords
    <3>2. CASE ScanNext
      BY <3>2, ScanNextOK DEF Shape
    <3>3. CASE OpenFails
      BY <3>3, ReturnPc DEF OpenFails, DropSession
    <3>4. CASE Goto("setUnset")
      BY <1>0, <3>4, GotoPc
    <3>5. QED
      BY <1>10, <3>1, <3>2, <3>3, <3>4 DEF ScanBlock, FillUnset, SetUnset, WriteSlot
  <2>4. QED
    BY <1>1, <2>1, <2>2, <2>3, QuietFlush
<1>11. CASE WriteDataAnywhere
  <2>1. batState' = "EInvalid" /\ call'.pc = "none"
    BY <1>11, AnywhereOK DEF CanFail, BAT!InvalidateCache
  <2>2. QED
    BY <2>1 DEF FlushInv
<1>12. QED
  BY <1>2, <1>3, <1>4, <1>5, <1>6, <1>7, <1>8, <1>9, <1>10, <1>11 DEF Step

\* Every step does.
LEMMA NextFlush ==
    ASSUME "read" \notin Faults, "write" \notin Faults
    PROVE  Shape /\ FlushInv /\ [Next]_vars => FlushInv'
<1> SUFFICES ASSUME Shape, FlushInv, [Next]_vars PROVE FlushInv'
  OBVIOUS
<1>1. CASE Client
  <2>1. call = NoCall /\ call.op = "none"
    BY <1>1, ClientBegins
  <2>2. /\ UNCHANGED end
        /\ BAT!ReadBAT \/ UNCHANGED batVars \/ BAT!InvalidateCache
    BY <1>1, ClientMoves
  <2>3. batState' = "EDirty" => batState = "EDirty"
    BY <2>2 DEF BAT!ReadBAT, batVars, BAT!InvalidateCache
  <2>4. call'.pc \notin {"flushMapper", "fsync"}
    BY <1>1, ClientBegins
  <2>5. QED
    BY <2>1, <2>2, <2>3, <2>4, QuietFlush
<1>2. CASE ProcessDies
  BY <1>2 DEF ProcessDies, DropSession, BAT!InvalidateCache, FlushInv
<1>3. CASE UNCHANGED vars
  BY <1>3 DEF vars, batVars, diskVars, FlushInv
<1>4. QED
  BY <1>1, <1>2, <1>3, StepFlush DEF Next

\* The new file has no cached table.
LEMMA InitFlush == Init => FlushInv
  BY NoCallOK DEF Init, BAT!Init, FlushInv

\* Where reads and writes of the file do not fail, a write that appended blocks has
\* flushed the table when it returns, unless the disk is full: AppendedBlocksFlushed.
THEOREM AppendsAreFlushed ==
    ASSUME "read" \notin Faults, "write" \notin Faults
    PROVE  Spec => []AppendedBlocksFlushed
<1>1. /\ Shape /\ FlushInv /\ [Next]_vars => Shape' /\ FlushInv'
      /\ Init => Shape /\ FlushInv
  BY NextShape, NextFlush, InitShape, InitFlush
<1>2. FlushInv => AppendedBlocksFlushed
  BY DEF FlushInv, AppendedBlocksFlushed
<1>3. QED
  BY <1>1, <1>2, PTL DEF Spec

=============================================================================
