------------------------------ MODULE VhdFile ------------------------------
(***************************************************************************)
(* One VHD file, sector by sector: created by GenerateFile, one write at a *)
(* time, recognised by DoCreateFromFile from whichever of its footers is   *)
(* valid, extended by AppendBlock, synced at last - while writes fail, the *)
(* process dies, and the system loses power with what was not synced.      *)
(*                                                                         *)
(* The file is what its structures are; of the data of blocks only the     *)
(* first sector is written.  What bits and tables mean for the content of  *)
(* the disk is the subject of DynDiffVhd.                                  *)
(***************************************************************************)
EXTENDS VhdGeometry, Sequences, FiniteSets

CONSTANTS
  Requests,   \* what VHD_Create may be asked for: [type, sectors, secPerBlockLog2]
  Faults,     \* what may go wrong: "write", "fsync", "parent", "power"
  MaxSize     \* bound: no block is appended to a longer file

ASSUME RequestsAssumption ==
  /\ \A r \in Requests :
       /\ r.type \in {"Fixed", "Dynamic", "Diff"}
       /\ r.sectors \in Nat /\ r.secPerBlockLog2 \in Nat
  /\ MaxSize \in Nat

VARIABLES
  file,      \* the file, as the system calls have left it
  durable,   \* the file, as it is if the power fails
  asked,     \* the request the structures in the file are of
  made,      \* GenerateFile has made the file
  sound,     \* such a file was synced
  cut,       \* the power failed after that
  synced,    \* blocks in the table at the last flush that succeeded, and their places
  session,   \* the VHD that is open
  call       \* the call being executed

fileVars == <<file, durable, asked, made, sound, cut, synced>>
vars == <<fileVars, session, call>>

-----------------------------------------------------------------------------
(* Files *)

(* A sector: what it is, and if it is part of a table, how many of its first *)
(* words are 0xFFFFFFFF and which hold the places of blocks; the rest is 0.  *)
Sector(kind, ones) == [kind |-> kind, ones |-> ones, places |-> <<>>]
Plain(kind) == Sector(kind, 0)
Kinds == {"Zero", "Footer", "Header", "Locator", "Table", "Bitmap", "Data", "Junk"}

Unused == -1     \* KBatEntry_Unused
NoPlace == -2    \* bytes that were never written as an entry

NoFile == [exists |-> FALSE, size |-> 0, ragged |-> FALSE, at |-> <<>>]
NewFile == [NoFile EXCEPT !.exists = TRUE]

(* The one sector s, and the sectors of new over those of old *)
One(s, sector) == [t \in {s} |-> sector]
Over(new, old) == [s \in DOMAIN new \cup DOMAIN old |-> IF s \in DOMAIN new THEN new[s] ELSE old[s]]

At(f, s) == IF s \in DOMAIN f.at THEN f.at[s] ELSE Plain("Zero")

EndOf(content) == CHOOSE s \in DOMAIN content : s + 1 \notin DOMAIN content

(* The file with the sectors of content written.  If the last one is behind  *)
(* the end and written in part only, the size of the file is no multiple of  *)
(* a sector: it is ragged.                                                   *)
Write(f, content, partly) ==
  LET end == EndOf(content)
      size == IF partly THEN end ELSE end + 1
  IN  IF content = <<>> THEN f
      ELSE [f EXCEPT !.at = Over(content, @),
                     !.size = IF size > @ THEN size ELSE @,
                     !.ragged = IF partly THEN @ \/ end >= f.size ELSE @ /\ end < f.size]

(* What a write may leave that fails, or is not finished: its sectors up to  *)
(* some point, perhaps with a part of one behind the end of the file.        *)
FailedWrites(f, content) ==
  LET Before(s) == [t \in {u \in DOMAIN content : u < s} |-> content[t]]
  IN  {Write(f, Before(s), FALSE) : s \in DOMAIN content}
        \cup {Write(f, Over(One(s, Plain("Junk")), Before(s)), TRUE) :
                 s \in {t \in DOMAIN content : t >= f.size}}

(* 0xFF over the first words of a sector, over what is there *)
FillOnes(sector, words) ==
  IF words = EntriesPerSector \/ sector.kind \in {"Zero", "Table"}
  THEN Sector("Table", words)
  ELSE Plain("Junk")

EntryIn(sector, i) ==
  IF sector.kind \notin {"Zero", "Table"} THEN NoPlace
  ELSE IF i \in DOMAIN sector.places THEN sector.places[i]
  ELSE IF i < sector.ones THEN Unused ELSE 0

(* The table as it is read from the file *)
TableOf(f, r) == [k \in 0 .. BatSectors(r) - 1 |-> At(f, KBatStartSec + k)]

Entry(table, block) ==
  EntryIn(table[block \div EntriesPerSector], block % EntriesPerSector)

WithEntry(table, block, place) ==
  [table EXCEPT ![block \div EntriesPerSector].places =
     Over(One(block % EntriesPerSector, place), @)]

Blocks(r) == 0 .. MaxBatEntries(r) - 1

-----------------------------------------------------------------------------
(* The layout of a new file: what is written, in this order.  A write is the *)
(* first sector and the sectors, or for the last write of the table the      *)
(* number of entries that become 0xFFFFFFFF.  Of the zeros that fill a fixed  *)
(* disk the first sector is written.                                         *)

Put(at, kinds) == [at |-> at, kinds |-> kinds, ones |-> 0]
PutOnes(at, entries) == [at |-> at, kinds |-> <<>>, ones |-> entries]

Zeros(n) == [i \in 1 .. n |-> "Zero"]

TableWrites(r) == <<Put(KBatStartSec, Zeros(KBatSizeInSectors(r))),
                    PutOnes(KBatStartSec, MaxBatEntries(r))>>

Header == Put(KHdrStartSec, <<"Header", "Header">>)

Layout(r) ==
  LET footer == Put(KFooterSec(r), <<"Footer">>)
      copy == Put(0, <<"Footer">>)
      locators == [i \in 1 .. KNumLocators |-> Put(KLocatorsStartSec(r) + i - 1, <<"Locator">>)]
  IN  CASE r.type = "Fixed" -> <<footer, Put(0, <<"Zero">>)>>
        [] r.type = "Dynamic" -> <<copy, footer, Header>> \o TableWrites(r)
        [] r.type = "Diff" -> locators \o <<footer, copy, Header>> \o TableWrites(r)

(* The sectors a write makes of a file *)
Content(f, w) ==
  IF w.ones = 0
  THEN [s \in w.at .. w.at + Len(w.kinds) - 1 |-> Plain(w.kinds[s - w.at + 1])]
  ELSE LET sectors == (w.ones + EntriesPerSector - 1) \div EntriesPerSector
           Words(k) == IF k < sectors - 1 THEN EntriesPerSector
                       ELSE w.ones - k * EntriesPerSector
       IN  [s \in w.at .. w.at + sectors - 1 |-> FillOnes(At(f, s), Words(s - w.at))]

(* Entries that fill their last sector in part leave the file ragged, when    *)
(* that sector is behind its end.                                             *)
LeavesRagged(f, w) ==
  /\ w.ones % EntriesPerSector # 0
  /\ w.at + w.ones \div EntriesPerSector >= f.size

-----------------------------------------------------------------------------
(* Recognising a file: DoCreateFromFile, and the checks of Open              *)

FooterAt(f, s) == s >= 0 /\ s < f.size /\ At(f, s).kind = "Footer"

LastFooter(f) == ~f.ragged /\ FooterAt(f, f.size - 1)

HeaderAt(f, s) == s + 1 < f.size /\ At(f, s).kind = "Header" /\ At(f, s + 1).kind = "Header"

Recognised_NoCopy(f, r) ==
  IF ~f.exists \/ f.size = 0 THEN "Error"
  ELSE IF LastFooter(f) /\ r.type = "Fixed" THEN "Fixed"
  ELSE IF f.size < KHdrStartSec + 2 THEN "Error"
  ELSE IF ~HeaderAt(f, KHdrStartSec) THEN "Corrupt"
  ELSE IF ~LastFooter(f) THEN "Fault"
  ELSE r.type

(* The type of the object that is made for the file, or why none is.  All     *)
(* footers and headers of the file are of the request r.                      *)
Recognised(f, r) ==
  IF ~f.exists \/ f.size = 0 THEN "Error"                  \* less than 512 bytes
  ELSE IF LastFooter(f) /\ r.type = "Fixed" THEN "Fixed"
  ELSE IF f.size < KHdrStartSec + 2 THEN "Error"           \* the header is cut off
  ELSE IF ~HeaderAt(f, KHdrStartSec) THEN "Corrupt"
  ELSE IF ~LastFooter(f) /\ ~FooterAt(f, 0) THEN "Fault"
  ELSE r.type

Opens(f, r) == Recognised(f, r) \in {"Fixed", "Dynamic", "Diff"} /\ SizeAccepted(r)

-----------------------------------------------------------------------------
(* Calls.  A call that writes has the write it is at in Pending.             *)

Closed == [open |-> FALSE]
NoCall == [pc |-> "none"]
NoRequest == [type |-> "None"]

CanFail(what) == what \in Faults
At_(pc) == call.pc = pc
Goto(pc) == call' = [call EXCEPT !.pc = pc]
Fail(pc) == call' = [call EXCEPT !.pc = pc, !.failed = TRUE]

NewFooterSec_NoBitmap(f, r) == f.size - 1 + SectorsPerBlock(r)

NewFooterSec(f, r) == f.size - 1 + SBmp_SizeInSectors(r) + SectorsPerBlock(r)

BitmapAt(place) == [s \in place .. place + SBmp_SizeInSectors(asked) - 1 |-> Plain("Bitmap")]

Pending ==
  CASE call.pc = "Generate" /\ call.todo # <<>> -> Content(file, Head(call.todo))
    [] call.pc = "AppendFooter" -> One(NewFooterSec(file, asked), At(file, file.size - 1))
    [] call.pc = "AppendBitmap" -> BitmapAt(call.place)
    [] call.pc = "WriteData" -> One(call.place + SBmp_SizeInSectors(asked), Plain("Data"))
    [] call.pc = "FlushBat" /\ session.dirty ->
         [s \in KBatStartSec .. KBatStartSec + BatSectors(asked) - 1 |-> session.table[s - KBatStartSec]]
    [] call.pc = "FlushBits" /\ call.bits # {} ->
         BitmapAt(CHOOSE p \in call.bits : TRUE)
    [] OTHER -> <<>>

OnlyFile == UNCHANGED <<durable, asked, made, sound, cut, synced>>

Written == file' = Write(file, Pending, FALSE) /\ OnlyFile
NotWritten == CanFail("write") /\ file' \in FailedWrites(file, Pending) /\ OnlyFile

-----------------------------------------------------------------------------
(* VHD_Create: GenerateFile, then VHD_Open                                   *)

RequestValid(r) ==
  /\ r.secPerBlockLog2 \in 8 .. 19
  /\ r.type # "Diff" => ChsSectors(r) > 0

(* The parameters are checked and the file is created, if there is none.  The *)
(* parent of a differencing VHD is opened when the file is there already.     *)
VHD_Create(r) ==
  /\ At_("none") /\ ~session.open
  /\ RequestValid(r) /\ ~file.exists
  /\ file' = NewFile /\ asked' = r
  /\ call' = [pc |-> IF r.type = "Diff" THEN "OpenParent" ELSE "Generate", todo |-> Layout(r)]
  /\ UNCHANGED <<durable, made, sound, cut, synced, session>>

Unlink ==
  /\ file' = NoFile
  /\ call' = NoCall
  /\ UNCHANGED <<durable, asked, made, sound, cut, synced, session>>

OpenParent ==
  /\ At_("OpenParent")
  /\ \/ Goto("Generate") /\ UNCHANGED <<fileVars, session>>
     \/ CanFail("parent") /\ Unlink

(* One write of DoGenerateVHD_*; when one fails the file is deleted. *)
Generate ==
  /\ At_("Generate") /\ call.todo # <<>>
  /\ \/ /\ file' = Write(file, Pending, LeavesRagged(file, Head(call.todo)))
        /\ call' = [call EXCEPT !.todo = Tail(@)]
        /\ OnlyFile /\ UNCHANGED session
     \/ CanFail("write") /\ Unlink

Generated ==
  /\ At_("Generate") /\ call.todo = <<>>
  /\ made' = TRUE
  /\ call' = [pc |-> "OpenNew"]
  /\ UNCHANGED <<file, durable, asked, sound, cut, synced, session>>

-----------------------------------------------------------------------------
(* VHD_Open and VHD_Close *)

VHD_Open ==
  /\ At_("none") /\ ~session.open /\ file.exists
  /\ call' = [pc |-> "Open"]
  /\ UNCHANGED <<fileVars, session>>

Opened == [open |-> TRUE, cached |-> FALSE, table |-> <<>>, dirty |-> FALSE, bits |-> {}]

(* Both footers gone and the header there is "not implemented": Fault.       *)
Open ==
  /\ At_("Open") \/ At_("OpenNew")
  /\ session' = IF Opens(file, asked) THEN Opened ELSE Closed
  /\ call' = NoCall
  /\ UNCHANGED fileVars

(* VHD_Flush and VHD_Close, and the end of a write that appended: table,      *)
(* bitmaps, fsync, whatever of them fails.                                    *)
Flushing(why, bits) == [pc |-> "FlushBat", why |-> why, bits |-> bits, failed |-> FALSE]

VHD_Flush(why) ==
  /\ At_("none") /\ session.open
  /\ call' = Flushing(why, session.bits)
  /\ UNCHANGED <<fileVars, session>>

FlushBat ==
  /\ At_("FlushBat")
  /\ \/ Written /\ Goto("FlushBits") /\ session' = [session EXCEPT !.dirty = FALSE]
     \/ session.dirty /\ NotWritten /\ Fail("FlushBits") /\ UNCHANGED session

FlushBits ==
  /\ At_("FlushBits") /\ call.bits # {}
  /\ LET p == CHOOSE q \in call.bits : TRUE
     IN  \/ /\ Written
           /\ call' = [call EXCEPT !.bits = @ \ {p}]
           /\ session' = [session EXCEPT !.bits = @ \ {p}]
        \/ /\ NotWritten
           /\ call' = [call EXCEPT !.bits = @ \ {p}, !.failed = TRUE]
           /\ UNCHANGED session

Placed(table) ==
  [b \in {c \in Blocks(asked) : Entry(table, c) \notin {Unused, NoPlace}} |-> Entry(table, b)]

(* After a power failure the table may have places that were never written. *)
Synced == IF call.failed \/ ~session.cached \/ cut THEN synced ELSE Placed(session.table)

(* What is on the disk after fsync, of all that the calls so far have written *)
Durable_NotSynced == durable
Durable == file

(* fsync, and the end of the call *)
Sync ==
  /\ At_("FlushBits") /\ call.bits = {}
  /\ \/ durable' = Durable /\ sound' = (sound \/ made) /\ synced' = Synced
     \/ CanFail("fsync") /\ UNCHANGED <<durable, sound, synced>>
  /\ call' = NoCall
  /\ session' = IF call.why = "close" THEN Closed ELSE session
  /\ UNCHANGED <<file, asked, made, cut>>

-----------------------------------------------------------------------------
(* Writing a sector of a block of a dynamic or differencing VHD *)

TableReadable ==
  KBatStartSec + BatSectors(asked) <= file.size + (IF file.ragged THEN 1 ELSE 0)

(* The place of the block is looked up; one that is no place is not followed. *)
WriteBlock(b) ==
  /\ At_("none") /\ session.open /\ asked.type # "Fixed"
  /\ session.cached \/ TableReadable
  /\ LET table == IF session.cached THEN session.table ELSE TableOf(file, asked)
         place == Entry(table, b)
     IN  /\ place # NoPlace
         /\ place = Unused => file.size <= MaxSize
         /\ session' = [session EXCEPT !.cached = TRUE, !.table = table]
         /\ call' = [pc |-> IF place = Unused THEN "AppendBlock" ELSE "WriteData",
                     block |-> b, place |-> place, new |-> place = Unused]
  /\ UNCHANGED fileVars

(* The size of the file is checked, its last sector is read as the footer. *)
AppendBlock ==
  /\ At_("AppendBlock")
  /\ call' = IF file.ragged THEN NoCall
             ELSE [call EXCEPT !.pc = "AppendFooter", !.place = file.size - 1]
  /\ UNCHANGED <<fileVars, session>>

AppendFooter ==
  /\ At_("AppendFooter")
  /\ \/ Written /\ Goto("AppendBitmap")
     \/ NotWritten /\ call' = NoCall
  /\ UNCHANGED session

AppendBitmap ==
  /\ At_("AppendBitmap")
  /\ \/ /\ Written
        /\ Goto("WriteData")
        /\ session' = [session EXCEPT !.table = WithEntry(@, call.block, call.place), !.dirty = TRUE]
     \/ NotWritten /\ call' = NoCall /\ UNCHANGED session

(* The data, then the bit in the cached bitmap; after an append all is flushed. *)
WriteData ==
  /\ At_("WriteData")
  /\ \/ /\ Written
        /\ session' = [session EXCEPT !.bits = @ \cup {call.place}]
        /\ call' = IF call.new THEN Flushing("write", session'.bits) ELSE NoCall
     \/ NotWritten /\ call' = NoCall /\ UNCHANGED session

-----------------------------------------------------------------------------
(* The process dies, perhaps within a write. *)
ProcessDies ==
  /\ file' \in {file} \cup FailedWrites(file, Pending)
  /\ session' = Closed /\ call' = NoCall
  /\ session.open \/ call # NoCall
  /\ OnlyFile

(* The power fails: of what was written since the last fsync any sectors and   *)
(* the size may be lost, each for itself.  Before the first fsync nothing is   *)
(* promised, so a power failure then is left out; it fails once, as a bound.   *)
PowerFails ==
  /\ CanFail("power") /\ ~cut /\ sound /\ file # durable
  /\ \E shape \in {file, durable} :
       LET kept == {s \in DOMAIN file.at : s < shape.size \/ (shape.ragged /\ s = shape.size)}
       IN  \E lost \in SUBSET {s \in kept : At(file, s) # At(durable, s)} :
             file' = [shape EXCEPT !.at =
                        [s \in kept |-> IF s \in lost THEN At(durable, s) ELSE file.at[s]]]
  /\ durable' = file'
  /\ cut' = TRUE
  /\ session' = Closed /\ call' = NoCall
  /\ UNCHANGED <<asked, made, sound, synced>>

-----------------------------------------------------------------------------
Init ==
  /\ file = NoFile /\ durable = NoFile /\ asked = NoRequest
  /\ made = FALSE /\ sound = FALSE /\ cut = FALSE /\ synced = <<>>
  /\ session = Closed /\ call = NoCall

Client ==
  \/ \E r \in Requests : VHD_Create(r)
  \/ VHD_Open
  \/ \E why \in {"flush", "close"} : VHD_Flush(why)
  \/ \E b \in IF asked = NoRequest THEN {} ELSE {0, MaxBatEntries(asked) - 1} : WriteBlock(b)

Step ==
  \/ OpenParent \/ Generate \/ Generated \/ Open
  \/ AppendBlock \/ AppendFooter \/ AppendBitmap \/ WriteData
  \/ FlushBat \/ FlushBits \/ Sync

Next == Client \/ Step \/ ProcessDies \/ PowerFails

Spec == Init /\ [][Next]_vars

-----------------------------------------------------------------------------
(* Properties *)

Formatted == asked # NoRequest /\ SizeAccepted(asked)

Dynamic == asked.type \in {"Dynamic", "Diff"}

PlacesIn(table) == {Entry(table, b) : b \in DOMAIN Placed(table)}

(* The shape of the state, and: what a table of a file that GenerateFile made *)
(* holds are entries, whatever failed after that (vhd_file.cpp:1039-1092,     *)
(* block_mng.cpp:160).                                                        *)
TypeOK ==
  /\ file.exists \in BOOLEAN /\ file.ragged \in BOOLEAN /\ file.size \in Nat
  /\ \A s \in DOMAIN file.at :
       /\ s \in 0 .. file.size /\ (s = file.size => file.ragged)
       /\ file.at[s].kind \in Kinds
  /\ asked \in Requests \cup {NoRequest}
  /\ made \in BOOLEAN /\ sound \in BOOLEAN /\ cut \in BOOLEAN /\ session.open \in BOOLEAN
  /\ made /\ Dynamic /\ TableReadable =>
       \A k \in DOMAIN TableOf(file, asked) : TableOf(file, asked)[k].kind \in {"Zero", "Table"}

(* A file that GenerateFile has just made is recognised as what was asked     *)
(* for, has a footer in its last sector, and a table with an unused entry for *)
(* each block of the disk that the session will have (vhd_create.cpp:245-616, *)
(* vhd_file.cpp:303).                                                         *)
FreshFileSound ==
  made /\ At_("OpenNew") /\ Formatted =>
    /\ Recognised(file, asked) = asked.type
    /\ LastFooter(file)
    /\ Dynamic =>
         /\ \A b \in Blocks(asked) : Entry(TableOf(file, asked), b) = Unused
         /\ (CHS_DiskSzInSectors(asked) - 1) \div SectorsPerBlock(asked) \in Blocks(asked)

(* A comment of the code says of the second write of a dynamic VHD that it is *)
(* the footer in the last sector of the file (vhd_create.cpp:288).            *)
FooterIsLastSector ==
  made /\ At_("OpenNew") => LastFooter(file)

(* A VHD that was made and synced once can be opened ever after, as what it   *)
(* is: when the footer at the end is lost, because the write that moves it    *)
(* failed or because of a crash, its copy serves (vhd_file.cpp:156).          *)
StaysOpenable ==
  sound /\ Formatted => Recognised(file, asked) = asked.type

(* Places that were in the table at a successful flush, before the power ever *)
(* failed, stay in the table, and what is there stays the bitmap of the block *)
(* - when later flushes and appends fail half-way, when the process dies, and *)
(* when the power fails (vhd_file.cpp:287, 899, 1039).                       *)
EntriesSurvive ==
  sound =>
    \A b \in DOMAIN synced :
      /\ Entry(TableOf(file, asked), b) = synced[b]
      /\ \A s \in DOMAIN BitmapAt(synced[b]) : At(file, s).kind = "Bitmap"

(* As long as the power does not fail, no two blocks of a file that was made  *)
(* share a sector, none has one of the structures before the blocks, and all  *)
(* end in the file; in the table of the file and in that of the session       *)
(* (vhd_file.cpp:1063).                                                       *)
BlocksApart ==
  made /\ ~cut /\ Dynamic =>
    LET Region(p) == p .. p + SBmp_SizeInSectors(asked) + SectorsPerBlock(asked) - 1
        places(table) == PlacesIn(table)
        Apart(table) ==
          /\ Cardinality(places(table)) = Cardinality(DOMAIN Placed(table))
          /\ \A p \in places(table) :
               /\ p >= KFooterSec(asked) /\ p >= KBatStartSec + BatSectors(asked)
               /\ p + SBmp_SizeInSectors(asked) + SectorsPerBlock(asked) <= file.size
               /\ \A q \in places(table) : p < q => p + Cardinality(Region(p)) <= q
    IN  Apart(TableOf(file, asked)) /\ (session.open /\ session.cached => Apart(session.table))

(* The disk is never larger than what was asked for and at most a cylinder    *)
(* smaller, up to the largest that a VHD can have; cylinders, heads and       *)
(* sectors fit their fields (data_structures.cpp:460-492).                    *)
GeometryKeepsSize ==
  asked # NoRequest =>
    LET chs == SectorsToCHS(asked.sectors)
        size == IF asked.sectors > MaxSectors THEN MaxSectors ELSE asked.sectors
    IN  /\ chs.cylinders < 2^16 /\ chs.heads \in 4 .. 16 /\ chs.spt < 2^8
        /\ ChsToSectors(chs) <= size
        /\ size - ChsToSectors(chs) < chs.heads * chs.spt
=============================================================================
