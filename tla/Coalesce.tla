------------------------------ MODULE Coalesce ------------------------------
(***************************************************************************)
(* VHD_CoalesceChain (libvhd2.cpp, vhd_file_coalesce.cpp): the data of     *)
(* some files of a chain is brought together in one of them, the chain is  *)
(* relinked around the others, and they are deleted.  With a result index  *)
(* of 0 the files are coalesced into the open tail itself, else into a     *)
(* temporary file that is then renamed to be one of the parents.  Both     *)
(* proceed one system call at a time, any of which can fail.               *)
(*                                                                         *)
(* The client may also write to the tail, flush, close and open it again;  *)
(* DynDiffVhd has the steps of these calls.                                *)
(***************************************************************************)
EXTENDS VhdChain

CONSTANTS
    Args,       \* bound: the <<aChainLength, aChainIdxResult>> of the calls
    Modes,      \* the sets of VHD_Open flags the client uses
    Writable,   \* bound: the sectors the client writes
    Faults      \* the kinds of system calls that may fail

Flags == {"RDWR", "PURE"}

ASSUME CallsAssumption ==
    /\ Args \subseteq Nat \X Nat /\ Modes \subseteq SUBSET Flags /\ Writable \subseteq Sectors
    /\ Faults \subseteq {"read", "write", "fsync", "create", "rename", "unlink", "room"}

VARIABLES
    handle,     \* the client has a handle of the tail
    vhd,        \* vhd[f]: the object of the tail or the temporary file, with its caches
    call,       \* the call being executed, and its local variables
    reply       \* what the last call returned

vars == <<files, handle, vhd, call, reply>>

Objects == {TailVhd, Tmp}

Closed == [open |-> FALSE, flags |-> {}, parent |-> NoUuid, present |-> {}, bits |-> {},
           dirty |-> {}]

NoCall == [op |-> "none", pc |-> "none", len |-> 0, idx |-> 0, to |-> TailVhd, parent |-> NoName,
           block |-> 0, todo |-> {}, loc |-> 1, strays |-> <<>>]

Pure(f) == "PURE" \in vhd[f].flags

\* A file as its object sees it: through the caches, and its own copy of the header.
View(f) == [files[f] EXCEPT !.parent = vhd[f].parent, !.present = vhd[f].present,
                            !.bits = vhd[f].bits]

\* What the client reads.
Seen == Contents(View(TailVhd), Pure(TailVhd))

CanFail(kind) == kind \in Faults

Ready == handle /\ vhd[TailVhd].open /\ call = NoCall

Refuse(kind) == reply' = kind /\ UNCHANGED call

Return(kind) == call' = NoCall /\ reply' = kind

Goto(pc) == call' = [call EXCEPT !.pc = pc] /\ UNCHANGED reply

\* What is wrong with the temporary file is not wrong with the chain: the file is given up.
Fail == IF call.to = Tmp THEN Goto("giveUp") ELSE Return("error")

-----------------------------------------------------------------------------
(***************************************************************************)
(* Caches                                                                  *)
(***************************************************************************)

\* The table is written, and the bitmaps of the blocks in D.
Written(f, D) ==
    [files[f] EXCEPT !.present = vhd[f].present,
                     !.bits = {s \in Sectors : IF SectorToBlockNumber(s) \in D
                                               THEN s \in vhd[f].bits ELSE s \in @}]

FlushOk(f) ==
    /\ files' = [files EXCEPT ![f] = Written(f, vhd[f].dirty)]
    /\ vhd' = [vhd EXCEPT ![f].dirty = {}]

\* A flush goes on when a part of it fails.
FlushFails(f) ==
    \E D \in SUBSET vhd[f].dirty, table \in {vhd[f].present, files[f].present} :
      /\ CanFail("write") \/ (CanFail("fsync") /\ D = vhd[f].dirty /\ table = vhd[f].present)
      /\ files' = [files EXCEPT ![f] = [Written(f, D) EXCEPT !.present = table]]
      /\ vhd' = [vhd EXCEPT ![f].dirty = @ \ D]

\* Pages are written back when others need their place, never that of block b.
EvictBut(f, b) ==
    \E D \in SUBSET (vhd[f].dirty \ {b}) :
      /\ files' = [files EXCEPT ![f] = [Written(f, D) EXCEPT !.present = files[f].present]]
      /\ vhd' = [vhd EXCEPT ![f].dirty = @ \ D]

\* Closing flushes, and ends the process when a cache stays dirty.
CloseDies(f) ==
    \E D \in SUBSET vhd[f].dirty, table \in {vhd[f].present, files[f].present} :
      /\ CanFail("write") /\ (D # vhd[f].dirty \/ table # vhd[f].present)
      /\ files' = [files EXCEPT ![f] = [Written(f, D) EXCEPT !.present = table]]
      /\ handle' = FALSE
      /\ vhd' = [g \in Objects |-> Closed]
      /\ Return("died")

\* An object of file v; its header is that of the file, or the one it had before.
Opened(v, flags, parent) ==
    [open |-> TRUE, flags |-> flags, parent |-> parent, present |-> v.present, bits |-> v.bits,
     dirty |-> {}]

\* In writable pure mode, Open makes the bitmaps of all present blocks full.  The parents
\* are pure too: each holds all of a block or nothing, so that no read is split.
Filled(v, flags) ==
    IF {"RDWR", "PURE"} \subseteq flags
    THEN LET missing == {s \in Sectors \ v.bits : SectorToBlockNumber(s) \in v.present}
         IN  [v EXCEPT !.bits = @ \cup missing,
                       !.data = [s \in Sectors |->
                           IF s \in missing THEN ReadFrom(ParentsOf(v), s, TRUE) ELSE @[s]]]
    ELSE v

-----------------------------------------------------------------------------
(***************************************************************************)
(* Calls of the client that are not taken apart here                       *)
(***************************************************************************)

Open(flags) ==
    /\ ~handle
    /\ \/ /\ CanOpen(files[TailVhd])
          /\ LET v == Filled(files[TailVhd], flags)
             IN  /\ files' = [files EXCEPT ![TailVhd] = v]
                 /\ vhd' = [vhd EXCEPT ![TailVhd] = Opened(v, flags, v.parent)]
          /\ handle' = TRUE
          /\ reply' = "ok"
       \/ /\ ~CanOpen(files[TailVhd]) \/ CanFail("read")
          /\ reply' = "error"
          /\ UNCHANGED <<files, handle, vhd>>
    /\ UNCHANGED call

\* A write of one sector.  A call that appends a block flushes before it returns.
WriteSectors(s) ==
    /\ Ready
    /\ "RDWR" \in vhd[TailVhd].flags
    /\ LET b == SectorToBlockNumber(s)
           fresh == b \notin vhd[TailVhd].present
           all == SectorsOf(b)
           bits == IF Pure(TailVhd) THEN all ELSE {s}
           old == IF fresh THEN vhd[TailVhd].bits \ all ELSE vhd[TailVhd].bits
           dirt == IF fresh THEN {} ELSE IF all \subseteq old THEN vhd[TailVhd].dirty
                   ELSE vhd[TailVhd].dirty \cup {b}
           data == [t \in Sectors |->
                       CASE t = s -> New
                         [] t \in all \ {s} /\ fresh -> IF Pure(TailVhd) THEN Seen[t] ELSE Junk
                         [] OTHER -> files[TailVhd].data[t]]
       IN  /\ vhd' = [vhd EXCEPT ![TailVhd].present = @ \cup {b}, ![TailVhd].bits = old \cup bits,
                                 ![TailVhd].dirty = dirt]
           /\ files' = [files EXCEPT ![TailVhd].data = data,
                          ![TailVhd].present = IF fresh THEN vhd[TailVhd].present \cup {b} ELSE @,
                          ![TailVhd].bits = IF fresh THEN old \cup bits ELSE @]
    /\ Refuse("ok")
    /\ UNCHANGED handle

Flush ==
    /\ Ready
    /\ \/ FlushOk(TailVhd) /\ Refuse("ok")
       \/ FlushFails(TailVhd) /\ Refuse("error")
    /\ UNCHANGED handle

Close ==
    /\ handle /\ call = NoCall
    /\ \/ /\ handle' = FALSE
          /\ vhd' = [vhd EXCEPT ![TailVhd] = Closed]
          /\ files' = IF vhd[TailVhd].open
                      THEN [files EXCEPT ![TailVhd] = Written(TailVhd, vhd[TailVhd].dirty)]
                      ELSE files
          /\ Refuse("ok")
       \/ CloseDies(TailVhd)

\* The process dies, by a Fault or from outside.
ProcessDies ==
    /\ handle' = FALSE
    /\ vhd' = [f \in Objects |-> Closed]
    /\ Return("died")
    /\ UNCHANGED files

-----------------------------------------------------------------------------
(***************************************************************************)
(* VHD_CoalesceChain                                                       *)
(***************************************************************************)

\* A length of 0 asks for all parents but the head.
ChainLength(len, parents) == IF len = 0 THEN Len(parents) - 1 ELSE len

\* The parents that will not be needed any more.
Strays(n, idx, parents) == SubSeq(parents, idx + 1, IF idx = 0 THEN n ELSE idx + n - 1)

\* Mutant: the new parent is the last of the files that are coalesced.
NewParent_OffByOne(n, idx, parents) == parents[IF idx = 0 THEN n ELSE idx + n - 1]

\* The parent of the last file that is coalesced.
NewParent(n, idx, parents) == parents[IF idx = 0 THEN n + 1 ELSE idx + n]

\* GetInfo finds parent number i.
CoalesceChain(args) ==
    /\ Ready
    /\ LET parents == ParentsOf(View(TailVhd))
           idx == args[2]
           n == ChainLength(args[1], parents)
           needed == IF idx = 0 THEN n + 1 ELSE idx + n - 1
           ofTail == [NoCall EXCEPT !.op = "intoTail", !.pc = "block", !.len = n,
                                    !.strays = Strays(n, 0, parents),
                                    !.parent = NewParent(n, 0, parents)]
           ofParent == [NoCall EXCEPT !.op = "safely", !.pc = "create", !.len = n, !.idx = idx,
                                      !.to = Tmp, !.strays = Strays(n, idx, parents)]
           trivial == n < (IF idx = 0 THEN 1 ELSE 2)
       IN  \/ (args[1] = 0 => Complete(parents))
              /\ ~trivial /\ Len(parents) >= needed
              /\ IF idx > 0 THEN call' = ofParent /\ reply' = "none"
                 ELSE IF "RDWR" \in vhd[TailVhd].flags THEN call' = ofTail /\ reply' = "none"
                      ELSE Refuse("error")
           \/ args[1] = 0 /\ ~Complete(parents) /\ Refuse("error")
           \/ (args[1] = 0 => Complete(parents)) /\ trivial /\ Refuse("ok")
           \/ ~trivial /\ Len(parents) < needed /\ Refuse("error")
           \/ CanFail("read") /\ Refuse("error")
    /\ UNCHANGED <<files, handle, vhd>>

-----------------------------------------------------------------------------
(***************************************************************************)
(* The temporary file                                                      *)
(***************************************************************************)

\* The temporary file, v, is deleted; a failure does not matter.
UnlinkTmp(v) ==
    \/ files' = [files EXCEPT ![Tmp] = NoFile]
    \/ CanFail("unlink") /\ files' = [files EXCEPT ![Tmp] = v]

\* A file left over from before is deleted, and a new one created, which fails when the
\* old one is still there; then it is deleted once more.
CreateTmp ==
    /\ call.pc = "create"
    /\ \/ /\ files' = [files EXCEPT ![Tmp] = BadFile]
          /\ Goto("generate")
       \/ /\ CanFail("create") \/ (CanFail("unlink") /\ files[Tmp].kind # "none")
          /\ UnlinkTmp(files[Tmp])
          /\ Return("error")
    /\ UNCHANGED <<handle, vhd>>

\* Mutant: the temporary file gets a UUID of its own.
TmpFile_OwnUuid ==
    LET result == ParentsOf(View(TailVhd))[call.idx]
    IN  [NoFile EXCEPT !.kind = "diff", !.parent = files[result].uuid,
                       !.locs = [i \in Locators |-> result]]

\* An empty file with the UUID of the result, and the result as its parent.
TmpFile ==
    LET result == ParentsOf(View(TailVhd))[call.idx]
    IN  [NoFile EXCEPT !.kind = "diff", !.uuid = files[result].uuid,
                       !.parent = files[result].uuid, !.locs = [i \in Locators |-> result]]

\* It is written and opened; what follows needs the parent of the last file.
GenerateTmp ==
    /\ call.pc = "generate"
    /\ LET parents == ParentsOf(View(TailVhd))
       IN  \/ /\ files' = [files EXCEPT ![Tmp] = TmpFile]
              /\ vhd' = [vhd EXCEPT ![Tmp] = Opened(TmpFile, {"RDWR"}, TmpFile.parent)]
              /\ IF Len(parents) >= call.idx + call.len
                 THEN /\ call' = [call EXCEPT !.pc = "block",
                                    !.parent = NewParent(call.len, call.idx, parents)]
                      /\ UNCHANGED reply
                 ELSE Goto("giveUp")
           \/ /\ CanFail("write") \/ CanFail("read")
              /\ UnlinkTmp(BadFile) \/ UnlinkTmp(TmpFile)
              /\ Return("error")
              /\ UNCHANGED vhd
    /\ UNCHANGED handle

\* Mutant: the temporary file is left where it is.
GiveUp_NoUnlink ==
    /\ call.pc = "giveUp"
    /\ files' = [files EXCEPT ![Tmp] = Written(Tmp, vhd[Tmp].dirty)]
    /\ vhd' = [vhd EXCEPT ![Tmp] = Closed]
    /\ Return("error")
    /\ UNCHANGED handle

\* It is closed and deleted.
GiveUp ==
    /\ call.pc = "giveUp"
    /\ \/ /\ UnlinkTmp(Written(Tmp, vhd[Tmp].dirty))
          /\ vhd' = [vhd EXCEPT ![Tmp] = Closed]
          /\ Return("error")
          /\ UNCHANGED handle
       \/ CloseDies(Tmp)

-----------------------------------------------------------------------------
(***************************************************************************)
(* Coalescing data: DoCoalesceBlock for each block                         *)
(***************************************************************************)

\* Mutant: only the first parent is looked at.
ToCopy_FirstParent(v, b, n) ==
    LET parents == ParentsOf(v)
    IN  {s \in SectorsOf(b) \ Bitmap(v) : parents # <<>> /\ s \in Bitmap(files[parents[1]])}

\* Mutant: the sectors of the file itself are not excluded.
ToCopy_Overwrites(v, b, n) ==
    LET parents == ParentsOf(v)
    IN  {s \in SectorsOf(b) :
            \E i \in 1 .. n : i <= Len(parents) /\ s \in Bitmap(files[parents[i]])}

\* The sectors of block b that are missing in v and in one of its n parents.
ToCopy(v, b, n) ==
    LET parents == ParentsOf(v)
    IN  {s \in SectorsOf(b) \ Bitmap(v) :
            \E i \in 1 .. n : i <= Len(parents) /\ s \in Bitmap(files[parents[i]])}

\* Mutant: the block number is not advanced.
NextBlock_SameBlock ==
    /\ call' = IF call.block = NumBlocks - 1 THEN [call EXCEPT !.pc = "detach"]
               ELSE [call EXCEPT !.pc = "block"]
    /\ UNCHANGED reply

\* Mutant: the last block is not recognised.
NextBlock_PastLast ==
    /\ call' = IF call.block = NumBlocks THEN [call EXCEPT !.pc = "detach"]
               ELSE [call EXCEPT !.pc = "block", !.block = @ + 1]
    /\ UNCHANGED reply

\* Mutant: the parents of the tail are deleted before its parent is changed.
NextBlock_NoDetach ==
    /\ call' = IF call.block = NumBlocks - 1
               THEN [call EXCEPT !.pc = IF call.to = Tmp THEN "detach" ELSE "unlink"]
               ELSE [call EXCEPT !.pc = "block", !.block = @ + 1]
    /\ UNCHANGED reply

\* On to the next block, and after the last to the parent.
NextBlock ==
    /\ call' = IF call.block = NumBlocks - 1 THEN [call EXCEPT !.pc = "detach"]
               ELSE [call EXCEPT !.pc = "block", !.block = @ + 1]
    /\ UNCHANGED reply

\* A bitmap that is dirty cannot be copied out of the cache.
CoalesceBlock ==
    /\ call.pc = "block"
    /\ LET f == call.to
           b == call.block
           todo == ToCopy(View(f), b, call.len)
           present == b \in vhd[f].present
       IN  /\ EvictBut(f, b)
           /\ \/ (present /\ b \in vhd[f].dirty) /\ Fail
              \/ CanFail("read") /\ Fail
              \/ ~(present /\ b \in vhd[f].dirty)
                 /\ IF todo = {} THEN NextBlock
                    ELSE /\ call' = [call EXCEPT !.todo = todo,
                                                 !.pc = IF present THEN "copy" ELSE "append"]
                         /\ UNCHANGED reply
    /\ UNCHANGED handle

\* The new block has no bits set yet; its entry is written at once.
AppendBlock ==
    /\ call.pc = "append"
    /\ LET f == call.to
           bits == vhd[f].bits \ SectorsOf(call.block)
           placed == vhd[f].present \cup {call.block}
           file(table) == [files[f] EXCEPT !.present = table, !.bits = @ \ SectorsOf(call.block),
                             !.data = [s \in Sectors |->
                                 IF s \in SectorsOf(call.block) THEN Junk ELSE @[s]]]
       IN  \/ /\ files' = [files EXCEPT ![f] = file(placed)]
              /\ vhd' = [vhd EXCEPT ![f].present = placed, ![f].bits = bits]
              /\ Goto("copy")
           \/ /\ CanFail("write")
              /\ \/ UNCHANGED <<files, vhd>>
                 \/ \E table \in {placed, files[f].present} :
                      /\ files' = [files EXCEPT ![f] = file(table)]
                      /\ vhd' = [vhd EXCEPT ![f].present = placed, ![f].bits = bits]
              /\ Fail
    /\ UNCHANGED handle

\* The first extent of sectors that are to be copied.
FirstExtent(todo) ==
    LET start == CHOOSE s \in todo : \A t \in todo : s <= t
    IN  {s \in todo : start .. s \subseteq todo}

\* Its sectors are read together through the chain and written, in one piece as long as
\* they fit the scratch buffer (256 sectors), then its bits are set.  Sectors whose reads
\* failed are written as well, where the chain misses the error.
CopyExtent ==
    /\ call.pc = "copy"
    /\ LET f == call.to
           parents == ParentsOf(View(f))
           extent == FirstExtent(call.todo)
           missed == IF CanFail("read") THEN ErrorsMissed(parents, extent, Pure(f)) ELSE {}
           copied(W, F) == [files EXCEPT ![f].data = [s \in Sectors |->
                               IF s \in F THEN Junk
                               ELSE IF s \in W THEN ReadRange(parents, extent, s, Pure(f))
                               ELSE @[s]]]
       IN  \/ /\ \E F \in SUBSET missed : files' = copied(extent, F)
              /\ vhd' = [vhd EXCEPT ![f].bits = @ \cup extent, ![f].dirty = @ \cup {call.block}]
              /\ call' = [call EXCEPT !.todo = @ \ extent,
                                      !.pc = IF extent = call.todo THEN "flushBits" ELSE "copy"]
              /\ UNCHANGED reply
           \/ /\ \E W \in SUBSET extent, F \in SUBSET missed :
                    /\ CanFail("write") \/ (CanFail("read") /\ W # extent)
                    /\ F \subseteq W
                    /\ files' = copied(W, F)
              /\ UNCHANGED vhd
              /\ Fail
    /\ UNCHANGED handle

\* The bitmaps are flushed after each block.
FlushBits ==
    /\ call.pc = "flushBits"
    /\ \/ FlushOk(call.to) /\ NextBlock
       \/ /\ CanFail("write")
          /\ FlushFails(call.to)
          /\ Fail
    /\ UNCHANGED handle

-----------------------------------------------------------------------------
(***************************************************************************)
(* ChangeParentVHD                                                         *)
(***************************************************************************)

\* All is flushed, the caches and the old parents closed, the new parent opened and
\* the room for its name checked.
Detach ==
    /\ call.pc = "detach"
    /\ \/ /\ FlushOk(call.to)
          /\ IF CanOpen(files[call.parent])
             THEN call' = [call EXCEPT !.pc = "locators", !.loc = 1] /\ UNCHANGED reply
             ELSE Fail
       \/ FlushOk(call.to) /\ (CanFail("read") \/ CanFail("room")) /\ Fail
       \/ FlushFails(call.to) /\ Fail
    /\ UNCHANGED handle

\* The header of the object names the new parent from here on, that of the file not yet.
WriteLocator ==
    /\ call.pc = "locators"
    /\ LET f == call.to
           become(x) == [files EXCEPT ![f].locs[call.loc] = x]
       IN  /\ vhd' = [vhd EXCEPT ![f].parent = files[call.parent].uuid]
           /\ \/ /\ files' = become(call.parent)
                 /\ call' = IF call.loc = NumLocators THEN [call EXCEPT !.pc = "header"]
                            ELSE [call EXCEPT !.loc = @ + 1]
                 /\ UNCHANGED reply
              \/ /\ CanFail("write")
                 /\ files' \in {files, become(call.parent), become(NoName)}
                 /\ Fail
    /\ UNCHANGED handle

WriteHeader ==
    /\ call.pc = "header"
    /\ LET f == call.to
           written == [files EXCEPT ![f].parent = vhd[f].parent]
       IN  \/ /\ files' = written
              /\ Goto(IF f = Tmp THEN "flushTmp" ELSE "unlink")
           \/ /\ CanFail("write")
              /\ files' \in {files, written, [files EXCEPT ![f].kind = "bad"]}
              /\ Fail
    /\ UNCHANGED <<handle, vhd>>

-----------------------------------------------------------------------------
(***************************************************************************)
(* The temporary file takes its place                                      *)
(***************************************************************************)

\* It is flushed and closed.
FlushTmp ==
    /\ call.pc = "flushTmp"
    /\ \/ /\ files' = [files EXCEPT ![Tmp] = Written(Tmp, vhd[Tmp].dirty)]
          /\ vhd' = [vhd EXCEPT ![Tmp] = Closed]
          /\ Goto("closeTail")
       \/ FlushFails(Tmp) /\ Fail
    /\ UNCHANGED handle

\* The chain is closed.
CloseTail ==
    /\ call.pc = "closeTail"
    /\ \/ /\ files' = [files EXCEPT ![TailVhd] = Written(TailVhd, vhd[TailVhd].dirty)]
          /\ vhd' = [vhd EXCEPT ![TailVhd].open = FALSE, ![TailVhd].dirty = {}]
          /\ Goto("rename")
          /\ UNCHANGED handle
       \/ CloseDies(TailVhd)

\* Mutant: the result is overwritten in two steps of which the second may fail.
Rename_DeletesFirst ==
    /\ call.pc = "rename"
    /\ LET result == files[Tmp].uuid
       IN  \/ /\ files' = [files EXCEPT ![result] = files[Tmp], ![Tmp] = NoFile]
              /\ Goto("reopen")
           \/ /\ CanFail("rename")
              /\ files' = [files EXCEPT ![result] = NoFile, ![Tmp] = NoFile]
              /\ Return("error")
    /\ UNCHANGED <<handle, vhd>>

\* The file with the name of the result is the one that has its UUID: renaming gave every
\* result the UUID of the file it replaced.
Rename ==
    /\ call.pc = "rename"
    /\ LET result == files[Tmp].uuid
       IN  \/ /\ files' = [files EXCEPT ![result] = files[Tmp], ![Tmp] = NoFile]
              /\ Goto("reopen")
           \/ /\ CanFail("rename")
              /\ UnlinkTmp(files[Tmp])
              /\ Return("error")
    /\ UNCHANGED <<handle, vhd>>

\* The object of the tail is opened again, with the header it has.
Reopen ==
    /\ call.pc = "reopen"
    /\ \/ /\ CanOpen(files[TailVhd])
          /\ LET v == Filled(files[TailVhd], vhd[TailVhd].flags)
             IN  /\ files' = [files EXCEPT ![TailVhd] = v]
                 /\ vhd' = [vhd EXCEPT ![TailVhd] = Opened(v, @.flags, @.parent)]
          /\ Goto("unlink")
       \/ /\ ~CanOpen(files[TailVhd]) \/ CanFail("read")
          /\ Return("error")
          /\ UNCHANGED <<files, vhd>>
    /\ UNCHANGED handle

-----------------------------------------------------------------------------

\* The strays are deleted one by one; a failure does not matter.
UnlinkStrays ==
    /\ call.pc = "unlink"
    /\ \/ /\ call.strays = <<>>
          /\ Return("ok")
          /\ UNCHANGED files
       \/ /\ call.strays # <<>>
          /\ \/ files' = [files EXCEPT ![call.strays[1]] = NoFile]
             \/ CanFail("unlink") /\ UNCHANGED files
          /\ call' = [call EXCEPT !.strays = SubSeq(@, 2, Len(@))]
          /\ UNCHANGED reply
    /\ UNCHANGED <<handle, vhd>>

Step ==
    \/ CreateTmp \/ GenerateTmp \/ GiveUp
    \/ CoalesceBlock \/ AppendBlock \/ CopyExtent \/ FlushBits
    \/ Detach \/ WriteLocator \/ WriteHeader
    \/ FlushTmp \/ CloseTail \/ Rename \/ Reopen
    \/ UnlinkStrays

Client ==
    \/ \E flags \in Modes : Open(flags)
    \/ \E s \in Writable : WriteSectors(s)
    \/ Flush
    \/ Close
    \/ \E args \in Args : CoalesceChain(args)

\* A chain whose files were written in order: every one may hold any sectors of its
\* blocks, each with the number of the file.
Diff(f, present, bits) ==
    [kind |-> "diff", uuid |-> f, parent |-> f + 1, locs |-> [i \in Locators |-> f + 1],
     present |-> present, bits |-> bits,
     data |-> [s \in Sectors |-> IF s \in bits THEN f ELSE Junk]]

HeadFile == [NoFile EXCEPT !.kind = "head", !.uuid = HeadVhd, !.data = [s \in Sectors |-> HeadVhd]]

Init ==
    /\ \E bits \in [0 .. NumDiffs - 1 -> SUBSET Sectors] :
         files = [f \in Names |->
                    CASE f < HeadVhd ->
                           Diff(f, {SectorToBlockNumber(s) : s \in bits[f]}, bits[f])
                      [] f = HeadVhd -> HeadFile
                      [] OTHER -> NoFile]
    /\ handle = FALSE
    /\ vhd = [f \in Objects |-> Closed]
    /\ call = NoCall
    /\ reply = "none"

Next == Step \/ Client \/ ProcessDies

Spec == Init /\ [][Next]_vars

\* A call is executed by the thread that made it.
FairSpec == Spec /\ WF_vars(Step)

-----------------------------------------------------------------------------
(***************************************************************************)
(* Properties                                                              *)
(***************************************************************************)

\* The variables keep their types.
TypeOK ==
    /\ files \in [Names -> Vhds]
    /\ handle \in BOOLEAN
    /\ \A f \in Objects :
         /\ vhd[f].flags \subseteq Flags /\ vhd[f].parent \in 0 .. NoUuid
         /\ vhd[f].present \subseteq Blocks /\ vhd[f].bits \subseteq Sectors
         /\ vhd[f].dirty \subseteq vhd[f].present
    /\ call.block \in Blocks /\ call.todo \subseteq Sectors /\ call.loc \in Locators
    /\ call.parent \in Names \cup {NoName}
    /\ reply \in {"none", "ok", "error", "died"}

\* The chain can be opened, whatever has happened.  VHD_CoalesceChain with a result index
\* above 0 "will either succeed or the chain of VHDs will remain intact".
ChainIntact == CanOpen(files[TailVhd]) /\ Complete(ParentsOf(files[TailVhd]))

\* No file that is about to be deleted is in the chain.
StraysAreUnlinked ==
    call.pc = "unlink" =>
        \A i \in 1 .. Len(call.strays), j \in 1 .. Len(ParentsOf(files[TailVhd])) :
            call.strays[i] # ParentsOf(files[TailVhd])[j]

\* When a call returns, the temporary file is gone, as long as files can be deleted.
NoTemporaryFileLeft ==
    [][call.op = "safely" /\ call' = NoCall /\ reply' # "died" => files'[Tmp] = NoFile]_vars

\* Every call returns.
CallsReturn == call # NoCall ~> call = NoCall

=============================================================================
