------------------------------ MODULE Sessions ------------------------------
(***************************************************************************)
(* Processes that create, open, read and close VHDs of the same chains:    *)
(* the handles of libvhd2.cpp, the descriptors a VHD and its parents hold, *)
(* the record locks of DoOpenFile and GenerateFile, and the names and      *)
(* inodes of the files.                                                    *)
(*                                                                         *)
(* A record lock belongs to a process and an inode: a process is never     *)
(* refused because of its own locks, and loses the lock when it closes any *)
(* of its descriptors of the inode.  What is in the files is in VhdFile    *)
(* and DynDiffVhd.                                                         *)
(***************************************************************************)
EXTENDS Naturals, Sequences, FiniteSets

CONSTANTS
  Procs,        \* processes; each makes one call at a time
  Files,        \* names of files
  Chain,        \* Chain[f]: f, its parent, and so on to the head of the chain
  Inodes,
  NoInode,
  Modes,        \* sets of flags that VHD_Open is given, of "RDWR", "EXCLUSIVE", "IGNORE"
  MaxClients,   \* KMaxVhdClients
  Faults        \* what may go wrong: "write" (of a new file), "die"

ASSUME SessionsAssumption ==
  /\ NoInode \notin Inodes
  /\ MaxClients \in Nat \ {0}
  /\ \A f \in Files :
       /\ Chain[f] \in Seq(Files) /\ Chain[f] # <<>> /\ Chain[f][1] = f
       /\ \A k, l \in DOMAIN Chain[f] : Chain[f][k] = Chain[f][l] => k = l
  /\ \E n \in [Files -> Inodes] : \A f, g \in Files : n[f] = n[g] => f = g
  /\ \A flags \in Modes : flags \subseteq {"RDWR", "EXCLUSIVE", "IGNORE"}

VARIABLES
  names,        \* names[f]: the inode that has the name f
  content,      \* content[i]: "empty", "partial", "whole", or "abandoned" by its maker
  fds,          \* fds[p][i]: how many descriptors of i the process p has
  locks,        \* locks[p][i]: the record lock of p on i, "R", "W" or "none"
  iPtrArray,    \* iPtrArray[p][h]: the VHD with the handle h
  iNumClients,
  call          \* call[p]: the call that p is in

fileVars == <<names, content>>
lockVars == <<fds, locks>>
handleVars == <<iPtrArray, iNumClients>>
vars == <<fileVars, lockVars, handleVars, call>>

Handles == 1 .. MaxClients

(* A VHD: its name, its flags, and the inodes of it and of its parents, as   *)
(* far as they have been opened.                                             *)
NoVhd == [file |-> "none", flags |-> {}, nodes |-> <<>>]
IsOpen(vhd) == vhd.nodes # <<>>

(* The file a call makes: its name, the flags to open it with, its inode *)
NoNew == [file |-> "none", flags |-> {}, node |-> NoInode, made |-> FALSE]

NoCall == [op |-> "none", pc |-> "none", file |-> "none", flags |-> {}, node |-> NoInode,
           handle |-> 0, new |-> NoNew, closing |-> <<>>]

NodesOf(nodes) == {nodes[k] : k \in DOMAIN nodes}
FilesOf(chain) == {chain[k] : k \in DOMAIN chain}

Idle(p) == call[p].pc = "none"
At(p, pc) == call[p].pc = pc
Goto(p, pc) == call' = [call EXCEPT ![p].pc = pc]
Return(p) == call' = [call EXCEPT ![p] = NoCall]
CanFail(what) == what \in Faults

-----------------------------------------------------------------------------
(* Descriptors and locks *)

OpenFd(p, i) == fds' = [fds EXCEPT ![p][i] = @ + 1]

CloseFd(p, i) ==
  /\ fds' = [fds EXCEPT ![p][i] = @ - 1]
  /\ locks' = [locks EXCEPT ![p][i] = "none"]

(* The lock DoOpenFile asks for *)
LockType(flags) == IF flags \cap {"RDWR", "EXCLUSIVE"} # {} THEN "W" ELSE "R"

(* fcntl: other processes have no lock that excludes this one, and a write   *)
(* lock is asked for on a descriptor that is open for writing.               *)
Compatible(p, i, type) ==
  \A q \in Procs \ {p} : locks[q][i] = "none" \/ (type = "R" /\ locks[q][i] = "R")

CanLock(p, i, flags) ==
  /\ Compatible(p, i, LockType(flags))
  /\ LockType(flags) = "W" => "RDWR" \in flags

SetLock(p, i, type) == locks' = [locks EXCEPT ![p][i] = type]

(* An inode without a name is gone when its last descriptor is closed. *)
Free(i) == (\A f \in Files : names[f] # i) /\ (\A p \in Procs : fds[p][i] = 0)

-----------------------------------------------------------------------------
(* Handles *)

HasRoom(p) == iNumClients[p] < MaxClients

FirstFree(p) ==
  CHOOSE h \in Handles :
    /\ ~IsOpen(iPtrArray[p][h])
    /\ \A g \in Handles : ~IsOpen(iPtrArray[p][g]) => h <= g

MapHandle(p, vhd) ==
  /\ iPtrArray' = [iPtrArray EXCEPT ![p][FirstFree(p)] = vhd]
  /\ iNumClients' = [iNumClients EXCEPT ![p] = @ + 1]

UnmapHandle(p, h) ==
  /\ iPtrArray' = [iPtrArray EXCEPT ![p][h] = NoVhd]
  /\ iNumClients' = [iNumClients EXCEPT ![p] = @ - 1]

(* What a process has open, as far as its client knows *)
VhdsOf(p) == {iPtrArray[p][h] : h \in {g \in Handles : IsOpen(iPtrArray[p][g])}}

(* "Locks seem to work only for different processes": a process uses every   *)
(* file of a chain for one VHD at a time.                                    *)
OneUse(p, f) ==
  \A vhd \in VhdsOf(p) : FilesOf(Chain[vhd.file]) \cap FilesOf(Chain[f]) = {}

-----------------------------------------------------------------------------
(* CreateFromFile and Open: of a VHD (op "open"), of its next parent         *)
(* ("parent"), or of the parent of a VHD that is made ("create").            *)

CompatibleFlags(flags) == ~({"RDWR", "IGNORE"} \subseteq flags)

OpenCall(f, flags) == [NoCall EXCEPT !.op = "open", !.pc = "openFile", !.file = f, !.flags = flags]

VHD_Open(p, f, flags) ==
  /\ Idle(p) /\ HasRoom(p)
  /\ CompatibleFlags(flags) /\ OneUse(p, f)
  /\ call' = [call EXCEPT ![p] = OpenCall(f, flags)]
  /\ UNCHANGED <<fileVars, lockVars, handleVars>>

(* A parent is opened when it is first read from, for reading. *)
OpenParentVHD(p, h) ==
  LET vhd == iPtrArray[p][h]
  IN  /\ Idle(p) /\ IsOpen(vhd)
      /\ Len(vhd.nodes) < Len(Chain[vhd.file])
      /\ call' = [call EXCEPT ![p] =
           [NoCall EXCEPT !.op = "parent", !.pc = "openFile", !.handle = h,
                          !.file = Chain[vhd.file][Len(vhd.nodes) + 1],
                          !.flags = vhd.flags \ {"RDWR"}]]
      /\ UNCHANGED <<fileVars, lockVars, handleVars>>

(* When the file cannot be opened, the call returns; the new file goes, too. *)
OpenFailed(p) ==
  call' = [call EXCEPT ![p] = IF @.op # "create" THEN NoCall
                              ELSE [@ EXCEPT !.pc = "closeNew", !.node = NoInode]]

OpenFile(p) ==
  /\ At(p, "openFile")
  /\ LET i == names[call[p].file]
     IN  \/ /\ i = NoInode
            /\ OpenFailed(p)
            /\ UNCHANGED fds
         \/ /\ i # NoInode
            /\ OpenFd(p, i)
            /\ call' = [call EXCEPT ![p].pc = "lockFile", ![p].node = i]
  /\ UNCHANGED <<fileVars, locks, handleVars>>

LockFile_LeavesOpen(p) ==
  /\ At(p, "lockFile")
  /\ \/ /\ CanLock(p, call[p].node, call[p].flags)
        /\ SetLock(p, call[p].node, LockType(call[p].flags))
        /\ Goto(p, "recognise")
     \/ /\ ~CanLock(p, call[p].node, call[p].flags)
        /\ OpenFailed(p)
        /\ UNCHANGED locks
  /\ UNCHANGED <<fileVars, fds, handleVars>>

LockFile_Waits(p) ==
  /\ At(p, "lockFile")
  /\ CanLock(p, call[p].node, call[p].flags)
  /\ SetLock(p, call[p].node, LockType(call[p].flags))
  /\ Goto(p, "recognise")
  /\ UNCHANGED <<fileVars, fds, handleVars>>

LockFile(p) ==
  /\ At(p, "lockFile")
  /\ \/ /\ CanLock(p, call[p].node, call[p].flags)
        /\ SetLock(p, call[p].node, LockType(call[p].flags))
        /\ Goto(p, "recognise")
        /\ UNCHANGED fds
     \/ /\ ~CanLock(p, call[p].node, call[p].flags)
        /\ CloseFd(p, call[p].node)
        /\ OpenFailed(p)
  /\ UNCHANGED <<fileVars, handleVars>>

(* Whether a file may be taken for a VHD: one that is not finished may have  *)
(* all that DoCreateFromFile and Open look at.                               *)
MayPass(i) == content[i] # "empty"

(* ... and whether it may be refused: a parent may have been made anew, with *)
(* another UUID than its child's header says.                                *)
MayFail(op, i) == content[i] # "whole" \/ op = "parent"

(* A differencing VHD is opened when its parent is there. *)
ParentFound(f, flags) ==
  Len(Chain[f]) > 1 /\ "IGNORE" \notin flags => names[Chain[f][2]] # NoInode

WithParent(vhd, i) == [vhd EXCEPT !.nodes = Append(@, i)]

Recognise(p) ==
  /\ At(p, "recognise")
  /\ LET i == call[p].node
         f == call[p].file
     IN  \/ /\ MayPass(i) /\ ParentFound(f, call[p].flags)
            /\ CASE call[p].op = "open" ->
                      /\ MapHandle(p, [file |-> f, flags |-> call[p].flags, nodes |-> <<i>>])
                      /\ Return(p)
                 [] call[p].op = "parent" ->
                      /\ iPtrArray' = [iPtrArray EXCEPT ![p][call[p].handle] = WithParent(@, i)]
                      /\ Return(p)
                      /\ UNCHANGED iNumClients
                 [] call[p].op = "create" ->
                      /\ Goto(p, "generate")
                      /\ UNCHANGED handleVars
            /\ UNCHANGED lockVars
         \/ /\ MayFail(call[p].op, i) \/ ~ParentFound(f, call[p].flags)
            /\ CloseFd(p, i)
            /\ OpenFailed(p)
            /\ UNCHANGED handleVars
  /\ UNCHANGED fileVars

-----------------------------------------------------------------------------
(* VHD_Create: GenerateFile, then VHD_Open *)

VHD_Create(p, f, flags) ==
  /\ Idle(p) /\ HasRoom(p) /\ OneUse(p, f)
  /\ call' = [call EXCEPT ![p] =
       [NoCall EXCEPT !.op = "create", !.pc = "createFile",
                      !.new = [NoNew EXCEPT !.file = f, !.flags = flags]]]
  /\ UNCHANGED <<fileVars, lockVars, handleVars>>

NewInode == CHOOSE i \in Inodes : Free(i)

MakeInode(p, i) ==
  /\ names' = [names EXCEPT ![call[p].new.file] = i]
  /\ content' = [content EXCEPT ![i] = "empty"]
  /\ OpenFd(p, i)
  /\ call' = [call EXCEPT ![p].pc = "lockNew", ![p].new.node = i]

CreateFile_NotExclusive(p) ==
  /\ At(p, "createFile")
  /\ \E i \in Inodes : Free(i)
  /\ MakeInode(p, NewInode)
  /\ UNCHANGED <<locks, handleVars>>

(* open(O_CREAT | O_EXCL): the name must be free. *)
CreateFile(p) ==
  /\ At(p, "createFile")
  /\ IF names[call[p].new.file] = NoInode /\ \E i \in Inodes : Free(i)
     THEN MakeInode(p, NewInode)
     ELSE Return(p) /\ UNCHANGED <<fileVars, fds>>
  /\ UNCHANGED <<locks, handleVars>>

(* A differencing VHD needs its parent open while it is generated. *)
Generation(c) ==
  LET chain == Chain[c.new.file]
  IN  IF Len(chain) = 1 THEN [c EXCEPT !.pc = "generate"]
      ELSE [c EXCEPT !.pc = "openFile", !.file = chain[2]]

LockNew_NoLock(p) ==
  /\ At(p, "lockNew")
  /\ call' = [call EXCEPT ![p] = Generation(@)]
  /\ UNCHANGED <<fileVars, lockVars, handleVars>>

LockNew(p) ==
  LET i == call[p].new.node
  IN  /\ At(p, "lockNew")
      /\ IF Compatible(p, i, "W")
         THEN SetLock(p, i, "W") /\ call' = [call EXCEPT ![p] = Generation(@)]
         ELSE Goto(p, "closeNew") /\ UNCHANGED locks
      /\ UNCHANGED <<fileVars, fds, handleVars>>

Generate(p) ==
  /\ At(p, "generate")
  /\ content' = [content EXCEPT ![call[p].new.node] = "partial"]
  /\ Goto(p, "finish")
  /\ UNCHANGED <<names, lockVars, handleVars>>

Finish(p) ==
  /\ At(p, "finish")
  /\ \E ok \in {TRUE} \cup {FALSE : f \in Faults \cap {"write"}} :
       /\ content' = [content EXCEPT ![call[p].new.node] = IF ok THEN "whole" ELSE "abandoned"]
       /\ call' = [call EXCEPT ![p].new.made = ok,
                               ![p].pc = IF call[p].node = NoInode THEN "closeNew" ELSE "closeParent"]
  /\ UNCHANGED <<names, lockVars, handleVars>>

CloseParent(p) ==
  /\ At(p, "closeParent")
  /\ CloseFd(p, call[p].node)
  /\ call' = [call EXCEPT ![p].pc = "closeNew", ![p].node = NoInode]
  /\ UNCHANGED <<fileVars, handleVars>>

(* The lock goes before the file is opened, or unlinked. *)
CloseNew(p) ==
  LET new == call[p].new
  IN  /\ At(p, "closeNew")
      /\ CloseFd(p, new.node)
      /\ CASE ~new.made ->
                call' = [call EXCEPT ![p].pc = "unlink", ![p].new.node = NoInode]
           [] new.made /\ CompatibleFlags(new.flags) ->
                call' = [call EXCEPT ![p] = OpenCall(new.file, new.flags)]
           [] OTHER -> Return(p)
      /\ UNCHANGED <<fileVars, handleVars>>

Unlink(p) ==
  /\ At(p, "unlink")
  /\ names' = [names EXCEPT ![call[p].new.file] = NoInode]
  /\ Return(p)
  /\ UNCHANGED <<content, lockVars, handleVars>>

-----------------------------------------------------------------------------
(* VHD_Close: the handle goes first; the files are closed from the head of   *)
(* the chain on, each after its Flush.                                       *)

VHD_Close(p, h) ==
  /\ Idle(p) /\ IsOpen(iPtrArray[p][h])
  /\ UnmapHandle(p, h)
  /\ call' = [call EXCEPT ![p] =
       [NoCall EXCEPT !.op = "close", !.pc = "closeFile", !.closing = iPtrArray[p][h].nodes,
                      !.flags = iPtrArray[p][h].flags]]
  /\ UNCHANGED <<fileVars, lockVars>>

CloseFile(p) ==
  LET nodes == call[p].closing
  IN  /\ At(p, "closeFile")
      /\ CloseFd(p, nodes[Len(nodes)])
      /\ IF Len(nodes) = 1 THEN Return(p)
         ELSE call' = [call EXCEPT ![p].closing = SubSeq(@, 1, Len(@) - 1)]
      /\ UNCHANGED <<fileVars, handleVars>>

(* A process is killed, and may be started again. *)
ProcessDies(p) ==
  /\ CanFail("die")
  /\ ~Idle(p) \/ iNumClients[p] > 0
  /\ fds' = [fds EXCEPT ![p] = [i \in Inodes |-> 0]]
  /\ locks' = [locks EXCEPT ![p] = [i \in Inodes |-> "none"]]
  /\ iPtrArray' = [iPtrArray EXCEPT ![p] = [h \in Handles |-> NoVhd]]
  /\ iNumClients' = [iNumClients EXCEPT ![p] = 0]
  /\ content' = [i \in Inodes |-> IF i = call[p].new.node /\ content[i] = "partial"
                                  THEN "abandoned" ELSE content[i]]
  /\ Return(p)
  /\ UNCHANGED names

-----------------------------------------------------------------------------
(* Before the first call some of the files are there. *)
FirstNames(present) ==
  CHOOSE n \in [Files -> Inodes \cup {NoInode}] :
    /\ \A f \in Files : n[f] # NoInode <=> f \in present
    /\ \A f, g \in present : n[f] = n[g] => f = g

Init ==
  /\ \E present \in SUBSET Files : names = FirstNames(present)
  /\ content = [i \in Inodes |-> IF \E f \in Files : names[f] = i THEN "whole" ELSE "empty"]
  /\ fds = [p \in Procs |-> [i \in Inodes |-> 0]]
  /\ locks = [p \in Procs |-> [i \in Inodes |-> "none"]]
  /\ iPtrArray = [p \in Procs |-> [h \in Handles |-> NoVhd]]
  /\ iNumClients = [p \in Procs |-> 0]
  /\ call = [p \in Procs |-> NoCall]

(* The next step of the call that a process is in *)
Step(p) ==
  \/ OpenFile(p)
  \/ LockFile(p)
  \/ Recognise(p)
  \/ CreateFile(p)
  \/ LockNew(p)
  \/ Generate(p)
  \/ Finish(p)
  \/ CloseParent(p)
  \/ CloseNew(p)
  \/ Unlink(p)
  \/ CloseFile(p)

Client(p) ==
  \/ \E f \in Files, flags \in Modes : VHD_Open(p, f, flags) \/ VHD_Create(p, f, flags)
  \/ \E h \in Handles : OpenParentVHD(p, h) \/ VHD_Close(p, h)

Next == \E p \in Procs : Step(p) \/ Client(p) \/ ProcessDies(p)

Spec == Init /\ [][Next]_vars

(* No step waits for another process: F_SETLK refuses at once.  A process    *)
(* that is not killed is scheduled.                                          *)
FairSpec == Spec /\ \A p \in Procs : WF_vars(Step(p))

-----------------------------------------------------------------------------
(* How many descriptors of i the process still knows of *)
Known(p, i) ==
  LET Places(h) == {k \in DOMAIN iPtrArray[p][h].nodes : iPtrArray[p][h].nodes[k] = i}
      ofVhds == UNION {{h} \X Places(h) : h \in Handles}
      ofClose == {k \in DOMAIN call[p].closing : call[p].closing[k] = i}
      ofOpen == {x \in {"node", "new"} :
                   i = IF x = "new" THEN call[p].new.node ELSE call[p].node}
  IN  Cardinality(ofVhds) + Cardinality(ofClose) + Cardinality(ofOpen)

(* Every descriptor is some VHD's, or the running call's, which closes it,   *)
(* whichever step fails; the handles in use are as many as iNumClients says, *)
(* so no failed or closed VHD uses up one of KMaxVhdClients.  (The types of  *)
(* the variables are part of it.)                                            *)
NothingLeaks ==
  /\ names \in [Files -> Inodes \cup {NoInode}]
  /\ content \in [Inodes -> {"empty", "partial", "whole", "abandoned"}]
  /\ locks \in [Procs -> [Inodes -> {"none", "R", "W"}]]
  /\ \A p \in Procs :
       /\ iNumClients[p] = Cardinality({h \in Handles : IsOpen(iPtrArray[p][h])})
       /\ \A i \in Inodes : fds[p][i] = Known(p, i)

(* The files p may write: the VHDs it has open for writing, the one whose    *)
(* close still has to flush, and the one it generates.                       *)
Writes(p) ==
  {vhd.nodes[1] : vhd \in {v \in VhdsOf(p) : "RDWR" \in v.flags}}
    \cup {call[p].closing[k] : k \in {1} \cap {n \in DOMAIN call[p].closing : "RDWR" \in call[p].flags}}
    \cup {i \in {call[p].new.node} \ {NoInode} : call[p].pc \in {"generate", "finish"}}

(* The files p uses: all it has open and has got its lock on. *)
Uses(p) ==
  (UNION {NodesOf(vhd.nodes) : vhd \in VhdsOf(p)})
    \cup NodesOf(call[p].closing)
    \cup {i \in {call[p].node} \ {NoInode} : ~At(p, "lockFile")}
    \cup Writes(p)

(* While a process may write a file of a chain, also while it generates it   *)
(* or flushes it for the last time, no other process reads or writes the     *)
(* file: the record locks are not lost before the descriptors are closed.    *)
WritersAlone ==
  \A p, q \in Procs : p # q => Writes(p) \cap Uses(q) = {}

(* A VHD that was made stays: no call that creates, fails, cleans up or      *)
(* dies takes away the name or the content of a file that is whole           *)
(* ("Does not overwrite the existing file", vhd_create.cpp).                 *)
WholeFilesStay ==
  [][\A f \in Files :
       names[f] # NoInode /\ content[names[f]] = "whole"
         => names'[f] = names[f] /\ content'[names[f]] = "whole"]_vars

(* Every call returns, whatever locks the other processes hold. *)
CallsReturn == \A p \in Procs : ~Idle(p) ~> Idle(p)

=============================================================================
