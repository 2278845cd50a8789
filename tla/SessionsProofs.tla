--------------------------- MODULE SessionsProofs ---------------------------
(***************************************************************************)
(* Theorems of Sessions, for any processes, files, chains, modes and number *)
(* of clients: nothing leaks, writers are alone, whole files stay.  One     *)
(* lemma for each action says that it keeps the invariant.                  *)
(***************************************************************************)
EXTENDS Sessions, Integers, FiniteSetTheorems, NaturalsLemmas, TLAPS

-----------------------------------------------------------------------------
(* The inductive invariant *)

Flags == {"RDWR", "EXCLUSIVE", "IGNORE"}
MaybeNode == Inodes \cup {NoInode}
MaybeFile == Files \cup {"none"}

OpenVhds ==
  {v \in [file : Files, flags : SUBSET Flags, nodes : Seq(Inodes)] :
     v.nodes # <<>> /\ Len(v.nodes) <= Len(Chain[v.file])}

News == [file : MaybeFile, flags : SUBSET Flags, node : MaybeNode, made : BOOLEAN]

(* The places in a call *)
Opening == {"openFile", "lockFile", "recognise"}
Generating == {"generate", "finish", "closeParent"}
Creating == {"lockNew", "closeNew"} \cup Generating

Calls ==
  [op : {"none", "open", "parent", "create", "close"},
   pc : {"none", "createFile", "unlink", "closeFile"} \cup Opening \cup Creating,
   file : MaybeFile, flags : SUBSET Flags, node : MaybeNode, handle : Handles \cup {0},
   new : News, closing : Seq(Inodes)]

Types ==
  /\ names \in [Files -> MaybeNode]
  /\ content \in [Inodes -> {"empty", "partial", "whole", "abandoned"}]
  /\ fds \in [Procs -> [Inodes -> Int]]
  /\ locks \in [Procs -> [Inodes -> {"none", "R", "W"}]]
  /\ iPtrArray \in [Procs -> [Handles -> OpenVhds \cup {NoVhd}]]
  /\ iNumClients \in [Procs -> Int]
  /\ call \in [Procs -> Calls]

(* Which of the parts of a call are there, at each place in it *)
CallShape(c) ==
  /\ c.pc = "none" => c = NoCall
  /\ c.op = "close" <=> c.pc = "closeFile"
  /\ c.pc \in Opening => c.op \in {"open", "parent", "create"} /\ c.file \in Files
  /\ c.pc \in {"createFile", "unlink"} \cup Creating => c.op = "create"
  /\ c.op = "create" => c.new.file \in Files
  /\ c.node # NoInode => c.pc \in {"lockFile", "recognise"} \cup Generating
  /\ c.pc \in {"lockFile", "recognise", "closeParent"} => c.node # NoInode
  /\ c.new.node # NoInode <=> c.op = "create" /\ c.pc \in Opening \cup Creating
  /\ c.new.made => c.pc \in {"closeParent", "closeNew"}
  /\ c.closing # <<>> <=> c.pc = "closeFile"

(* The file a call opens *)
FileShape(p) ==
  LET c == call[p]
      vhd == iPtrArray[p][c.handle]
  IN  /\ c.op = "open" => CompatibleFlags(c.flags)
      /\ c.op = "parent" =>
           /\ c.handle \in Handles /\ IsOpen(vhd) /\ Len(vhd.nodes) < Len(Chain[vhd.file])
           /\ c.file = Chain[vhd.file][Len(vhd.nodes) + 1]
      /\ c.op = "create" /\ (c.pc \in Opening \/ c.node # NoInode) =>
           /\ Len(Chain[c.new.file]) > 1
           /\ c.file = Chain[c.new.file][2]
      /\ c.op \in {"parent", "create"} => "RDWR" \notin c.flags

(* The chains that are in use have no file in common. *)
ChainsApart(p) ==
  LET Apart(f, g) == FilesOf(Chain[f]) \cap FilesOf(Chain[g]) = {}
      vhds == iPtrArray[p]
      c == call[p]
  IN  /\ \A h, g \in Handles :
           h # g /\ IsOpen(vhds[h]) /\ IsOpen(vhds[g]) => Apart(vhds[h].file, vhds[g].file)
      /\ \A h \in Handles : IsOpen(vhds[h]) =>
           /\ c.op = "open" => Apart(vhds[h].file, c.file)
           /\ c.op = "create" => Apart(vhds[h].file, c.new.file)

(* No inode is known twice to a process. *)
KnownOnce(p) ==
  LET c == call[p]
      nodes(h) == iPtrArray[p][h].nodes
  IN  /\ \A g, h \in Handles : \A k \in DOMAIN nodes(g), l \in DOMAIN nodes(h) :
           nodes(g)[k] = nodes(h)[l] => g = h /\ k = l
      /\ \A k, l \in DOMAIN c.closing : c.closing[k] = c.closing[l] => k = l
      /\ \A h \in Handles : \A k \in DOMAIN nodes(h) :
           nodes(h)[k] \notin NodesOf(c.closing) \cup {c.node, c.new.node}
      /\ c.node # NoInode => c.node # c.new.node

Knows(p, i) ==
  \/ \E h \in Handles : i \in NodesOf(iPtrArray[p][h].nodes)
  \/ i \in NodesOf(call[p].closing) \cup {call[p].node, call[p].new.node}

Counted(p) == \A i \in Inodes : fds[p][i] = IF Knows(p, i) THEN 1 ELSE 0

OpenHandles(p) == {h \in Handles : IsOpen(iPtrArray[p][h])}

ClientsCounted(p) ==
  /\ iNumClients[p] = Cardinality(OpenHandles(p))
  /\ call[p].op \in {"open", "create"} => HasRoom(p)

(* An inode that a process knows as a file has no other name. *)
NamesKept(p) ==
  /\ \A h \in Handles : \A k \in DOMAIN iPtrArray[p][h].nodes : \A f \in Files :
       names[f] = iPtrArray[p][h].nodes[k] => f = Chain[iPtrArray[p][h].file][k]
  /\ \A f \in Files : call[p].node # NoInode /\ names[f] = call[p].node => f = call[p].file

(* The file a call makes has its name until the call itself takes it away, *)
(* and is not whole before it is finished.                                 *)
HasMade(p) == call[p].op = "create" /\ call[p].pc # "createFile"

Makes(p) ==
  LET new == call[p].new
  IN  HasMade(p) =>
        /\ names[new.file] # NoInode
        /\ new.node # NoInode => names[new.file] = new.node
        /\ ~new.made => content[names[new.file]] # "whole"

NamesApart ==
  /\ \A f, g \in Files : names[f] # NoInode /\ names[f] = names[g] => f = g
  /\ \A p, q \in Procs : p # q /\ HasMade(p) /\ HasMade(q) => call[p].new.file # call[q].new.file

(* The locks a process has *)
LocksHeld(p) ==
  LET c == call[p]
  IN  /\ \A h \in Handles : \A k \in DOMAIN iPtrArray[p][h].nodes :
           locks[p][iPtrArray[p][h].nodes[k]] # "none"
      /\ \A h \in OpenHandles(p) : "RDWR" \in iPtrArray[p][h].flags =>
           locks[p][iPtrArray[p][h].nodes[1]] = "W"
      /\ \A k \in DOMAIN c.closing : locks[p][c.closing[k]] # "none"
      /\ c.closing # <<>> /\ "RDWR" \in c.flags => locks[p][c.closing[1]] = "W"
      /\ c.node # NoInode /\ c.pc # "lockFile" => locks[p][c.node] # "none"
      /\ c.pc = "recognise" /\ "RDWR" \in c.flags => locks[p][c.node] = "W"
      /\ c.new.node # NoInode /\ c.pc \in Opening \cup Generating =>
           locks[p][c.new.node] = "W"

LocksCompatible ==
  \A p, q \in Procs : \A i \in Inodes :
    p # q /\ locks[p][i] = "W" => locks[q][i] = "none"

(* What a process knows by itself, and what it knows of the names *)
Local(p) ==
  /\ CallShape(call[p]) /\ FileShape(p) /\ ChainsApart(p) /\ KnownOnce(p) /\ Counted(p)
  /\ ClientsCounted(p) /\ LocksHeld(p)

OfNames(p) == NamesKept(p) /\ Makes(p)

IInv ==
  /\ Types
  /\ \A p \in Procs : Local(p) /\ OfNames(p)
  /\ NamesApart
  /\ LocksCompatible

-----------------------------------------------------------------------------
(* Frames: what a step leaves alone *)

Same(q) ==
  /\ call'[q] = call[q] /\ fds'[q] = fds[q] /\ locks'[q] = locks[q]
  /\ iPtrArray'[q] = iPtrArray[q] /\ iNumClients'[q] = iNumClients[q]

(* What a process knows by itself stays when a step leaves the process alone. *)
LEMMA LocalKept ==
  ASSUME NEW q, Local(q), Same(q)
  PROVE  Local(q)'
<1> USE DEF Same
<1>1. CallShape(call[q])' BY DEF Local
<1>2. FileShape(q)' BY DEF Local, FileShape
<1>3. ChainsApart(q)' BY DEF Local, ChainsApart
<1>4. KnownOnce(q)' BY DEF Local, KnownOnce
<1>5. Counted(q)' BY DEF Local, Counted, Knows
<1>6. OpenHandles(q)' = OpenHandles(q) BY DEF OpenHandles
<1>7. ClientsCounted(q)' BY <1>6 DEF Local, ClientsCounted, HasRoom
<1>8. LocksHeld(q)' BY <1>6 DEF Local, LocksHeld
<1>9. QED BY <1>1, <1>2, <1>3, <1>4, <1>5, <1>7, <1>8 DEF Local

(* What it knows of the names stays, too, when the names and the content of
   the file it makes are the same. *)
LEMMA OfNamesKept ==
  ASSUME NEW q, OfNames(q), Same(q), names' = names,
         HasMade(q) => content'[names[call[q].new.file]] = content[names[call[q].new.file]]
  PROVE  OfNames(q)'
<1>1. NamesKept(q)' BY DEF OfNames, NamesKept, Same
<1>2. Makes(q)' BY DEF OfNames, Makes, Same, HasMade
<1>3. QED BY <1>1, <1>2 DEF OfNames

-----------------------------------------------------------------------------
(* Types *)

(* CHandleMapper finds a free handle while there are fewer clients than
   KMaxVhdClients. *)
LEMMA FirstFreeIs ==
  ASSUME NEW p \in Procs, Types, ClientsCounted(p), HasRoom(p)
  PROVE  FirstFree(p) \in Handles /\ ~IsOpen(iPtrArray[p][FirstFree(p)])
<1> DEFINE free == {h \in Handles : ~IsOpen(iPtrArray[p][h])}
<1>1. MaxClients \in Nat \ {0} /\ Handles \subseteq Nat
  BY SessionsAssumption DEF Handles
<1>2. free # {}
  <2>1. IsFiniteSet(Handles) /\ Cardinality(Handles) = MaxClients
    BY <1>1, FS_Interval DEF Handles
  <2>2. SUFFICES ASSUME free = {} PROVE FALSE
    OBVIOUS
  <2>3. OpenHandles(p) = Handles
    BY <2>2 DEF OpenHandles
  <2>4. QED
    BY <1>1, <2>1, <2>3 DEF ClientsCounted, HasRoom
<1>3. PICK m \in free : \A n \in free : m <= n
  BY <1>1, <1>2, LeastNatural
<1>4. \E h \in Handles : ~IsOpen(iPtrArray[p][h]) /\ \A g \in Handles : ~IsOpen(iPtrArray[p][g]) => h <= g
  BY <1>3
<1>5. QED
  BY <1>4 DEF FirstFree

(* What the shape of a call says of its parts *)
LEMMA Parts ==
  ASSUME IInv, NEW p \in Procs
  PROVE  LET c == call[p]
         IN  /\ c \in Calls /\ c.new \in News /\ c.closing \in Seq(Inodes)
             /\ c.pc \in {"lockFile", "recognise", "closeParent"} => c.node \in Inodes
             /\ c.new.node # NoInode => c.new.node \in Inodes
             /\ c.op = "create" /\ c.pc \in Opening \cup Creating => c.new.node \in Inodes
             /\ c.pc \in {"createFile", "unlink"} \cup Creating => c.op = "create"
             /\ c.op = "create" => c.new.file \in Files
             /\ c.pc \in Opening => c.file \in Files
             /\ c.pc = "closeFile" => c.closing # <<>>
<1>1. CallShape(call[p]) /\ call[p] \in Calls
  BY DEF IInv, Types, Local
<1>2. QED
  BY <1>1 DEF CallShape, Calls, News, MaybeNode

(* A process that is in no call. *)
LEMMA NoCallTyped == NoCall \in Calls /\ NoNew \in News
BY DEF NoCall, NoNew, Calls, News, MaybeFile, MaybeNode

(* The files of a chain are different ones. *)
LEMMA Chains ==
  ASSUME NEW f \in Files
  PROVE  /\ Len(Chain[f]) \in Nat \ {0} /\ Chain[f][1] = f
         /\ \A k \in 1 .. Len(Chain[f]) : Chain[f][k] \in Files /\ Chain[f][k] \in FilesOf(Chain[f])
         /\ \A k, l \in 1 .. Len(Chain[f]) : Chain[f][k] = Chain[f][l] => k = l
<1>1. /\ Chain[f] \in Seq(Files) /\ Chain[f] # <<>> /\ Chain[f][1] = f
      /\ \A k, l \in DOMAIN Chain[f] : Chain[f][k] = Chain[f][l] => k = l
  BY SessionsAssumption
<1>2. Len(Chain[f]) \in Nat \ {0} /\ DOMAIN Chain[f] = 1 .. Len(Chain[f])
  BY <1>1
<1>3. QED
  BY <1>1, <1>2 DEF FilesOf

(* A handle has no VHD, or one with at least the inode of its own file. *)
LEMMA VhdsTyped ==
  ASSUME Types, NEW p \in Procs, NEW h \in Handles
  PROVE  LET vhd == iPtrArray[p][h]
         IN  /\ vhd \in OpenVhds \cup {NoVhd}
             /\ vhd.nodes \in Seq(Inodes)
             /\ IsOpen(vhd) => /\ vhd \in OpenVhds /\ vhd.file \in Files /\ 1 \in DOMAIN vhd.nodes
                               /\ Len(vhd.nodes) <= Len(Chain[vhd.file])
<1>1. iPtrArray[p][h] \in OpenVhds \cup {NoVhd}
  BY DEF Types
<1>2. CASE iPtrArray[p][h] \in OpenVhds
  BY <1>2 DEF OpenVhds, IsOpen
<1>3. CASE iPtrArray[p][h] = NoVhd
  BY <1>3 DEF NoVhd, IsOpen
<1>4. QED
  BY <1>1, <1>2, <1>3

(* A step of p concerns p only, but for the names and what is in the files. *)
OnlyOf(p) ==
  /\ call' = [call EXCEPT ![p] = call'[p]]
  /\ fds' = [fds EXCEPT ![p] = fds'[p]]
  /\ locks' = [locks EXCEPT ![p] = locks'[p]]
  /\ iPtrArray' = [iPtrArray EXCEPT ![p] = iPtrArray'[p]]
  /\ iNumClients' = [iNumClients EXCEPT ![p] = iNumClients'[p]]

(* A step of p leaves what the other processes know alone. *)
LEMMA OthersKept ==
  ASSUME IInv, NEW p \in Procs, OnlyOf(p)
  PROVE  \A q \in Procs \ {p} : Same(q) /\ Local(q)'
<1>1. ASSUME NEW q \in Procs \ {p} PROVE Same(q)
  BY DEF OnlyOf, Same, IInv, Types
<1>2. \A q \in Procs \ {p} : Local(q)
  BY DEF IInv
<1>3. QED
  BY <1>1, <1>2, LocalKept

(* The types of what a process has *)
TypesOf(p) ==
  /\ call'[p] \in Calls
  /\ fds'[p] \in [Inodes -> Int]
  /\ locks'[p] \in [Inodes -> {"none", "R", "W"}]
  /\ iPtrArray'[p] \in [Handles -> OpenVhds \cup {NoVhd}]
  /\ iNumClients'[p] \in Int

(* The types are kept when p gets values of the right types. *)
LEMMA TypesKept ==
  ASSUME IInv, NEW p \in Procs, OnlyOf(p), TypesOf(p),
         names' \in [Files -> MaybeNode],
         content' \in [Inodes -> {"empty", "partial", "whole", "abandoned"}]
  PROVE  Types'
BY DEF IInv, Types, OnlyOf, TypesOf

-----------------------------------------------------------------------------
(* Steps that only change the call *)

OnlyCall(p) ==
  /\ call' = [call EXCEPT ![p] = call'[p]]
  /\ UNCHANGED <<names, content, fds, locks, iPtrArray, iNumClients>>

(* The call has the same descriptors and the same new file, if it has one. *)
LEMMA CallStep ==
  ASSUME IInv, NEW p \in Procs, OnlyCall(p),
         call'[p] \in Calls, CallShape(call'[p]), FileShape(p)', ChainsApart(p)',
         call'[p].closing = call[p].closing, call'[p].node = call[p].node,
         call'[p].new.node = call[p].new.node,
         call'[p].op \in {"open", "create"} => HasRoom(p),
         call'[p].node # NoInode => call'[p].file = call[p].file,
         Makes(p)', LocksHeld(p)',
         HasMade(p)' => HasMade(p) /\ call'[p].new.file = call[p].new.file
  PROVE  IInv'
<1>1. OnlyOf(p)
  BY DEF OnlyCall, OnlyOf, IInv, Types
<1>2. Types'
  <2>1. TypesOf(p)
    BY DEF OnlyCall, TypesOf, IInv, Types
  <2>2. QED
    BY <1>1, <2>1, TypesKept DEF OnlyCall, IInv, Types
<1>3. \A q \in Procs \ {p} : Local(q)' /\ OfNames(q)'
  BY <1>1, OthersKept, OfNamesKept DEF OnlyCall, IInv
<1>4. Local(p) /\ OfNames(p) /\ NamesApart /\ LocksCompatible
  BY DEF IInv
<1>5. KnownOnce(p)'
  BY <1>4 DEF OnlyCall, Local, KnownOnce
<1>6. Counted(p)'
  BY <1>4 DEF OnlyCall, Local, Counted, Knows
<1>7. ClientsCounted(p)'
  <2>1. OpenHandles(p)' = OpenHandles(p)
    BY DEF OnlyCall, OpenHandles
  <2>2. QED
    BY <1>4, <2>1 DEF OnlyCall, Local, ClientsCounted, HasRoom
<1>8. NamesKept(p)'
  BY <1>4 DEF OnlyCall, OfNames, NamesKept
<1>9. NamesApart'
  <2>1. ASSUME NEW q \in Procs, NEW r \in Procs, q # r, HasMade(q)', HasMade(r)'
        PROVE  call'[q].new.file # call'[r].new.file
    <3>1. \A s \in Procs : HasMade(s)' => HasMade(s) /\ call'[s].new.file = call[s].new.file
      BY DEF OnlyCall, HasMade, IInv, Types
    <3>2. QED
      BY <1>4, <2>1, <3>1 DEF NamesApart
  <2>2. QED
    BY <1>4, <2>1 DEF NamesApart, OnlyCall
<1>10. LocksCompatible'
  BY <1>4 DEF LocksCompatible, OnlyCall
<1>11. QED
  BY <1>2, <1>3, <1>5, <1>6, <1>7, <1>8, <1>9, <1>10 DEF IInv, Local, OfNames

(* A chain that is opened has no file in common with an open one. *)
LEMMA NotInUse ==
  ASSUME NEW p, NEW f, OneUse(p, f), NEW h \in Handles, IsOpen(iPtrArray[p][h])
  PROVE  FilesOf(Chain[iPtrArray[p][h].file]) \cap FilesOf(Chain[f]) = {}
<1>1. iPtrArray[p][h] \in VhdsOf(p)
  BY DEF VhdsOf
<1>2. QED
  BY <1>1, Zenon DEF OneUse

(* VHD_Open begins. *)
LEMMA OpenKeeps ==
  ASSUME IInv, NEW p \in Procs, NEW f \in Files, NEW flags \in Modes, VHD_Open(p, f, flags)
  PROVE  IInv'
<1> DEFINE new == [op |-> "open", pc |-> "openFile", file |-> f, flags |-> flags, node |-> NoInode,
                   handle |-> 0, new |-> NoNew, closing |-> <<>>]
<1>1. /\ OnlyCall(p) /\ call'[p] = new /\ call[p] = NoCall /\ HasRoom(p)
      /\ CompatibleFlags(flags) /\ OneUse(p, f)
  BY DEF VHD_Open, Idle, OpenCall, NoCall, OnlyCall, fileVars, lockVars, handleVars,
         IInv, Types, Local, CallShape
<1>2. new \in Calls
  BY SessionsAssumption DEF Calls, News, NoNew, Opening, Flags, MaybeNode, MaybeFile
<1>3. CallShape(new)
  BY DEF CallShape, NoNew, Opening, Generating, Creating
<1>4. FileShape(p)'
  BY <1>1 DEF FileShape
<1>5. ChainsApart(p)'
  <2>1. \A h \in Handles : IsOpen(iPtrArray[p][h]) =>
          FilesOf(Chain[iPtrArray[p][h].file]) \cap FilesOf(Chain[f]) = {}
    BY <1>1, NotInUse, Zenon
  <2>2. ChainsApart(p)
    BY DEF IInv, Local
  <2>3. iPtrArray' = iPtrArray /\ call'[p].op = "open" /\ call'[p].file = f
    BY <1>1 DEF OnlyCall
  <2>4. QED
    BY <2>1, <2>2, <2>3 DEF ChainsApart
<1>6. Makes(p)' /\ ~HasMade(p)'
  BY <1>1 DEF Makes, HasMade
<1>7. LocksHeld(p)'
  <2>1. LocksHeld(p) /\ OpenHandles(p)' = OpenHandles(p)
    BY <1>1 DEF IInv, Local, OpenHandles, OnlyCall
  <2>2. QED
    BY <1>1, <2>1 DEF LocksHeld, OnlyCall, NoNew
<1>8. QED
  BY <1>1, <1>2, <1>3, <1>4, <1>5, <1>6, <1>7, CallStep DEF NoCall

(* VHD_Create begins. *)
LEMMA CreateKeeps ==
  ASSUME IInv, NEW p \in Procs, NEW f \in Files, NEW flags \in Modes, VHD_Create(p, f, flags)
  PROVE  IInv'
<1> DEFINE new == [op |-> "create", pc |-> "createFile", file |-> "none", flags |-> {},
                   node |-> NoInode, handle |-> 0,
                   new |-> [file |-> f, flags |-> flags, node |-> NoInode, made |-> FALSE],
                   closing |-> <<>>]
<1>1. OnlyCall(p) /\ call'[p] = new /\ call[p] = NoCall /\ HasRoom(p) /\ OneUse(p, f)
  BY DEF VHD_Create, Idle, NoCall, NoNew, OnlyCall, fileVars, lockVars, handleVars,
         IInv, Types, Local, CallShape
<1>2. new \in Calls
  BY SessionsAssumption DEF Calls, News, Opening, Flags, MaybeNode, MaybeFile
<1>3. CallShape(new)
  BY DEF CallShape, Opening, Generating, Creating
<1>4. FileShape(p)'
  BY <1>1 DEF FileShape, Opening
<1>5. ChainsApart(p)'
  <2>1. \A h \in Handles : IsOpen(iPtrArray[p][h]) =>
          FilesOf(Chain[iPtrArray[p][h].file]) \cap FilesOf(Chain[f]) = {}
    BY <1>1, NotInUse, Zenon
  <2>2. ChainsApart(p)
    BY DEF IInv, Local
  <2>3. iPtrArray' = iPtrArray /\ call'[p].op = "create" /\ call'[p].new.file = f
    BY <1>1 DEF OnlyCall
  <2>4. QED
    BY <2>1, <2>2, <2>3 DEF ChainsApart
<1>6. Makes(p)' /\ ~HasMade(p)'
  BY <1>1 DEF Makes, HasMade
<1>7. LocksHeld(p)'
  <2>1. LocksHeld(p) /\ OpenHandles(p)' = OpenHandles(p)
    BY <1>1 DEF IInv, Local, OpenHandles, OnlyCall
  <2>2. QED
    BY <1>1, <2>1 DEF LocksHeld, OnlyCall
<1>8. QED
  BY <1>1, <1>2, <1>3, <1>4, <1>5, <1>6, <1>7, CallStep DEF NoCall, NoNew

(* A parent is about to be opened. *)
LEMMA OpenParentKeeps ==
  ASSUME IInv, NEW p \in Procs, NEW h \in Handles, OpenParentVHD(p, h)
  PROVE  IInv'
<1> DEFINE vhd == iPtrArray[p][h]
           new == [op |-> "parent", pc |-> "openFile", file |-> Chain[vhd.file][Len(vhd.nodes) + 1],
                   flags |-> vhd.flags \ {"RDWR"}, node |-> NoInode,
                   handle |-> h, new |-> NoNew, closing |-> <<>>]
<1>1. /\ OnlyCall(p) /\ call'[p] = new /\ call[p] = NoCall /\ IsOpen(vhd)
      /\ Len(vhd.nodes) < Len(Chain[vhd.file])
  BY DEF OpenParentVHD, Idle, NoCall, OnlyCall, fileVars, lockVars, handleVars,
         IInv, Types, Local, CallShape
<1>2. vhd \in OpenVhds
  BY <1>1 DEF IInv, Types, IsOpen, NoVhd
<1>3. Chain[vhd.file][Len(vhd.nodes) + 1] \in Files /\ vhd.flags \in SUBSET Flags
  BY <1>1, <1>2, SessionsAssumption DEF OpenVhds
<1>4. new \in Calls
  BY <1>3 DEF Calls, News, NoNew, Opening, Flags, MaybeNode, MaybeFile
<1>5. CallShape(new)
  BY <1>3 DEF CallShape, NoNew, Opening, Generating, Creating
<1>6. FileShape(p)'
  BY <1>1 DEF FileShape, OnlyCall
<1>7. ChainsApart(p)'
  BY <1>1 DEF ChainsApart, OnlyCall, IInv, Local
<1>8. Makes(p)' /\ ~HasMade(p)'
  BY <1>1 DEF Makes, HasMade
<1>9. LocksHeld(p)'
  <2>1. LocksHeld(p) /\ OpenHandles(p)' = OpenHandles(p)
    BY <1>1 DEF IInv, Local, OpenHandles, OnlyCall
  <2>2. QED
    BY <1>1, <2>1 DEF LocksHeld, OnlyCall, NoNew
<1>10. QED
  BY <1>1, <1>4, <1>5, <1>6, <1>7, <1>8, <1>9, CallStep DEF NoCall, NoNew

-----------------------------------------------------------------------------
(* Steps that leave the names and the files alone *)

(* The processes make different files. *)
LEMMA NewsNamed ==
  ASSUME IInv, NEW p \in Procs, HasMade(p)
  PROVE  call[p].new.file \in Files /\ names[call[p].new.file] \in Inodes
<1>1. Makes(p) /\ call[p].new.file \in Files
  BY Parts DEF IInv, OfNames, HasMade
<1>2. QED
  BY <1>1 DEF Makes, IInv, Types, MaybeNode

(* No name of another is that of the file a process has just made. *)
LEMMA NewsApart ==
  ASSUME IInv, NEW p \in Procs, NEW q \in Procs, p # q, HasMade(p), HasMade(q),
         call[p].new.node # NoInode
  PROVE  names[call[q].new.file] # call[p].new.node
<1>1. Makes(p) /\ NamesApart
  BY DEF IInv, OfNames
<1>2. QED
  BY <1>1, NewsNamed DEF Makes, NamesApart

(* A step may change what is in the file that the call makes. *)
OnlyOwnContent(p) ==
  /\ content' \in [Inodes -> {"empty", "partial", "whole", "abandoned"}]
  /\ \A i \in Inodes : content'[i] # content[i] =>
       HasMade(p) /\ call[p].new.node # NoInode /\ i = call[p].new.node

(* The invariant is kept by a step that leaves the names alone, and the files
   but the one the call makes. *)
LEMMA ContentStep ==
  ASSUME IInv, NEW p \in Procs, OnlyOf(p), TypesOf(p), names' = names,
         OnlyOwnContent(p),
         Local(p)', OfNames(p)',
         HasMade(p)' => HasMade(p) /\ call'[p].new.file = call[p].new.file,
         \A i \in Inodes : locks'[p][i] \in {locks[p][i], "none"} \/ Compatible(p, i, locks'[p][i])
  PROVE  IInv'
<1>1. Types'
  BY TypesKept DEF OnlyOwnContent, IInv, Types
<1>2. \A q \in Procs \ {p} : Same(q) /\ Local(q)' /\ OfNames(q)'
  <2>1. ASSUME NEW q \in Procs \ {p}, HasMade(q)
        PROVE  content'[names[call[q].new.file]] = content[names[call[q].new.file]]
    BY <2>1, NewsNamed, NewsApart DEF OnlyOwnContent
  <2>2. QED
    BY <2>1, OthersKept, OfNamesKept DEF IInv
<1>3. NamesApart /\ LocksCompatible /\ locks \in [Procs -> [Inodes -> {"none", "R", "W"}]]
  BY DEF IInv, Types
<1>4. NamesApart'
  <2>1. ASSUME NEW q \in Procs, NEW r \in Procs, q # r, HasMade(q)', HasMade(r)'
        PROVE  call'[q].new.file # call'[r].new.file
    <3>1. \A s \in Procs : HasMade(s)' => HasMade(s) /\ call'[s].new.file = call[s].new.file
      BY <1>2 DEF Same, HasMade
    <3>2. QED
      BY <1>3, <2>1, <3>1 DEF NamesApart
  <2>2. QED
    BY <1>3, <2>1 DEF NamesApart
<1>5. LocksCompatible'
  <2>1. ASSUME NEW q \in Procs, NEW r \in Procs, NEW i \in Inodes, q # r, locks'[q][i] = "W"
        PROVE  locks'[r][i] = "none"
    <3>1. CASE q = p
      BY <1>2, <1>3, <2>1, <3>1 DEF Same, LocksCompatible, Compatible
    <3>2. CASE r = p
      <4>1. locks[q][i] = "W"
        BY <1>2, <2>1, <3>2 DEF Same
      <4>2. locks[p][i] = "none"
        BY <1>3, <2>1, <3>2, <4>1 DEF LocksCompatible
      <4>3. ~Compatible(p, i, locks'[p][i])
        BY <2>1, <3>2, <4>1 DEF Compatible
      <4>4. QED
        BY <3>2, <4>2, <4>3
    <3>3. CASE q # p /\ r # p
      BY <1>2, <1>3, <2>1, <3>3 DEF Same, LocksCompatible
    <3>4. QED
      BY <3>1, <3>2, <3>3
  <2>2. QED
    BY <2>1 DEF LocksCompatible
<1>6. QED
  BY <1>1, <1>2, <1>4, <1>5 DEF IInv

(* ... and by one that leaves all the files alone. *)
LEMMA LocalStep ==
  ASSUME IInv, NEW p \in Procs, OnlyOf(p), TypesOf(p), names' = names, content' = content,
         Local(p)', OfNames(p)',
         HasMade(p)' => HasMade(p) /\ call'[p].new.file = call[p].new.file,
         \A i \in Inodes : locks'[p][i] \in {locks[p][i], "none"} \/ Compatible(p, i, locks'[p][i])
  PROVE  IInv'
<1>1. OnlyOwnContent(p)
  BY DEF OnlyOwnContent, IInv, Types
<1>2. QED
  BY <1>1, ContentStep

(* A process that closes a descriptor forgets the inode. *)
LEMMA Closed ==
  ASSUME IInv, NEW p \in Procs, NEW i \in Inodes, CloseFd(p, i), Knows(p, i),
         \A j \in Inodes : Knows(p, j)' <=> Knows(p, j) /\ j # i
  PROVE  /\ Counted(p)'
         /\ fds' = [fds EXCEPT ![p] = fds'[p]] /\ fds'[p] \in [Inodes -> Int]
         /\ locks' = [locks EXCEPT ![p] = locks'[p]] /\ locks'[p] \in [Inodes -> {"none", "R", "W"}]
         /\ \A j \in Inodes : locks'[p][j] = IF j = i THEN "none" ELSE locks[p][j]
<1>1. /\ Counted(p)
      /\ fds \in [Procs -> [Inodes -> Int]] /\ locks \in [Procs -> [Inodes -> {"none", "R", "W"}]]
  BY DEF IInv, Types, Local
<1>2. QED
  BY <1>1 DEF CloseFd, Counted

(* A file that cannot be opened, locked or recognised is closed. *)
LEMMA OpenFailedKeeps ==
  ASSUME IInv, NEW p \in Procs, call[p].pc \in Opening, OpenFailed(p),
         UNCHANGED <<names, content, iPtrArray, iNumClients>>,
         \/ call[p].node = NoInode /\ UNCHANGED <<fds, locks>>
         \/ call[p].node # NoInode /\ CloseFd(p, call[p].node)
  PROVE  IInv'
<1> DEFINE c == call[p]
           closed == [c EXCEPT !.pc = "closeNew", !.node = NoInode]
<1>1. Local(p) /\ OfNames(p) /\ c \in Calls /\ NoInode \notin Inodes
  BY SessionsAssumption DEF IInv, Types
<1>2. CallShape(c)
  BY <1>1 DEF Local
<1>3. call' = [call EXCEPT ![p] = IF c.op # "create" THEN NoCall ELSE closed]
  BY DEF OpenFailed
<1>4. call'[p] = IF c.op # "create" THEN NoCall ELSE closed
  BY <1>3 DEF IInv, Types
<1>5. NoCall \in Calls /\ closed \in Calls
  BY <1>1, NoCallTyped DEF Calls, MaybeNode, Creating
<1>6. CallShape(call'[p])
  <2>1. CallShape(NoCall)
    BY DEF CallShape, NoCall, NoNew, Opening, Generating, Creating
  <2>2. ASSUME c.op = "create" PROVE CallShape(closed)
    BY <1>1, <1>2, <2>2 DEF CallShape, Calls, Opening, Generating, Creating
  <2>3. QED
    BY <1>4, <2>1, <2>2
<1>7. FileShape(p)'
  BY <1>1, <1>4 DEF Local, FileShape, NoCall, Opening, Calls
<1>8. ChainsApart(p)'
  <2>1. ChainsApart(p) /\ iPtrArray' = iPtrArray
    BY <1>1 DEF Local
  <2>2. /\ call'[p].op # "open"
        /\ call'[p].op = "create" => c.op = "create" /\ call'[p].new.file = c.new.file
    BY <1>1, <1>4 DEF NoCall, Calls
  <2>3. QED
    BY <2>1, <2>2 DEF ChainsApart
<1>9. /\ call'[p].closing = c.closing /\ call'[p].node = NoInode /\ c.closing = <<>>
      /\ c.new.node = call'[p].new.node
  BY <1>1, <1>2, <1>4 DEF CallShape, NoCall, NoNew, Calls, Opening
<1>v. \A h \in Handles : iPtrArray[p][h].nodes \in Seq(Inodes) /\ (IsOpen(iPtrArray[p][h]) => 1 \in DOMAIN iPtrArray[p][h].nodes)
  BY VhdsTyped DEF IInv
<1>10. KnownOnce(p)'
  <2>1. KnownOnce(p) /\ iPtrArray' = iPtrArray
    BY <1>1 DEF Local
  <2>2. \A h \in Handles : \A k \in DOMAIN iPtrArray[p][h].nodes : iPtrArray[p][h].nodes[k] # NoInode
    BY <1>1, <1>v
  <2>3. QED
    BY <1>9, <2>1, <2>2 DEF KnownOnce
<1>11. Counted(p)' /\ OnlyOf(p) /\ TypesOf(p)
       /\ \A j \in Inodes : locks'[p][j] = IF j = c.node THEN "none" ELSE locks[p][j]
  <2>1. CASE c.node = NoInode /\ UNCHANGED <<fds, locks>>
    <3>1. Counted(p)'
      BY <1>1, <1>9, <2>1 DEF Local, Counted, Knows
    <3>2. OnlyOf(p) /\ TypesOf(p)
      BY <1>3, <1>4, <1>5, <2>1 DEF OnlyOf, TypesOf, IInv, Types
    <3>3. QED
      BY <1>1, <2>1, <3>1, <3>2
  <2>2. CASE c.node # NoInode /\ CloseFd(p, c.node)
    <3>1. c.node \in Inodes
      BY <1>1, <2>2 DEF Calls, MaybeNode
    <3>2. Knows(p, c.node) /\ \A j \in Inodes : Knows(p, j)' <=> Knows(p, j) /\ j # c.node
      <4>1. KnownOnce(p)
        BY <1>1 DEF Local
      <4>2. \A h \in Handles : c.node \notin NodesOf(iPtrArray[p][h].nodes)
        BY <4>1 DEF KnownOnce, NodesOf
      <4>3. QED
        BY <1>1, <1>9, <2>2, <3>1, <4>1, <4>2 DEF Knows, KnownOnce, NodesOf
    <3>3. /\ Counted(p)'
          /\ fds' = [fds EXCEPT ![p] = fds'[p]] /\ fds'[p] \in [Inodes -> Int]
          /\ locks' = [locks EXCEPT ![p] = locks'[p]] /\ locks'[p] \in [Inodes -> {"none", "R", "W"}]
          /\ \A j \in Inodes : locks'[p][j] = IF j = c.node THEN "none" ELSE locks[p][j]
      BY <2>2, <3>1, <3>2, Closed
    <3>4. OnlyOf(p) /\ TypesOf(p)
      BY <1>3, <1>4, <1>5, <3>3 DEF OnlyOf, TypesOf, IInv, Types
    <3>5. QED
      BY <3>3, <3>4
  <2>3. QED
    BY <2>1, <2>2
<1>12. OpenHandles(p)' = OpenHandles(p)
  BY DEF OpenHandles
<1>13. ClientsCounted(p)'
  BY <1>1, <1>4, <1>12 DEF Local, ClientsCounted, HasRoom, NoCall, Calls
<1>14. LocksHeld(p)'
  <2>1. KnownOnce(p) /\ LocksHeld(p)
    BY <1>1 DEF Local
  <2>3. ASSUME NEW h \in Handles, NEW k \in DOMAIN iPtrArray[p][h].nodes
        PROVE  locks'[p][iPtrArray[p][h].nodes[k]] = locks[p][iPtrArray[p][h].nodes[k]]
    BY <1>11, <1>v, <2>1 DEF KnownOnce
  <2>4. \A h \in OpenHandles(p) : 1 \in DOMAIN iPtrArray[p][h].nodes
    BY <1>v DEF OpenHandles
  <2>5. call'[p].pc \notin Opening \cup Generating
    BY <1>1, <1>4 DEF NoCall, Calls, Opening, Generating
  <2>6. QED
    BY <1>9, <1>12, <2>1, <2>3, <2>4, <2>5 DEF LocksHeld, Opening, OpenHandles
<1>15. NamesKept(p)' /\ Makes(p)'
  BY <1>1, <1>2, <1>4, <1>9 DEF OfNames, NamesKept, Makes, HasMade, NoCall, Calls, Opening
<1>16. HasMade(p)' => HasMade(p) /\ call'[p].new.file = call[p].new.file
  BY <1>1, <1>4 DEF HasMade, NoCall, Calls, Opening
<1>17. QED
  BY <1>1, <1>6, <1>7, <1>8, <1>10, <1>11, <1>13, <1>14, <1>15, <1>16, LocalStep DEF Local, OfNames

(* A process that opens an inode knows it from then on. *)
LEMMA Opened ==
  ASSUME IInv, NEW p \in Procs, NEW i \in Inodes, OpenFd(p, i), ~Knows(p, i),
         \A j \in Inodes : Knows(p, j)' <=> Knows(p, j) \/ j = i
  PROVE  /\ Counted(p)'
         /\ fds' = [fds EXCEPT ![p] = fds'[p]] /\ fds'[p] \in [Inodes -> Int]
<1>1. Counted(p) /\ fds \in [Procs -> [Inodes -> Int]]
  BY DEF IInv, Types, Local
<1>2. QED
  BY <1>1 DEF OpenFd, Counted

(* The inode of the file that is opened is not known yet. *)
LEMMA NewToProcess ==
  ASSUME IInv, NEW p \in Procs, call[p].pc = "openFile", names[call[p].file] # NoInode
  PROVE  ~Knows(p, names[call[p].file]) /\ names[call[p].file] \in Inodes
<1> DEFINE c == call[p]
           i == names[c.file]
<1>1. /\ c \in Calls /\ CallShape(c) /\ FileShape(p) /\ ChainsApart(p) /\ NamesKept(p) /\ Makes(p)
      /\ NamesApart /\ Types
  BY DEF IInv, Types, Local, OfNames
<1>2. /\ c.file \in Files /\ c.op \in {"open", "parent", "create"} /\ c.closing = <<>>
      /\ c.node = NoInode
      /\ c.new.node # NoInode <=> c.op = "create"
      /\ c.op = "create" => c.new.file \in Files
  BY <1>1 DEF CallShape, Opening, Creating, Generating
<1>3. i \in Inodes
  BY <1>1, <1>2 DEF Types, MaybeNode
<1>4. \A f \in Files : Chain[f] \in Seq(Files) /\ Chain[f] # <<>> /\ Chain[f][1] = f
                       /\ (\A k, l \in DOMAIN Chain[f] : Chain[f][k] = Chain[f][l] => k = l)
  BY SessionsAssumption
<1>5. ASSUME NEW h \in Handles, i \in NodesOf(iPtrArray[p][h].nodes)
      PROVE  FALSE
  <2> DEFINE vhd == iPtrArray[p][h]
             g == vhd.file
  <2>1. PICK k \in DOMAIN vhd.nodes : vhd.nodes[k] = i
    BY <1>5 DEF NodesOf
  <2>2. IsOpen(vhd) /\ g \in Files /\ k \in 1 .. Len(Chain[g]) /\ k \in 1 .. Len(vhd.nodes) /\ vhd.nodes \in Seq(Inodes)
    <3>1. vhd.nodes \in Seq(Inodes) /\ IsOpen(vhd)
      BY <1>1, <2>1, VhdsTyped DEF IsOpen
    <3>2. QED
      BY <1>1, <1>4, <2>1, <3>1, VhdsTyped
  <2>3. c.file = Chain[g][k]
    BY <1>1, <1>2, <2>1 DEF NamesKept
  <2>4. c.file \in FilesOf(Chain[g])
    BY <1>4, <2>2, <2>3 DEF FilesOf
  <2>5. CASE c.op = "open"
    <3>1. c.file \in FilesOf(Chain[c.file])
      BY <1>2, <1>4 DEF FilesOf
    <3>2. FilesOf(Chain[g]) \cap FilesOf(Chain[c.file]) = {}
      BY <1>1, <2>2, <2>5 DEF ChainsApart
    <3>3. QED
      BY <2>4, <3>1, <3>2
  <2>6. CASE c.op = "create"
    <3>1. c.file \in FilesOf(Chain[c.new.file])
      BY <1>1, <1>2, <1>4, <2>6 DEF FilesOf, FileShape, Opening
    <3>2. FilesOf(Chain[g]) \cap FilesOf(Chain[c.new.file]) = {}
      BY <1>1, <2>2, <2>6 DEF ChainsApart
    <3>3. QED
      BY <2>4, <3>1, <3>2
  <2>7. CASE c.op = "parent"
    <3> DEFINE own == iPtrArray[p][c.handle]
    <3>1. /\ c.handle \in Handles /\ IsOpen(own) /\ Len(own.nodes) < Len(Chain[own.file])
          /\ c.file = Chain[own.file][Len(own.nodes) + 1]
      BY <1>1, <2>7 DEF FileShape
    <3>2. own.file \in Files /\ own.nodes \in Seq(Inodes)
      BY <1>1, <3>1, VhdsTyped
    <3>n. Len(own.nodes) \in Nat /\ Len(Chain[own.file]) \in Nat
      BY <3>2, Chains
    <3> DEFINE l == Len(own.nodes) + 1
    <3>l. l \in 1 .. Len(Chain[own.file]) /\ c.file = Chain[own.file][l] /\ l > Len(own.nodes)
      <4> DEFINE m == Len(own.nodes)
                 n == Len(Chain[own.file])
      <4>1. m \in Nat /\ n \in Nat /\ m < n
        BY <3>1, <3>n
      <4> HIDE DEF m, n
      <4>2. m + 1 \in 1 .. n /\ m + 1 > m
        BY <4>1
      <4>3. QED
        BY <3>1, <4>2 DEF m, n
    <3>3. c.file \in FilesOf(Chain[own.file])
      BY <3>2, <3>l, Chains
    <3>4. h = c.handle
      <4>1. ASSUME h # c.handle PROVE FilesOf(Chain[g]) \cap FilesOf(Chain[own.file]) = {}
        BY <1>1, <2>2, <3>1, <4>1 DEF ChainsApart
      <4>2. QED
        BY <2>4, <3>3, <4>1
    <3>5. k = l
      <4> HIDE DEF l
      <4>1. Chain[g][k] = Chain[g][l] /\ l \in 1 .. Len(Chain[g])
        BY <2>3, <3>l, <3>4
      <4>2. QED
        BY <2>2, <4>1, Chains
    <3>6. QED
      <4> HIDE DEF l
      <4>1. l > Len(vhd.nodes) /\ k <= Len(vhd.nodes)
        BY <2>2, <3>4, <3>l
      <4>2. QED
        BY <2>2, <3>l, <3>5, <4>1
  <2>8. QED
    BY <1>2, <2>5, <2>6, <2>7
<1>6. ASSUME i = c.new.node
      PROVE  FALSE
  <2>1. c.op = "create" /\ names[c.new.file] = i
    BY <1>1, <1>2, <1>6 DEF Makes, HasMade
  <2>2. c.file = c.new.file
    BY <1>1, <1>2, <2>1 DEF NamesApart
  <2>3. Len(Chain[c.new.file]) > 1 /\ c.file = Chain[c.new.file][2]
    BY <1>1, <2>1 DEF FileShape, Opening
  <2>4. QED
    BY <1>2, <1>4, <2>1, <2>2, <2>3
<1>7. ~Knows(p, i)
  BY <1>2, <1>3, <1>5, <1>6, SessionsAssumption DEF Knows, NodesOf
<1>8. QED
  BY <1>3, <1>7

(* OpenFile keeps the invariant. *)
LEMMA OpenFileKeeps ==
  ASSUME IInv, NEW p \in Procs, OpenFile(p)
  PROVE  IInv'
<1> DEFINE c == call[p]
           i == names[c.file]
           opened == [c EXCEPT !.pc = "lockFile", !.node = i]
<1>1. c.pc = "openFile" /\ UNCHANGED <<names, content, locks, iPtrArray, iNumClients>>
  BY DEF OpenFile, At, fileVars, handleVars
<1>2. /\ c \in Calls /\ CallShape(c) /\ FileShape(p) /\ ChainsApart(p) /\ NamesKept(p) /\ Makes(p)
      /\ KnownOnce(p) /\ ClientsCounted(p) /\ LocksHeld(p) /\ NamesApart /\ Types
  BY DEF IInv, Types, Local, OfNames
<1>3. c.closing = <<>> /\ c.node = NoInode /\ c.file \in Files
  BY <1>1, <1>2 DEF CallShape, Opening, Generating
<1>4. CASE i = NoInode
  <2>1. OpenFailed(p) /\ UNCHANGED fds
    BY <1>4 DEF OpenFile
  <2>2. QED
    BY <1>1, <1>3, <2>1, OpenFailedKeeps DEF Opening
<1>5. CASE i # NoInode
  <2>1. OpenFd(p, i) /\ call' = [call EXCEPT ![p].pc = "lockFile", ![p].node = i]
    BY <1>5 DEF OpenFile
  <2>2. ~Knows(p, i) /\ i \in Inodes
    BY <1>1, <1>5, NewToProcess
  <2>3. call' = [call EXCEPT ![p] = opened] /\ call'[p] = opened
    BY <2>1, <1>2 DEF Types
  <2>4. opened \in Calls
    BY <1>2, <2>2 DEF Calls, MaybeNode, Opening
  <2>5. CallShape(opened)
    BY <1>1, <1>2, <1>5 DEF CallShape, Calls, Opening, Generating, Creating
  <2>6. FileShape(p)'
    BY <1>1, <1>2, <2>3 DEF FileShape, Calls, Opening
  <2>7. /\ call'[p].op = c.op /\ call'[p].file = c.file /\ call'[p].new = c.new /\ call'[p].node = i
        /\ call'[p].closing = c.closing /\ call'[p].pc = "lockFile" /\ call'[p].flags = c.flags
    <3>1. c \in Calls
      BY <1>2
    <3>2. call'[p] = [c EXCEPT !.pc = "lockFile", !.node = i]
      BY <2>3
    <3> HIDE DEF c, i
    <3>3. call'[p].op = c.op /\ call'[p].file = c.file /\ call'[p].pc = "lockFile"
      BY <3>1, <3>2 DEF Calls
    <3>4. call'[p].new = c.new /\ call'[p].node = i
      BY <3>1, <3>2 DEF Calls
    <3>5. call'[p].closing = c.closing /\ call'[p].flags = c.flags
      BY <3>1, <3>2 DEF Calls
    <3>6. QED
      BY <3>3, <3>4, <3>5
  <2>8. ChainsApart(p)'
    BY <1>1, <1>2, <2>7 DEF ChainsApart
  <2>9. \A h \in Handles : i \notin NodesOf(iPtrArray[p][h].nodes)
    BY <2>2 DEF Knows
  <2>10. i # c.new.node
    BY <2>2 DEF Knows
  <2>11. KnownOnce(p)'
    <3>1. \A h \in Handles : \A k \in DOMAIN iPtrArray[p][h].nodes : iPtrArray[p][h].nodes[k] # i
      BY <2>9 DEF NodesOf
    <3>2. QED
      BY <1>1, <1>2, <2>7, <2>10, <3>1 DEF KnownOnce
  <2>12. /\ Counted(p)'
         /\ fds' = [fds EXCEPT ![p] = fds'[p]] /\ fds'[p] \in [Inodes -> Int]
    <3>1. \A j \in Inodes : Knows(p, j)' <=> Knows(p, j) \/ j = i
      BY <1>1, <1>3, <2>7, SessionsAssumption DEF Knows
    <3>2. QED
      BY <2>1, <2>2, <3>1, Opened
  <2>13. OnlyOf(p) /\ TypesOf(p)
    BY <1>1, <1>2, <2>3, <2>4, <2>12 DEF OnlyOf, TypesOf, Types
  <2>14. OpenHandles(p)' = OpenHandles(p)
    BY <1>1 DEF OpenHandles
  <2>15. ClientsCounted(p)'
    BY <1>1, <1>2, <2>7, <2>14 DEF ClientsCounted, HasRoom
  <2>16. LocksHeld(p)'
    BY <1>1, <1>2, <2>7, <2>14 DEF LocksHeld, Opening, Generating
  <2>17. NamesKept(p)' /\ Makes(p)'
    BY <1>1, <1>2, <1>3, <1>5, <2>7 DEF NamesKept, Makes, HasMade, NamesApart
  <2>18. HasMade(p)' => HasMade(p) /\ call'[p].new.file = call[p].new.file
    BY <1>1, <2>7 DEF HasMade
  <2>19. QED
    BY <1>1, <2>3, <2>5, <2>6, <2>8, <2>11, <2>12, <2>13, <2>15, <2>16, <2>17, <2>18, LocalStep
    DEF Local, OfNames
<1>6. QED
  BY <1>4, <1>5

-----------------------------------------------------------------------------
(* Steps with the same descriptors *)

SameParts(p) ==
  LET c == call[p]
      d == call'[p]
  IN  /\ d.op = c.op /\ d.new.file = c.new.file /\ d.new.node = c.new.node
      /\ d.node = c.node /\ d.closing = c.closing
      /\ d.op = "open" \/ d.node # NoInode => d.file = c.file
      /\ fds' = fds /\ iPtrArray' = iPtrArray /\ iNumClients' = iNumClients

(* Most of what a process knows depends on these parts only. *)
LEMMA SamePartsKept ==
  ASSUME IInv, NEW p \in Procs, SameParts(p)
  PROVE  /\ ChainsApart(p)' /\ KnownOnce(p)' /\ Counted(p)' /\ ClientsCounted(p)'
         /\ OpenHandles(p)' = OpenHandles(p)
         /\ names' = names => NamesKept(p)'
<1>1. Local(p) /\ NamesKept(p)
  BY DEF IInv, OfNames
<1>2. /\ call'[p].op = call[p].op /\ call'[p].new.file = call[p].new.file
      /\ call'[p].new.node = call[p].new.node /\ call'[p].node = call[p].node
      /\ call'[p].closing = call[p].closing
      /\ call'[p].op = "open" \/ call'[p].node # NoInode => call'[p].file = call[p].file
      /\ fds' = fds /\ iPtrArray' = iPtrArray /\ iNumClients' = iNumClients
  BY DEF SameParts
<1>3. ChainsApart(p)'
  BY <1>1, <1>2 DEF Local, ChainsApart
<1>4. KnownOnce(p)'
  BY <1>1, <1>2 DEF Local, KnownOnce
<1>5. Counted(p)'
  BY <1>1, <1>2 DEF Local, Counted, Knows
<1>6. OpenHandles(p)' = OpenHandles(p)
  BY <1>2 DEF OpenHandles
<1>7. ClientsCounted(p)'
  BY <1>1, <1>2, <1>6 DEF Local, ClientsCounted, HasRoom
<1>8. names' = names => NamesKept(p)'
  BY <1>1, <1>2 DEF NamesKept
<1>9. QED
  BY <1>3, <1>4, <1>5, <1>6, <1>7, <1>8

(* What is known about the places of a call when it goes on to another one *)
LEMMA Moved ==
  ASSUME IInv, NEW p \in Procs, NEW pc, pc \in Opening \cup Creating,
         call' = [call EXCEPT ![p].pc = pc]
  PROVE  /\ call'[p] \in Calls /\ call'[p].pc = pc /\ call'[p].file = call[p].file
         /\ call'[p].op = call[p].op /\ call'[p].new = call[p].new
         /\ call'[p].node = call[p].node /\ call'[p].closing = call[p].closing
         /\ call'[p].flags = call[p].flags /\ call'[p].handle = call[p].handle
         /\ call' = [call EXCEPT ![p] = call'[p]]
<1> DEFINE c == call[p]
           d == [c EXCEPT !.pc = pc]
<1>1. call' = [call EXCEPT ![p] = d] /\ call'[p] = d /\ c \in Calls
  BY DEF IInv, Types
<1> HIDE DEF c
<1>2. d \in Calls
  BY <1>1 DEF Calls
<1>3. d.op = c.op /\ d.file = c.file /\ d.pc = pc
  BY <1>1 DEF Calls
<1>4. d.new = c.new /\ d.node = c.node
  BY <1>1 DEF Calls
<1>5. d.closing = c.closing /\ d.flags = c.flags /\ d.handle = c.handle
  BY <1>1 DEF Calls
<1>6. QED
  BY <1>1, <1>2, <1>3, <1>4, <1>5 DEF c

(* A process that gets a lock has no lock less than before. *)
LEMMA LockTaken ==
  ASSUME IInv, NEW p \in Procs, NEW i \in Inodes, NEW type \in {"R", "W"}, SetLock(p, i, type)
  PROVE  /\ locks' = [locks EXCEPT ![p] = locks'[p]] /\ locks'[p] \in [Inodes -> {"none", "R", "W"}]
         /\ \A j \in Inodes : locks'[p][j] = IF j = i THEN type ELSE locks[p][j]
<1>1. locks \in [Procs -> [Inodes -> {"none", "R", "W"}]]
  BY DEF IInv, Types
<1>2. QED
  BY <1>1 DEF SetLock

(* The inodes of the VHDs are not those of the call. *)
LEMMA VhdsOwn ==
  ASSUME IInv, NEW p \in Procs, NEW h \in Handles, NEW k \in DOMAIN iPtrArray[p][h].nodes
  PROVE  /\ iPtrArray[p][h].nodes[k] \in Inodes
         /\ iPtrArray[p][h].nodes[k] \notin NodesOf(call[p].closing) \cup {call[p].node, call[p].new.node}
<1>1. KnownOnce(p) /\ iPtrArray[p][h].nodes \in Seq(Inodes)
  BY VhdsTyped DEF IInv, Local
<1>2. QED
  BY <1>1 DEF KnownOnce

(* An open VHD has the inode of its own file. *)
LEMMA FirstNode ==
  ASSUME IInv, NEW p \in Procs, NEW h \in OpenHandles(p)
  PROVE  1 \in DOMAIN iPtrArray[p][h].nodes
BY VhdsTyped DEF IInv, OpenHandles

(* LockFile keeps the invariant. *)
LEMMA LockFileKeeps ==
  ASSUME IInv, NEW p \in Procs, LockFile(p)
  PROVE  IInv'
<1> DEFINE c == call[p]
           i == call[p].node
           type == LockType(c.flags)
<1>1. c.pc = "lockFile" /\ UNCHANGED <<names, content, iPtrArray, iNumClients>>
  BY DEF LockFile, At, fileVars, handleVars
<1>2. /\ c \in Calls /\ CallShape(c) /\ FileShape(p) /\ Makes(p) /\ LocksHeld(p)
      /\ KnownOnce(p) /\ Types
  BY DEF IInv, Types, Local, OfNames
<1>3. c.closing = <<>> /\ i \in Inodes /\ i # NoInode /\ c.node # c.new.node
      /\ (c.new.node # NoInode => c.new.node \in Inodes)
  BY <1>1, <1>2, Parts DEF CallShape, KnownOnce
<1>4. CASE ~CanLock(p, c.node, c.flags)
  <2>1. OpenFailed(p) /\ CloseFd(p, i)
    BY <1>4 DEF LockFile
  <2>2. QED
    BY <1>1, <1>3, <2>1, OpenFailedKeeps DEF Opening
<1>5. CASE CanLock(p, c.node, c.flags)
  <2>1. SetLock(p, i, type) /\ call' = [call EXCEPT ![p].pc = "recognise"] /\ fds' = fds
    BY <1>5 DEF LockFile, Goto
  <2>2. type \in {"R", "W"} /\ Compatible(p, i, type) /\ ("RDWR" \in c.flags => type = "W")
    BY <1>5 DEF LockType, CanLock
  <2> HIDE DEF type
  <2>3. /\ call'[p] \in Calls /\ call'[p].pc = "recognise" /\ call'[p].file = c.file
        /\ call'[p].op = c.op /\ call'[p].new = c.new
        /\ call'[p].node = c.node /\ call'[p].closing = c.closing
        /\ call'[p].flags = c.flags /\ call'[p].handle = c.handle
        /\ call' = [call EXCEPT ![p] = call'[p]]
    BY <2>1, Moved DEF Opening
  <2>4. SameParts(p)
    BY <1>1, <2>1, <2>3 DEF SameParts
  <2>5. CallShape(call'[p])
    BY <1>1, <1>2, <2>3 DEF CallShape, Opening, Generating, Creating
  <2>6. FileShape(p)'
    BY <1>1, <1>2, <2>3 DEF FileShape, Opening
  <2>7. /\ locks' = [locks EXCEPT ![p] = locks'[p]] /\ locks'[p] \in [Inodes -> {"none", "R", "W"}]
        /\ \A j \in Inodes : locks'[p][j] = IF j = i THEN type ELSE locks[p][j]
    BY <1>3, <2>1, <2>2, LockTaken
  <2>8. OnlyOf(p) /\ TypesOf(p)
    BY <1>1, <1>2, <2>1, <2>3, <2>7 DEF OnlyOf, TypesOf, Types
  <2>9. LocksHeld(p)'
    <3>1. \A h \in Handles : \A k \in DOMAIN iPtrArray[p][h].nodes :
            locks'[p][iPtrArray[p][h].nodes[k]] = locks[p][iPtrArray[p][h].nodes[k]]
      BY <2>7, VhdsOwn
    <3>2. OpenHandles(p)' = OpenHandles(p) /\ OpenHandles(p) \subseteq Handles
      BY <2>4, SamePartsKept DEF OpenHandles
    <3>3. QED
      BY <1>1, <1>2, <1>3, <2>2, <2>3, <2>7, <3>1, <3>2, FirstNode DEF LocksHeld, Opening
  <2>10. Makes(p)' /\ (HasMade(p)' => HasMade(p) /\ call'[p].new.file = call[p].new.file)
    BY <1>1, <1>2, <2>3 DEF Makes, HasMade
  <2>11. Local(p)' /\ OfNames(p)'
    BY <1>1, <2>4, <2>5, <2>6, <2>9, <2>10, SamePartsKept DEF Local, OfNames
  <2>12. \A j \in Inodes : locks'[p][j] \in {locks[p][j], "none"} \/ Compatible(p, j, locks'[p][j])
    BY <2>2, <2>7
  <2>13. QED
    BY <1>1, <2>8, <2>10, <2>11, <2>12, LocalStep
<1>6. QED
  BY <1>4, <1>5

(* LockNew keeps the invariant. *)
LEMMA LockNewKeeps ==
  ASSUME IInv, NEW p \in Procs, LockNew(p)
  PROVE  IInv'
<1> DEFINE c == call[p]
           i == call[p].new.node
           chain == Chain[c.new.file]
<1>1. c.pc = "lockNew" /\ UNCHANGED <<names, content, fds, iPtrArray, iNumClients>>
  BY DEF LockNew, At, fileVars, handleVars
<1>2. /\ c \in Calls /\ CallShape(c) /\ FileShape(p) /\ ChainsApart(p) /\ Makes(p) /\ LocksHeld(p)
      /\ Types
  BY DEF IInv, Types, Local, OfNames
<1>3. /\ c.closing = <<>> /\ i \in Inodes /\ c.node = NoInode /\ c.op = "create"
      /\ c.new.file \in Files /\ ~c.new.made
  BY <1>1, <1>2, Parts DEF CallShape, Creating, Opening, Generating
<1>4. CASE ~Compatible(p, i, "W")
  <2>1. OnlyCall(p) /\ call' = [call EXCEPT ![p].pc = "closeNew"]
    BY <1>1, <1>2, <1>4 DEF LockNew, Goto, OnlyCall, Types
  <2>2. /\ call'[p] \in Calls /\ call'[p].pc = "closeNew" /\ call'[p].file = c.file
        /\ call'[p].op = c.op /\ call'[p].new = c.new
        /\ call'[p].node = c.node /\ call'[p].closing = c.closing
        /\ call'[p].flags = c.flags
        /\ call' = [call EXCEPT ![p] = call'[p]]
    BY <2>1, Moved DEF Creating
  <2>3. SameParts(p)
    BY <1>1, <2>2, <1>3 DEF SameParts
  <2>4. CallShape(call'[p])
    BY <1>1, <1>2, <1>3, <2>2 DEF CallShape, Opening, Generating, Creating
  <2>5. FileShape(p)'
    BY <1>2, <1>3, <2>2 DEF FileShape, Opening
  <2>6. LocksHeld(p)'
    <3>1. OpenHandles(p)' = OpenHandles(p) /\ locks' = locks /\ iPtrArray' = iPtrArray
      BY <2>1, <2>3, SamePartsKept DEF OnlyCall
    <3>2. QED
      BY <1>2, <1>3, <2>2, <3>1 DEF LocksHeld, Opening, Generating
  <2>7. Makes(p)' /\ (HasMade(p)' => HasMade(p) /\ call'[p].new.file = call[p].new.file)
    BY <1>1, <1>2, <2>2 DEF Makes, HasMade
  <2>8. HasRoom(p)
    BY <1>3 DEF IInv, Local, ClientsCounted
  <2>9. QED
    BY <1>3, <2>1, <2>2, <2>3, <2>4, <2>5, <2>6, <2>7, <2>8, SamePartsKept, CallStep
<1>5. CASE Compatible(p, i, "W")
  <2>1. SetLock(p, i, "W") /\ call' = [call EXCEPT ![p] = Generation(c)] /\ call'[p] = Generation(c)
    BY <1>2, <1>5 DEF LockNew, Types
  <2>2. /\ Len(chain) \in Nat \ {0}
        /\ \A k \in 1 .. Len(chain) : chain[k] \in Files
    BY <1>3, Chains
  <2>3. /\ call'[p] \in Calls /\ call'[p].op = c.op /\ call'[p].new = c.new
        /\ call'[p].node = c.node /\ call'[p].closing = c.closing
        /\ call'[p].flags = c.flags /\ call'[p].pc \in {"generate", "openFile"}
        /\ call'[p].pc = "openFile" => Len(chain) > 1 /\ call'[p].file = chain[2] /\ chain[2] \in Files
    <3>1. CASE Len(chain) = 1
      <4>1. call'[p] = [c EXCEPT !.pc = "generate"] /\ c \in Calls
        BY <1>2, <2>1, <3>1 DEF Generation
      <4> HIDE DEF c, chain
      <4>2. call'[p] \in Calls /\ call'[p].pc = "generate"
        BY <4>1 DEF Calls, Creating, Generating
      <4>3. call'[p].op = c.op /\ call'[p].new = c.new /\ call'[p].node = c.node
        BY <4>1 DEF Calls
      <4>4. call'[p].closing = c.closing /\ call'[p].flags = c.flags
        BY <4>1 DEF Calls
      <4>5. QED
        BY <4>2, <4>3, <4>4
    <3>2. CASE Len(chain) # 1
      <4>1. call'[p] = [c EXCEPT !.pc = "openFile", !.file = chain[2]] /\ c \in Calls
        BY <1>2, <2>1, <3>2 DEF Generation
      <4> DEFINE n == Len(chain)
      <4> HIDE DEF c, n
      <4>2. chain[2] \in Files /\ Len(chain) > 1
        <5>1. n \in Nat \ {0} /\ n # 1
          BY <2>2, <3>2 DEF n
        <5>2. n > 1 /\ 2 \in 1 .. n
          BY <5>1
        <5>3. QED
          BY <2>2, <5>2 DEF n
      <4> HIDE DEF chain
      <4>3. call'[p] \in Calls
        BY <4>1, <4>2 DEF Calls, MaybeFile, Opening
      <4>4. call'[p].pc = "openFile" /\ call'[p].file = chain[2]
        BY <4>1, <4>2 DEF Calls
      <4>5. call'[p].op = c.op /\ call'[p].new = c.new /\ call'[p].node = c.node
        BY <4>1 DEF Calls
      <4>6. call'[p].closing = c.closing /\ call'[p].flags = c.flags
        BY <4>1 DEF Calls
      <4>7. QED
        BY <4>2, <4>3, <4>4, <4>5, <4>6
    <3>3. QED
      BY <3>1, <3>2
  <2>4. SameParts(p)
    BY <1>1, <1>3, <2>3 DEF SameParts
  <2>5. CallShape(call'[p])
    BY <1>1, <1>2, <1>3, <2>3 DEF CallShape, Opening, Generating, Creating
  <2>6. FileShape(p)'
    BY <1>2, <1>3, <2>3 DEF FileShape, Opening
  <2>7. /\ locks' = [locks EXCEPT ![p] = locks'[p]] /\ locks'[p] \in [Inodes -> {"none", "R", "W"}]
        /\ \A j \in Inodes : locks'[p][j] = IF j = i THEN "W" ELSE locks[p][j]
    BY <1>3, <2>1, LockTaken
  <2>8. OnlyOf(p) /\ TypesOf(p)
    BY <1>1, <1>2, <2>1, <2>3, <2>7 DEF OnlyOf, TypesOf, Types
  <2>9. LocksHeld(p)'
    <3>1. \A h \in Handles : \A k \in DOMAIN iPtrArray[p][h].nodes :
            locks'[p][iPtrArray[p][h].nodes[k]] = locks[p][iPtrArray[p][h].nodes[k]]
      BY <2>7, VhdsOwn
    <3>2. OpenHandles(p)' = OpenHandles(p) /\ OpenHandles(p) \subseteq Handles
      BY <2>4, SamePartsKept DEF OpenHandles
    <3>3. QED
      BY <1>1, <1>2, <1>3, <2>3, <2>7, <3>1, <3>2, FirstNode DEF LocksHeld, Opening
  <2>10. Makes(p)' /\ (HasMade(p)' => HasMade(p) /\ call'[p].new.file = call[p].new.file)
    BY <1>1, <1>2, <2>3 DEF Makes, HasMade
  <2>11. Local(p)' /\ OfNames(p)'
    BY <1>1, <2>4, <2>5, <2>6, <2>9, <2>10, SamePartsKept DEF Local, OfNames
  <2>12. \A j \in Inodes : locks'[p][j] \in {locks[p][j], "none"} \/ Compatible(p, j, locks'[p][j])
    BY <1>5, <2>7
  <2>13. QED
    BY <1>1, <2>8, <2>10, <2>11, <2>12, LocalStep
<1>6. QED
  BY <1>4, <1>5

(* Generate keeps the invariant. *)
LEMMA GenerateKeeps ==
  ASSUME IInv, NEW p \in Procs, Generate(p)
  PROVE  IInv'
<1> DEFINE c == call[p]
           i == call[p].new.node
<1>1. /\ c.pc = "generate" /\ UNCHANGED <<names, fds, locks, iPtrArray, iNumClients>>
      /\ content' = [content EXCEPT ![i] = "partial"]
      /\ call' = [call EXCEPT ![p].pc = "finish"]
  BY DEF Generate, Goto, At, lockVars, handleVars
<1>2. CallShape(c) /\ FileShape(p) /\ Makes(p) /\ LocksHeld(p) /\ Types
  BY DEF IInv, Local, OfNames
<1>3. /\ i \in Inodes /\ i # NoInode /\ c.op = "create"
      /\ c.new.file \in Files /\ ~c.new.made /\ HasMade(p)
  BY <1>1, <1>2, Parts DEF CallShape, Creating, Opening, Generating, HasMade
<1>4. /\ call'[p] \in Calls /\ call'[p].pc = "finish" /\ call'[p].file = c.file
      /\ call'[p].op = c.op /\ call'[p].new = c.new
      /\ call'[p].node = c.node /\ call'[p].closing = c.closing
      /\ call'[p].flags = c.flags
      /\ call' = [call EXCEPT ![p] = call'[p]]
  BY <1>1, Moved DEF Creating, Generating
<1>5. SameParts(p)
  BY <1>1, <1>4 DEF SameParts
<1>6. CallShape(call'[p])
  BY <1>1, <1>2, <1>3, <1>4 DEF CallShape, Opening, Generating, Creating
<1>7. FileShape(p)'
  BY <1>1, <1>2, <1>3, <1>4 DEF FileShape, Opening
<1>8. OnlyOf(p) /\ TypesOf(p)
  BY <1>1, <1>2, <1>4 DEF OnlyOf, TypesOf, Types
<1>9. LocksHeld(p)'
  <2>1. OpenHandles(p)' = OpenHandles(p)
    BY <1>5, SamePartsKept
  <2>2. QED
    BY <1>1, <1>2, <1>4, <2>1 DEF LocksHeld, Opening, Generating
<1>10. Makes(p)' /\ (HasMade(p)' => HasMade(p) /\ call'[p].new.file = call[p].new.file)
  BY <1>1, <1>2, <1>3, <1>4 DEF Makes, HasMade, Types
<1>11. Local(p)' /\ OfNames(p)'
  BY <1>1, <1>5, <1>6, <1>7, <1>9, <1>10, SamePartsKept DEF Local, OfNames
<1>12. OnlyOwnContent(p)
  BY <1>1, <1>2, <1>3 DEF OnlyOwnContent, Types
<1>13. QED
  BY <1>1, <1>8, <1>10, <1>11, <1>12, ContentStep

(* Finish keeps the invariant. *)
LEMMA FinishKeeps ==
  ASSUME IInv, NEW p \in Procs, Finish(p)
  PROVE  IInv'
<1> DEFINE c == call[p]
           i == call[p].new.node
<1>1. PICK ok \in BOOLEAN :
        /\ c.pc = "finish" /\ UNCHANGED <<names, fds, locks, iPtrArray, iNumClients>>
        /\ content' = [content EXCEPT ![i] = IF ok THEN "whole" ELSE "abandoned"]
        /\ call' = [call EXCEPT ![p].new.made = ok,
                                ![p].pc = IF call[p].node = NoInode THEN "closeNew" ELSE "closeParent"]
  BY DEF Finish, At, lockVars, handleVars
<1>2. CallShape(c) /\ FileShape(p) /\ Makes(p) /\ LocksHeld(p) /\ Types /\ c \in Calls
  BY DEF IInv, Local, OfNames, Types
<1>3. /\ i \in Inodes /\ i # NoInode /\ c.op = "create"
      /\ c.new.file \in Files /\ c.new \in News /\ ~c.new.made /\ HasMade(p)
  BY <1>1, <1>2, Parts DEF CallShape, Creating, Opening, Generating, HasMade
<1> DEFINE pc == IF call[p].node = NoInode THEN "closeNew" ELSE "closeParent"
           d == [c EXCEPT !.new.made = ok, !.pc = pc]
<1>d. call' = [call EXCEPT ![p] = d] /\ call'[p] = d
  BY <1>1, <1>2 DEF Types
<1>4. /\ call'[p] \in Calls /\ call'[p].pc = pc /\ call'[p].file = c.file
      /\ call'[p].op = c.op /\ call'[p].new.file = c.new.file /\ call'[p].new.node = c.new.node
      /\ call'[p].new.made = ok
      /\ call'[p].node = c.node /\ call'[p].closing = c.closing
      /\ call'[p].flags = c.flags
      /\ call' = [call EXCEPT ![p] = call'[p]]
  <2>1. pc \in Creating
    BY DEF Creating, Generating
  <2>2. c \in Calls /\ c.new \in News /\ ok \in BOOLEAN
    BY <1>2, <1>3
  <2> HIDE DEF c, pc
  <2>3. d \in Calls
    BY <2>1, <2>2 DEF Calls, News
  <2>4. d.pc = pc /\ d.file = c.file /\ d.op = c.op
    BY <2>2 DEF Calls
  <2>5. d.new.file = c.new.file /\ d.new.node = c.new.node /\ d.new.made = ok
    BY <2>2 DEF Calls, News
  <2>6. d.node = c.node /\ d.closing = c.closing /\ d.flags = c.flags
    BY <2>2 DEF Calls
  <2>7. QED
    BY <1>d, <2>3, <2>4, <2>5, <2>6
<1>5. SameParts(p)
  BY <1>1, <1>4 DEF SameParts
<1>6. CallShape(call'[p])
  BY <1>1, <1>2, <1>3, <1>4 DEF CallShape, Opening, Generating, Creating
<1>7. FileShape(p)'
  BY <1>1, <1>2, <1>3, <1>4 DEF FileShape, Opening
<1>8. OnlyOf(p) /\ TypesOf(p)
  BY <1>1, <1>2, <1>4 DEF OnlyOf, TypesOf, Types
<1>9. LocksHeld(p)'
  <2>1. OpenHandles(p)' = OpenHandles(p)
    BY <1>5, SamePartsKept
  <2>2. QED
    BY <1>1, <1>2, <1>4, <2>1 DEF LocksHeld, Opening, Generating
<1>10. Makes(p)' /\ (HasMade(p)' => HasMade(p) /\ call'[p].new.file = call[p].new.file)
  BY <1>1, <1>2, <1>3, <1>4 DEF Makes, HasMade, Types
<1>11. Local(p)' /\ OfNames(p)'
  BY <1>1, <1>5, <1>6, <1>7, <1>9, <1>10, SamePartsKept DEF Local, OfNames
<1>12. OnlyOwnContent(p)
  BY <1>1, <1>2, <1>3 DEF OnlyOwnContent, Types
<1>13. QED
  BY <1>1, <1>8, <1>10, <1>11, <1>12, ContentStep

-----------------------------------------------------------------------------
(* Steps that close a descriptor, or a VHD *)

(* The call closes an inode of its own: what the VHDs have stays. *)
LEMMA VhdsStay ==
  ASSUME IInv, NEW p \in Procs, NEW i \in Inodes, CloseFd(p, i),
         i \in NodesOf(call[p].closing) \cup {call[p].node, call[p].new.node},
         iPtrArray' = iPtrArray
  PROVE  /\ OpenHandles(p)' = OpenHandles(p)
         /\ \A h \in Handles : \A k \in DOMAIN iPtrArray[p][h].nodes :
              locks'[p][iPtrArray[p][h].nodes[k]] # "none"
         /\ \A h \in OpenHandles(p) : "RDWR" \in iPtrArray[p][h].flags =>
              locks'[p][iPtrArray[p][h].nodes[1]] = "W"
         /\ \A h \in Handles : i \notin NodesOf(iPtrArray[p][h].nodes)
         /\ Knows(p, i)
<1>1. locks \in [Procs -> [Inodes -> {"none", "R", "W"}]] /\ LocksHeld(p)
  BY DEF IInv, Types, Local
<1>2. \A j \in Inodes : j # i => locks'[p][j] = locks[p][j]
  BY <1>1 DEF CloseFd
<1>3. ASSUME NEW h \in Handles, NEW k \in DOMAIN iPtrArray[p][h].nodes
      PROVE  /\ iPtrArray[p][h].nodes[k] # i
             /\ locks'[p][iPtrArray[p][h].nodes[k]] = locks[p][iPtrArray[p][h].nodes[k]]
  BY <1>2, VhdsOwn
<1>4. OpenHandles(p)' = OpenHandles(p)
  BY DEF OpenHandles
<1>5. \A h \in OpenHandles(p) : h \in Handles /\ 1 \in DOMAIN iPtrArray[p][h].nodes
  BY FirstNode DEF OpenHandles
<1>6. QED
  BY <1>1, <1>3, <1>4, <1>5 DEF LocksHeld, NodesOf, Knows

(* CloseParent keeps the invariant. *)
LEMMA CloseParentKeeps ==
  ASSUME IInv, NEW p \in Procs, CloseParent(p)
  PROVE  IInv'
<1> DEFINE c == call[p]
           i == call[p].node
           d == [c EXCEPT !.pc = "closeNew", !.node = NoInode]
<1>1. /\ c.pc = "closeParent" /\ UNCHANGED <<names, content, iPtrArray, iNumClients>>
      /\ CloseFd(p, i)
      /\ call' = [call EXCEPT ![p].pc = "closeNew", ![p].node = NoInode]
  BY DEF CloseParent, At, fileVars, handleVars
<1>2. /\ CallShape(c) /\ FileShape(p) /\ ChainsApart(p) /\ KnownOnce(p) /\ ClientsCounted(p)
      /\ NamesKept(p) /\ Makes(p) /\ LocksHeld(p) /\ Types /\ c \in Calls
  BY DEF IInv, Local, OfNames, Types
<1>3. /\ i \in Inodes /\ i # NoInode /\ c.op = "create" /\ c.closing = <<>> /\ i # c.new.node
      /\ c.new.file \in Files
  BY <1>1, <1>2, Parts DEF CallShape, Creating, Opening, Generating, KnownOnce
<1>4. call' = [call EXCEPT ![p] = d] /\ call'[p] = d
  BY <1>1, <1>2 DEF Types
<1>5. /\ d \in Calls /\ d.pc = "closeNew" /\ d.op = c.op
      /\ d.new = c.new /\ d.node = NoInode /\ d.closing = c.closing /\ d.flags = c.flags
  <2>1. c \in Calls
    BY <1>2
  <2> HIDE DEF c
  <2>2. d \in Calls /\ d.pc = "closeNew" /\ d.op = c.op
    BY <2>1 DEF Calls, MaybeNode, Creating
  <2>3. d.new = c.new /\ d.node = NoInode
    BY <2>1 DEF Calls
  <2>4. d.closing = c.closing /\ d.flags = c.flags
    BY <2>1 DEF Calls
  <2>5. QED
    BY <2>2, <2>3, <2>4
<1> HIDE DEF d
<1>6. CallShape(call'[p])
  BY <1>1, <1>2, <1>3, <1>4, <1>5 DEF CallShape, Opening, Generating, Creating
<1>7. FileShape(p)'
  BY <1>2, <1>3, <1>4, <1>5 DEF FileShape, Opening
<1>8. ChainsApart(p)'
  BY <1>1, <1>2, <1>3, <1>4, <1>5 DEF ChainsApart
<1>9. KnownOnce(p)'
  <2>1. \A h \in Handles : \A k \in DOMAIN iPtrArray[p][h].nodes : iPtrArray[p][h].nodes[k] # NoInode
    BY VhdsOwn, SessionsAssumption
  <2>2. NodesOf(<<>>) = {}
    BY DEF NodesOf
  <2>3. /\ call'[p].closing = <<>> /\ call'[p].node = NoInode /\ call'[p].new.node = c.new.node
        /\ iPtrArray' = iPtrArray
    BY <1>1, <1>3, <1>4, <1>5
  <2>4. QED
    BY <1>2, <2>1, <2>2, <2>3 DEF KnownOnce
<1>10. /\ OpenHandles(p)' = OpenHandles(p)
       /\ \A h \in Handles : \A k \in DOMAIN iPtrArray[p][h].nodes :
            locks'[p][iPtrArray[p][h].nodes[k]] # "none"
       /\ \A h \in OpenHandles(p) : "RDWR" \in iPtrArray[p][h].flags =>
            locks'[p][iPtrArray[p][h].nodes[1]] = "W"
       /\ \A h \in Handles : i \notin NodesOf(iPtrArray[p][h].nodes)
       /\ Knows(p, i)
  BY <1>1, <1>3, VhdsStay
<1>11. /\ Counted(p)'
       /\ fds' = [fds EXCEPT ![p] = fds'[p]] /\ fds'[p] \in [Inodes -> Int]
       /\ locks' = [locks EXCEPT ![p] = locks'[p]] /\ locks'[p] \in [Inodes -> {"none", "R", "W"}]
       /\ \A j \in Inodes : locks'[p][j] = IF j = i THEN "none" ELSE locks[p][j]
  <2>1. \A j \in Inodes : Knows(p, j)' <=> Knows(p, j) /\ j # i
    BY <1>1, <1>3, <1>4, <1>5, <1>10, SessionsAssumption DEF Knows, NodesOf
  <2>2. QED
    BY <1>1, <1>3, <1>10, <2>1, Closed
<1>12. OnlyOf(p) /\ TypesOf(p)
  BY <1>1, <1>2, <1>4, <1>5, <1>11 DEF OnlyOf, TypesOf, Types
<1>13. ClientsCounted(p)'
  BY <1>1, <1>2, <1>4, <1>5, <1>10 DEF ClientsCounted, HasRoom
<1>14. LocksHeld(p)'
  <2>1. DOMAIN d.closing = {} /\ d.closing = <<>>
    BY <1>3, <1>5
  <2>2. QED
    BY <1>1, <1>3, <1>4, <1>5, <1>10, <2>1 DEF LocksHeld, Opening, Generating
<1>15. /\ NamesKept(p)' /\ Makes(p)'
       /\ HasMade(p)' => HasMade(p) /\ call'[p].new.file = call[p].new.file
  BY <1>1, <1>2, <1>4, <1>5 DEF NamesKept, Makes, HasMade
<1>16. QED
  BY <1>1, <1>4, <1>6, <1>7, <1>8, <1>9, <1>11, <1>12, <1>13, <1>14, <1>15, LocalStep DEF Local, OfNames

(* CloseNew keeps the invariant. *)
LEMMA CloseNewKeeps ==
  ASSUME IInv, NEW p \in Procs, CloseNew(p)
  PROVE  IInv'
<1> DEFINE c == call[p]
           i == call[p].new.node
           d == call'[p]
<1>1. /\ c.pc = "closeNew" /\ UNCHANGED <<names, content, iPtrArray, iNumClients>>
      /\ CloseFd(p, i)
  BY DEF CloseNew, At, fileVars, handleVars
<1>2. /\ CallShape(c) /\ FileShape(p) /\ ChainsApart(p) /\ KnownOnce(p) /\ ClientsCounted(p)
      /\ NamesKept(p) /\ Makes(p) /\ LocksHeld(p) /\ Types /\ c \in Calls /\ c.new \in News
  BY Parts DEF IInv, Local, OfNames, Types
<1>3. /\ i \in Inodes /\ i # NoInode /\ c.op = "create" /\ c.closing = <<>> /\ c.node = NoInode
      /\ c.new.file \in Files
  BY <1>1, <1>2, Parts DEF CallShape, Creating, Opening, Generating
<1> DEFINE unlink == [c EXCEPT !.pc = "unlink", !.new.node = NoInode]
<1>4. call' = [call EXCEPT ![p] = d] /\ (\/ d = unlink /\ ~c.new.made
                                         \/ d = OpenCall(c.new.file, c.new.flags) /\ CompatibleFlags(c.new.flags)
                                         \/ d = NoCall)
  <2>1. CASE ~c.new.made
    <3>1. call' = [call EXCEPT ![p].pc = "unlink", ![p].new.node = NoInode]
      BY <2>1 DEF CloseNew
    <3>2. QED
      BY <1>2, <2>1, <3>1 DEF Types
  <2>2. CASE c.new.made /\ CompatibleFlags(c.new.flags)
    BY <1>2, <2>2 DEF CloseNew, Types
  <2>3. CASE c.new.made /\ ~CompatibleFlags(c.new.flags)
    BY <1>2, <2>3 DEF CloseNew, Types, Return
  <2>4. QED
    BY <2>1, <2>2, <2>3
<1>5. /\ d \in Calls /\ CallShape(d) /\ d.new.node = NoInode /\ d.node = NoInode /\ d.closing = <<>>
      /\ d.pc \notin {"createFile", "closeFile"} \cup Creating
      /\ \/ d.op = "create" /\ d.pc = "unlink" /\ d.new.file = c.new.file /\ ~d.new.made /\ ~c.new.made
            /\ d.flags = c.flags
         \/ d.op = "open" /\ d.file = c.new.file /\ CompatibleFlags(d.flags)
         \/ d.op = "none"
  <2>1. CASE d = unlink /\ ~c.new.made
    <3>1. c \in Calls /\ c.new \in News
      BY <1>2
    <3>2. d = [c EXCEPT !.pc = "unlink", !.new.node = NoInode]
      BY <2>1
    <3> HIDE DEF c, d
    <3>3. d \in Calls /\ d.pc = "unlink" /\ d.op = c.op
      BY <3>1, <3>2 DEF Calls, News, MaybeNode
    <3>4. d.new.node = NoInode /\ d.new.file = c.new.file /\ d.new.made = c.new.made
      BY <3>1, <3>2 DEF Calls, News
    <3>5. d.node = c.node /\ d.closing = c.closing /\ d.flags = c.flags
      BY <3>1, <3>2 DEF Calls
    <3>6. CallShape(d)
      BY <1>3, <2>1, <3>3, <3>4, <3>5 DEF CallShape, Opening, Generating, Creating
    <3>7. QED
      BY <1>3, <2>1, <3>3, <3>4, <3>5, <3>6 DEF Creating, Generating
  <2>2. CASE d = OpenCall(c.new.file, c.new.flags) /\ CompatibleFlags(c.new.flags)
    <3> DEFINE f == c.new.file
               flags == c.new.flags
    <3>1. f \in Files /\ flags \in SUBSET Flags
      BY <1>2, <1>3 DEF News
    <3>2. d = [op |-> "open", pc |-> "openFile", file |-> f, flags |-> flags, node |-> NoInode,
                   handle |-> 0, new |-> NoNew, closing |-> <<>>]
      BY <2>2 DEF OpenCall, NoCall
    <3> HIDE DEF f, flags
    <3>3. d \in Calls
      BY <3>1, <3>2 DEF Calls, News, NoNew, Opening, MaybeNode, MaybeFile
    <3>4. CallShape(d)
      BY <3>1, <3>2 DEF CallShape, NoNew, Opening, Generating, Creating
    <3>5. QED
      BY <2>2, <3>2, <3>3, <3>4 DEF NoNew, Creating, Generating, f, flags
  <2>3. CASE d = NoCall
    BY <2>3, NoCallTyped DEF NoCall, NoNew, CallShape, Opening, Generating, Creating
  <2>4. QED
    BY <1>4, <2>1, <2>2, <2>3
<1> HIDE DEF d
<1>7. FileShape(p)'
  BY <1>2, <1>3, <1>5 DEF FileShape, Opening, d
<1>8. ChainsApart(p)'
  <2>1. /\ d.op = "open" => d.file = c.new.file
        /\ d.op = "create" => d.new.file = c.new.file
    BY <1>5
  <2>2. QED
    BY <1>1, <1>2, <1>3, <2>1 DEF ChainsApart, d
<1>9. KnownOnce(p)'
  <2>1. \A h \in Handles : \A k \in DOMAIN iPtrArray[p][h].nodes : iPtrArray[p][h].nodes[k] # NoInode
    BY VhdsOwn, SessionsAssumption
  <2>2. NodesOf(<<>>) = {}
    BY DEF NodesOf
  <2>3. QED
    BY <1>1, <1>2, <1>5, <2>1, <2>2 DEF KnownOnce, d
<1>10. /\ OpenHandles(p)' = OpenHandles(p)
       /\ \A h \in Handles : \A k \in DOMAIN iPtrArray[p][h].nodes :
            locks'[p][iPtrArray[p][h].nodes[k]] # "none"
       /\ \A h \in OpenHandles(p) : "RDWR" \in iPtrArray[p][h].flags =>
            locks'[p][iPtrArray[p][h].nodes[1]] = "W"
       /\ \A h \in Handles : i \notin NodesOf(iPtrArray[p][h].nodes)
       /\ Knows(p, i)
  BY <1>1, <1>3, VhdsStay
<1>11. /\ Counted(p)'
       /\ fds' = [fds EXCEPT ![p] = fds'[p]] /\ fds'[p] \in [Inodes -> Int]
       /\ locks' = [locks EXCEPT ![p] = locks'[p]] /\ locks'[p] \in [Inodes -> {"none", "R", "W"}]
       /\ \A j \in Inodes : locks'[p][j] = IF j = i THEN "none" ELSE locks[p][j]
  <2>1. \A j \in Inodes : Knows(p, j)' <=> Knows(p, j) /\ j # i
    BY <1>1, <1>3, <1>5, <1>10, SessionsAssumption DEF Knows, NodesOf, d
  <2>2. QED
    BY <1>1, <1>3, <1>10, <2>1, Closed
<1>12. OnlyOf(p) /\ TypesOf(p)
  BY <1>1, <1>2, <1>4, <1>5, <1>11 DEF OnlyOf, TypesOf, Types, d
<1>13. ClientsCounted(p)'
  BY <1>1, <1>2, <1>3, <1>10 DEF ClientsCounted, HasRoom
<1>14. LocksHeld(p)'
  <2>1. DOMAIN d.closing = {} /\ d.closing = <<>>
    BY <1>5
  <2>2. d.pc \notin Generating /\ d.pc # "recognise"
    BY <1>5 DEF Creating, CallShape
  <2>3. QED
    BY <1>1, <1>5, <1>10, <2>1, <2>2 DEF LocksHeld, Opening, Generating, d
<1>15. /\ NamesKept(p)' /\ Makes(p)'
       /\ HasMade(p)' => HasMade(p) /\ call'[p].new.file = call[p].new.file
  BY <1>1, <1>2, <1>3, <1>5 DEF NamesKept, Makes, HasMade, d
<1>16. QED
  BY <1>1, <1>5, <1>7, <1>8, <1>9, <1>11, <1>12, <1>13, <1>14, <1>15, LocalStep DEF Local, OfNames, d

(* CloseFile keeps the invariant. *)
LEMMA CloseFileKeeps ==
  ASSUME IInv, NEW p \in Procs, CloseFile(p)
  PROVE  IInv'
<1> DEFINE c == call[p]
           n == Len(call[p].closing)
           i == call[p].closing[Len(call[p].closing)]
           d == call'[p]
           shorter == SubSeq(c.closing, 1, n - 1)
<1>1. /\ c.pc = "closeFile" /\ UNCHANGED <<names, content, iPtrArray, iNumClients>>
      /\ CloseFd(p, i)
  BY DEF CloseFile, At, fileVars, handleVars
<1>2. /\ CallShape(c) /\ FileShape(p) /\ ChainsApart(p) /\ KnownOnce(p) /\ ClientsCounted(p)
      /\ NamesKept(p) /\ Makes(p) /\ LocksHeld(p) /\ Types /\ c \in Calls
  BY DEF IInv, Local, OfNames, Types
<1>3. /\ c.op = "close" /\ c.closing # <<>> /\ c.closing \in Seq(Inodes)
      /\ c.node = NoInode /\ c.new.node = NoInode
  BY <1>1, <1>2, Parts DEF CallShape, Creating, Opening, Generating
<1>4. /\ n \in Nat /\ n > 0 /\ i \in Inodes /\ n \in DOMAIN c.closing /\ DOMAIN c.closing = 1 .. n
      /\ i \in NodesOf(c.closing)
  BY <1>3 DEF NodesOf
<1>5. \A k \in 1 .. n : c.closing[k] \in Inodes /\ (c.closing[k] = i => k = n)
  BY <1>2, <1>3, <1>4 DEF KnownOnce
<1>6. /\ call' = [call EXCEPT ![p] = d]
      /\ \/ n = 1 /\ d = NoCall
         \/ n # 1 /\ d = [c EXCEPT !.closing = shorter]
  <2>1. CASE n = 1
    BY <1>2, <2>1 DEF CloseFile, Return, Types
  <2>2. CASE n # 1
    <3>1. call' = [call EXCEPT ![p].closing = SubSeq(@, 1, Len(@) - 1)]
      BY <2>2 DEF CloseFile
    <3>2. QED
      BY <1>2, <2>2, <3>1 DEF Types
  <2>3. QED
    BY <2>1, <2>2
<1>7. /\ d \in Calls /\ CallShape(d) /\ d.new.node = NoInode /\ d.node = NoInode
      /\ d.op \in {"none", "close"} /\ d.pc \in {"none", "closeFile"}
      /\ DOMAIN d.closing = 1 .. n - 1 /\ d.closing \in Seq(Inodes)
      /\ (n # 1 => d.flags = c.flags) /\ (d.closing # <<>> => n # 1)
      /\ \A k \in 1 .. n - 1 : d.closing[k] = c.closing[k]
  <2>1. CASE n = 1 /\ d = NoCall
    <3>1. CallShape(NoCall)
      BY DEF CallShape, NoCall, NoNew, Opening, Generating, Creating
    <3>2. QED
      BY <2>1, <3>1, NoCallTyped DEF NoCall, NoNew
  <2>2. CASE n # 1 /\ d = [c EXCEPT !.closing = shorter]
    <3>1. /\ shorter \in Seq(Inodes) /\ DOMAIN shorter = 1 .. n - 1
          /\ \A k \in 1 .. n - 1 : shorter[k] = c.closing[k]
      BY <1>3, <1>4
    <3>2. shorter # <<>>
      <4> HIDE DEF shorter, n
      <4>1. 1 \in 1 .. n - 1
        BY <1>4, <2>2
      <4>2. DOMAIN <<>> = {}
        OBVIOUS
      <4>3. QED
        BY <3>1, <4>1, <4>2
    <3>3. d = [c EXCEPT !.closing = shorter] /\ c \in Calls /\ c.closing # <<>>
      BY <1>2, <1>3, <2>2
    <3> HIDE DEF shorter, c, d
    <3>4. d \in Calls /\ d.closing = shorter /\ d.pc = c.pc
      BY <3>1, <3>3 DEF Calls
    <3>5. d.op = c.op /\ d.file = c.file /\ d.new = c.new
      BY <3>3 DEF Calls
    <3>6. d.node = c.node /\ d.flags = c.flags
      BY <3>3 DEF Calls
    <3>7. CallShape(d)
      BY <1>1, <1>2, <1>3, <3>2, <3>4, <3>5, <3>6 DEF CallShape, Opening, Generating, Creating
    <3>8. QED
      BY <1>1, <1>3, <2>2, <3>1, <3>4, <3>5, <3>6, <3>7
  <2>3. QED
    BY <1>6, <2>1, <2>2
<1> HIDE DEF d
<1>8. FileShape(p)' /\ ChainsApart(p)'
  BY <1>1, <1>2, <1>7 DEF FileShape, ChainsApart, d
<1>9. NodesOf(d.closing) = NodesOf(c.closing) \ {i}
  <2>1. NodesOf(d.closing) = {c.closing[k] : k \in 1 .. n - 1}
    BY <1>7 DEF NodesOf
  <2>2. NodesOf(c.closing) = {c.closing[k] : k \in 1 .. n}
    BY <1>4 DEF NodesOf
  <2>3. QED
    BY <1>4, <1>5, <2>1, <2>2
<1>10. KnownOnce(p)'
  <2>1. \A h \in Handles : \A k \in DOMAIN iPtrArray[p][h].nodes : iPtrArray[p][h].nodes[k] # NoInode
    BY VhdsOwn, SessionsAssumption
  <2>2. \A k, l \in DOMAIN d.closing : d.closing[k] = d.closing[l] => k = l
    BY <1>2, <1>4, <1>7 DEF KnownOnce
  <2>3. QED
    BY <1>1, <1>2, <1>7, <1>9, <2>1, <2>2 DEF KnownOnce, d
<1>11. /\ OpenHandles(p)' = OpenHandles(p)
       /\ \A h \in Handles : \A k \in DOMAIN iPtrArray[p][h].nodes :
            locks'[p][iPtrArray[p][h].nodes[k]] # "none"
       /\ \A h \in OpenHandles(p) : "RDWR" \in iPtrArray[p][h].flags =>
            locks'[p][iPtrArray[p][h].nodes[1]] = "W"
       /\ \A h \in Handles : i \notin NodesOf(iPtrArray[p][h].nodes)
       /\ Knows(p, i)
  BY <1>1, <1>4, VhdsStay
<1>12. /\ Counted(p)'
       /\ fds' = [fds EXCEPT ![p] = fds'[p]] /\ fds'[p] \in [Inodes -> Int]
       /\ locks' = [locks EXCEPT ![p] = locks'[p]] /\ locks'[p] \in [Inodes -> {"none", "R", "W"}]
       /\ \A j \in Inodes : locks'[p][j] = IF j = i THEN "none" ELSE locks[p][j]
  <2>1. \A j \in Inodes : Knows(p, j)' <=> Knows(p, j) /\ j # i
    BY <1>1, <1>3, <1>7, <1>9, <1>11, SessionsAssumption DEF Knows, d
  <2>2. QED
    BY <1>1, <1>4, <1>11, <2>1, Closed
<1>13. OnlyOf(p) /\ TypesOf(p)
  BY <1>1, <1>2, <1>6, <1>7, <1>12 DEF OnlyOf, TypesOf, Types, d
<1>14. ClientsCounted(p)'
  BY <1>1, <1>2, <1>7, <1>11 DEF ClientsCounted, HasRoom, d
<1>15. LocksHeld(p)'
  <2>1. \A k \in DOMAIN d.closing : locks'[p][d.closing[k]] = locks[p][c.closing[k]]
    <3> HIDE DEF i, n
    <3>1. ASSUME NEW k \in 1 .. n - 1
          PROVE  k \in 1 .. n /\ k # n /\ d.closing[k] = c.closing[k]
      BY <1>4, <1>7, <3>1
    <3>2. ASSUME NEW k \in 1 .. n - 1
          PROVE  locks'[p][c.closing[k]] = locks[p][c.closing[k]]
      BY <1>5, <1>12, <3>1
    <3>3. QED
      BY <1>7, <3>1, <3>2
  <2>2. d.closing # <<>> => 1 \in DOMAIN d.closing
    BY <1>7
  <2>3. \A k \in DOMAIN d.closing : k \in DOMAIN c.closing
    BY <1>4, <1>7
  <2>4. (\A k \in DOMAIN d.closing : locks'[p][d.closing[k]] # "none")
        /\ (d.closing # <<>> /\ "RDWR" \in d.flags => locks'[p][d.closing[1]] = "W")
    BY <1>2, <1>3, <1>7, <2>1, <2>2, <2>3 DEF LocksHeld
  <2>5. QED
    BY <1>1, <1>7, <1>11, <2>4 DEF LocksHeld, Opening, Generating, d
<1>16. /\ NamesKept(p)' /\ Makes(p)'
       /\ HasMade(p)' => HasMade(p) /\ call'[p].new.file = call[p].new.file
  BY <1>1, <1>2, <1>7 DEF NamesKept, Makes, HasMade, d
<1>17. QED
  BY <1>1, <1>7, <1>8, <1>10, <1>12, <1>13, <1>14, <1>15, <1>16, LocalStep DEF Local, OfNames, d

(* The handles can be counted. *)
LEMMA HandlesFinite ==
  ASSUME NEW p \in Procs
  PROVE  IsFiniteSet(OpenHandles(p))
<1>1. IsFiniteSet(Handles) /\ OpenHandles(p) \subseteq Handles
  BY SessionsAssumption, FS_Interval DEF Handles, OpenHandles
<1>2. QED
  BY <1>1, FS_Subset

(* VHD_Close gives the inodes of the VHD to the call that closes them. *)
LEMMA CloseKeeps ==
  ASSUME IInv, NEW p \in Procs, NEW h \in Handles, VHD_Close(p, h)
  PROVE  IInv'
<1> DEFINE c == call[p]
           vhd == iPtrArray[p][h]
           d == [NoCall EXCEPT !.op = "close", !.pc = "closeFile", !.closing = vhd.nodes,
                               !.flags = vhd.flags]
<1>1. /\ c = NoCall /\ IsOpen(vhd) /\ UNCHANGED <<names, content, fds, locks>>
      /\ UnmapHandle(p, h)
      /\ call' = [call EXCEPT ![p] = d]
  <2>1. c = NoCall
    BY DEF VHD_Close, Idle, IInv, Local, CallShape
  <2>2. QED
    BY <2>1 DEF VHD_Close, fileVars, lockVars
<1>2. /\ ChainsApart(p) /\ KnownOnce(p) /\ ClientsCounted(p) /\ Counted(p)
      /\ NamesKept(p) /\ LocksHeld(p) /\ Types
  BY DEF IInv, Local, OfNames, Types
<1>3. /\ call'[p] = d
      /\ iPtrArray' = [iPtrArray EXCEPT ![p] = iPtrArray'[p]]
      /\ iPtrArray'[p] \in [Handles -> OpenVhds \cup {NoVhd}]
      /\ \A g \in Handles : iPtrArray'[p][g] = IF g = h THEN NoVhd ELSE iPtrArray[p][g]
      /\ iNumClients' = [iNumClients EXCEPT ![p] = iNumClients'[p]]
      /\ iNumClients'[p] = iNumClients[p] - 1 /\ iNumClients'[p] \in Int
  BY <1>1, <1>2 DEF UnmapHandle, Types
<1>4. /\ vhd \in OpenVhds /\ vhd.nodes # <<>> /\ vhd.nodes \in Seq(Inodes) /\ vhd.flags \in SUBSET Flags
      /\ 1 \in DOMAIN vhd.nodes
  <2>1. vhd \in OpenVhds /\ 1 \in DOMAIN vhd.nodes
    BY <1>1, <1>2, VhdsTyped
  <2>2. QED
    BY <2>1 DEF OpenVhds
<1>5. /\ call'[p].op = "close" /\ call'[p].pc = "closeFile" /\ call'[p].flags = vhd.flags
      /\ call'[p].node = NoInode /\ call'[p].new.node = NoInode /\ call'[p].closing = vhd.nodes
      /\ ~call'[p].new.made
  <2> HIDE DEF vhd
  <2>1. d.op = "close" /\ d.pc = "closeFile" /\ d.flags = vhd.flags
    BY DEF NoCall
  <2>2. d.node = NoInode /\ d.new = NoNew /\ d.closing = vhd.nodes
    BY DEF NoCall
  <2>3. QED
    BY <1>3, <2>1, <2>2 DEF NoNew
<1>6. call'[p] \in Calls
  <2> HIDE DEF vhd
  <2>1. d \in Calls
    BY <1>4, NoCallTyped DEF Calls
  <2>2. QED
    BY <1>3, <2>1
<1>7. CallShape(call'[p])
  BY <1>4, <1>5 DEF CallShape, Opening, Generating, Creating
<1>8. FileShape(p)'
  BY <1>5 DEF FileShape
<1>9. \A g \in Handles : IsOpen(iPtrArray'[p][g]) => g # h /\ IsOpen(iPtrArray[p][g]) /\ iPtrArray'[p][g] = iPtrArray[p][g]
  BY <1>3 DEF IsOpen, NoVhd
<1>10. ChainsApart(p)'
  BY <1>2, <1>5, <1>9 DEF ChainsApart
<1>11. \A g \in Handles : \A k \in DOMAIN iPtrArray'[p][g].nodes :
          g # h /\ iPtrArray'[p][g] = iPtrArray[p][g]
  BY <1>3 DEF NoVhd
<1>12. KnownOnce(p)'
  <2>1. \A g \in Handles : \A k \in DOMAIN iPtrArray[p][g].nodes : iPtrArray[p][g].nodes[k] # NoInode
    BY VhdsOwn, SessionsAssumption
  <2>2. ASSUME NEW g \in Handles, NEW k \in DOMAIN iPtrArray'[p][g].nodes
        PROVE  iPtrArray'[p][g].nodes[k] \notin NodesOf(vhd.nodes)
    BY <1>2, <1>11 DEF KnownOnce, NodesOf
  <2>3. \A g, e \in Handles : \A k \in DOMAIN iPtrArray'[p][g].nodes, l \in DOMAIN iPtrArray'[p][e].nodes :
           iPtrArray'[p][g].nodes[k] = iPtrArray'[p][e].nodes[l] => g = e /\ k = l
    BY <1>2, <1>11 DEF KnownOnce
  <2>4. \A k, l \in DOMAIN vhd.nodes : vhd.nodes[k] = vhd.nodes[l] => k = l
    BY <1>2 DEF KnownOnce
  <2>5. QED
    BY <1>5, <1>11, <2>1, <2>2, <2>3, <2>4 DEF KnownOnce
<1>13. Counted(p)'
  <2>1. \A g \in Handles \ {h} : iPtrArray'[p][g] = iPtrArray[p][g]
    BY <1>3
  <2>2. NodesOf(iPtrArray'[p][h].nodes) = {}
    BY <1>3 DEF NodesOf, NoVhd
  <2>3. c.closing = <<>> /\ c.node = NoInode /\ c.new.node = NoInode /\ NodesOf(c.closing) = {}
    BY <1>1 DEF NoCall, NoNew, NodesOf
  <2>4. \A j \in Inodes : Knows(p, j)' <=> Knows(p, j)
    BY <1>5, <2>1, <2>2, <2>3 DEF Knows
  <2>5. QED
    BY <1>1, <1>2, <2>4 DEF Counted
<1>14. OpenHandles(p)' = OpenHandles(p) \ {h} /\ h \in OpenHandles(p)
  BY <1>1, <1>3, <1>9 DEF OpenHandles
<1>15. ClientsCounted(p)'
  BY <1>2, <1>3, <1>5, <1>14, HandlesFinite, FS_RemoveElement DEF ClientsCounted
<1>16. LocksHeld(p)'
  <2>1. \A g \in OpenHandles(p)' : g \in OpenHandles(p) /\ iPtrArray'[p][g] = iPtrArray[p][g]
    BY <1>3, <1>14 DEF OpenHandles
  <2>2. QED
    BY <1>1, <1>2, <1>5, <1>11, <1>14, <2>1 DEF LocksHeld, OpenHandles
<1>17. OnlyOf(p) /\ TypesOf(p)
  BY <1>1, <1>2, <1>3, <1>6 DEF OnlyOf, TypesOf, Types
<1>18. NamesKept(p)' /\ Makes(p)' /\ ~HasMade(p)'
  BY <1>1, <1>2, <1>5, <1>11 DEF NamesKept, Makes, HasMade
<1>19. QED
  BY <1>1, <1>7, <1>8, <1>10, <1>12, <1>13, <1>15, <1>16, <1>17, <1>18, LocalStep DEF Local, OfNames

-----------------------------------------------------------------------------
(* Recognise: the inode of the call becomes one of a VHD's. *)

(* A recognised file becomes the first inode of a new VHD, or the next one of
   a VHD that is open. *)
LEMMA HandedOver ==
  ASSUME IInv, NEW p \in Procs, NEW h \in Handles, NEW vhd \in OpenVhds,
         call[p].pc = "recognise", call[p].op \in {"open", "parent"},
         UNCHANGED <<names, content, fds, locks>>,
         Return(p),
         iPtrArray' = [iPtrArray EXCEPT ![p][h] = vhd],
         vhd.nodes = Append(iPtrArray[p][h].nodes, call[p].node),
         Chain[vhd.file][Len(vhd.nodes)] = call[p].file,
         IsOpen(iPtrArray[p][h]) => /\ vhd.file = iPtrArray[p][h].file
                                    /\ vhd.flags = iPtrArray[p][h].flags
                                    /\ iNumClients' = iNumClients,
         ~IsOpen(iPtrArray[p][h]) =>
           /\ iNumClients' = [iNumClients EXCEPT ![p] = @ + 1]
           /\ vhd.flags = call[p].flags
           /\ \A g \in Handles : IsOpen(iPtrArray[p][g]) =>
                FilesOf(Chain[iPtrArray[p][g].file]) \cap FilesOf(Chain[vhd.file]) = {}
  PROVE  IInv'
<1> DEFINE c == call[p]
           old == iPtrArray[p][h]
           i == call[p].node
           vhds == iPtrArray'[p]
<1>1. /\ CallShape(c) /\ ChainsApart(p) /\ KnownOnce(p) /\ ClientsCounted(p) /\ Counted(p)
      /\ NamesKept(p) /\ LocksHeld(p) /\ Types
  BY DEF IInv, Local, OfNames, Types
<1>2. c.closing = <<>> /\ i \in Inodes /\ i # NoInode /\ c.new.node = NoInode /\ NodesOf(c.closing) = {}
  BY <1>1, Parts DEF CallShape, Opening, Creating, NodesOf
<1>3. /\ iPtrArray' = [iPtrArray EXCEPT ![p] = vhds]
      /\ vhds \in [Handles -> OpenVhds \cup {NoVhd}]
      /\ \A g \in Handles : vhds[g] = IF g = h THEN vhd ELSE iPtrArray[p][g]
      /\ call'[p] = NoCall /\ call' = [call EXCEPT ![p] = NoCall]
  BY <1>1 DEF Types, Return
<1> HIDE DEF vhds
<1>4. /\ call'[p].op = "none" /\ call'[p].pc = "none" /\ call'[p].node = NoInode
      /\ call'[p].new.node = NoInode /\ call'[p].closing = <<>> /\ NodesOf(call'[p].closing) = {}
      /\ DOMAIN call'[p].closing = {}
  BY <1>3 DEF NoCall, NoNew, NodesOf
<1>5. call'[p] \in Calls /\ CallShape(call'[p])
  BY <1>3, NoCallTyped DEF CallShape, NoCall, NoNew, Opening, Generating, Creating
<1> DEFINE n == Len(old.nodes) + 1
<1>6. /\ old.nodes \in Seq(Inodes) /\ Len(old.nodes) \in Nat
      /\ DOMAIN old.nodes = 1 .. Len(old.nodes) /\ DOMAIN vhd.nodes = 1 .. n /\ Len(vhd.nodes) = n
      /\ vhd.nodes[n] = i /\ \A k \in DOMAIN old.nodes : vhd.nodes[k] = old.nodes[k]
  <2>1. old.nodes \in Seq(Inodes)
    BY <1>1, VhdsTyped
  <2> HIDE DEF old, i
  <2>2. vhd.nodes = Append(old.nodes, i)
    BY DEF old, i
  <2>3. QED
    BY <1>2, <2>1, <2>2
<1>7. /\ n \in Nat \ {0} /\ n \notin DOMAIN old.nodes
      /\ \A k \in DOMAIN vhd.nodes : k = n \/ k \in DOMAIN old.nodes
      /\ (~IsOpen(old) => n = 1 /\ DOMAIN old.nodes = {}) /\ (IsOpen(old) => 1 \in DOMAIN old.nodes)
  <2> DEFINE m == Len(old.nodes)
  <2>1. (~IsOpen(old) => m = 0) /\ (IsOpen(old) => m # 0) /\ m \in Nat
    BY <1>6 DEF IsOpen
  <2>2. DOMAIN old.nodes = 1 .. m /\ DOMAIN vhd.nodes = 1 .. n /\ n = m + 1
    BY <1>6
  <2> HIDE DEF m, n, old
  <2>3. /\ n \in Nat \ {0} /\ n \notin 1 .. m /\ \A k \in 1 .. n : k = n \/ k \in 1 .. m
        /\ m = 0 => n = 1 /\ 1 .. m = {}
        /\ m # 0 => 1 \in 1 .. m
    BY <2>1, <2>2
  <2>4. QED
    BY <2>1, <2>2, <2>3
<1> HIDE DEF n
<1>8. \A g \in Handles \ {h} : vhds[g] = iPtrArray[p][g]
  BY <1>3
<1>9. vhds[h] = vhd /\ IsOpen(vhd)
  BY <1>3 DEF OpenVhds, IsOpen
<1>10. vhd.file \in Files
  BY DEF OpenVhds
<1>11. FileShape(p)'
  BY <1>4 DEF FileShape
<1>12. ChainsApart(p)'
  <2>1. ASSUME NEW g \in Handles, g # h, IsOpen(vhds[g])
        PROVE  FilesOf(Chain[vhds[g].file]) \cap FilesOf(Chain[vhd.file]) = {}
    <3>1. IsOpen(iPtrArray[p][g]) /\ vhds[g] = iPtrArray[p][g]
      BY <1>8, <2>1
    <3>2. CASE IsOpen(old)
      <4>1. FilesOf(Chain[iPtrArray[p][g].file]) \cap FilesOf(Chain[old.file]) = {}
        BY <1>1, <2>1, <3>1, <3>2 DEF ChainsApart
      <4>2. QED
        BY <3>1, <3>2, <4>1
    <3>3. CASE ~IsOpen(old)
      BY <3>1, <3>3, Zenon
    <3>4. QED
      BY <3>2, <3>3
  <2>2. ASSUME NEW g \in Handles, NEW e \in Handles, g # e, IsOpen(vhds[g]), IsOpen(vhds[e])
        PROVE  FilesOf(Chain[vhds[g].file]) \cap FilesOf(Chain[vhds[e].file]) = {}
    <3>1. CASE g = h
      BY <1>9, <2>1, <2>2, <3>1
    <3>2. CASE e = h
      BY <1>9, <2>1, <2>2, <3>2
    <3>3. CASE g # h /\ e # h
      BY <1>1, <1>8, <2>2, <3>3 DEF ChainsApart
    <3>4. QED
      BY <3>1, <3>2, <3>3
  <2>3. QED
    BY <1>4, <2>2, Zenon DEF ChainsApart, vhds
(* What the new array knows is what the old one knew, and the inode. *)
<1>13. ASSUME NEW g \in Handles, NEW k \in DOMAIN vhds[g].nodes
       PROVE  \/ g = h /\ k = n /\ vhds[g].nodes[k] = i
              \/ /\ k \in DOMAIN iPtrArray[p][g].nodes
                 /\ vhds[g].nodes[k] = iPtrArray[p][g].nodes[k]
                 /\ vhds[g].nodes[k] # i /\ vhds[g].nodes[k] \in Inodes
                 /\ ~(g = h /\ k = n)
  <2>1. CASE g # h
    BY <1>8, <2>1, VhdsOwn
  <2>2. CASE g = h /\ k = n
    BY <1>6, <1>9, <2>2
  <2>3. CASE g = h /\ k # n
    BY <1>6, <1>7, <1>9, <2>3, VhdsOwn
  <2>4. QED
    BY <2>1, <2>2, <2>3
<1>14. KnownOnce(p)'
  <2>1. ASSUME NEW g \in Handles, NEW e \in Handles, NEW k \in DOMAIN vhds[g].nodes,
               NEW l \in DOMAIN vhds[e].nodes, vhds[g].nodes[k] = vhds[e].nodes[l]
        PROVE  g = e /\ k = l
    <3>1. CASE vhds[g].nodes[k] = i
      BY <1>13, <2>1, <3>1
    <3>2. CASE vhds[g].nodes[k] # i
      <4>1. /\ k \in DOMAIN iPtrArray[p][g].nodes /\ l \in DOMAIN iPtrArray[p][e].nodes
            /\ iPtrArray[p][g].nodes[k] = iPtrArray[p][e].nodes[l]
        BY <1>13, <2>1, <3>2
      <4>2. QED
        BY <1>1, <4>1 DEF KnownOnce
    <3>3. QED
      BY <3>1, <3>2
  <2>2. \A g \in Handles : \A k \in DOMAIN vhds[g].nodes : vhds[g].nodes[k] # NoInode
    BY <1>2, <1>13, SessionsAssumption
  <2>3. QED
    BY <1>4, <2>1, <2>2 DEF KnownOnce, vhds
<1>15. Counted(p)'
  <2>1. ASSUME NEW j \in Inodes PROVE Knows(p, j)' <=> Knows(p, j)
    <3>1. ASSUME Knows(p, j)' PROVE Knows(p, j)
      <4>1. PICK g \in Handles : j \in NodesOf(vhds[g].nodes)
        BY <1>4, <3>1, SessionsAssumption DEF Knows, vhds
      <4>2. PICK k \in DOMAIN vhds[g].nodes : vhds[g].nodes[k] = j
        BY <4>1 DEF NodesOf
      <4>3. QED
        BY <1>13, <4>2 DEF Knows, NodesOf
    <3>2. ASSUME Knows(p, j) PROVE Knows(p, j)'
      <4>1. CASE j = i
        <5>1. n \in DOMAIN vhds[h].nodes /\ vhds[h].nodes[n] = j
          BY <1>6, <1>7, <1>9, <4>1
        <5>2. QED
          BY <5>1 DEF Knows, NodesOf, vhds
      <4>2. CASE j # i
        <5>1. PICK g \in Handles : j \in NodesOf(iPtrArray[p][g].nodes)
          BY <1>2, <3>2, <4>2, SessionsAssumption DEF Knows
        <5>2. PICK k \in DOMAIN iPtrArray[p][g].nodes : iPtrArray[p][g].nodes[k] = j
          BY <5>1 DEF NodesOf
        <5>3. k \in DOMAIN vhds[g].nodes /\ vhds[g].nodes[k] = j
          <6>1. CASE g # h
            BY <1>8, <5>2, <6>1
          <6>2. CASE g = h
            <7>1. DOMAIN old.nodes \subseteq DOMAIN vhd.nodes
              BY <1>6 DEF n
            <7>2. QED
              BY <1>6, <1>9, <5>2, <6>2, <7>1
          <6>3. QED
            BY <6>1, <6>2
        <5>4. QED
          BY <5>3 DEF Knows, NodesOf, vhds
      <4>3. QED
        BY <4>1, <4>2
    <3>3. QED
      BY <3>1, <3>2
  <2>2. QED
    BY <1>1, <2>1 DEF Counted
<1>16. /\ ClientsCounted(p)' /\ OpenHandles(p)' = OpenHandles(p) \cup {h}
       /\ iNumClients' = [iNumClients EXCEPT ![p] = iNumClients'[p]] /\ iNumClients'[p] \in Int
  <2>1. OpenHandles(p)' = OpenHandles(p) \cup {h}
    <3>1. \A g \in Handles : IsOpen(vhds[g]) <=> g = h \/ IsOpen(iPtrArray[p][g])
      BY <1>8, <1>9
    <3>2. QED
      BY <3>1 DEF OpenHandles, vhds
  <2>2. IsFiniteSet(OpenHandles(p)) /\ iNumClients \in [Procs -> Int]
    BY <1>1, HandlesFinite DEF Types
  <2>3. h \in OpenHandles(p) <=> IsOpen(old)
    BY DEF OpenHandles
  <2>4. Cardinality(OpenHandles(p) \cup {h}) = IF IsOpen(old) THEN Cardinality(OpenHandles(p)) ELSE Cardinality(OpenHandles(p)) + 1
    BY <2>2, <2>3, FS_AddElement
  <2>5. QED
    BY <1>1, <1>4, <2>1, <2>2, <2>4 DEF ClientsCounted
<1>17. LocksHeld(p)'
  <2>1. /\ locks[p][i] # "none" /\ ("RDWR" \in c.flags => locks[p][i] = "W")
    BY <1>1, <1>2 DEF LocksHeld
  <2>2. \A g \in Handles : \A k \in DOMAIN vhds[g].nodes : locks[p][vhds[g].nodes[k]] # "none"
    BY <1>1, <1>13, <2>1 DEF LocksHeld
  <2>3. ASSUME NEW g \in OpenHandles(p)', "RDWR" \in vhds[g].flags
        PROVE  locks[p][vhds[g].nodes[1]] = "W"
    <3>1. CASE g # h
      BY <1>1, <1>8, <1>16, <2>3, <3>1 DEF LocksHeld, OpenHandles
    <3>2. CASE g = h /\ IsOpen(old)
      <4>1. h \in OpenHandles(p) /\ vhds[g].flags = old.flags /\ vhds[g].nodes[1] = old.nodes[1]
        BY <1>6, <1>7, <1>9, <3>2 DEF OpenHandles
      <4>2. QED
        BY <1>1, <2>3, <4>1 DEF LocksHeld
    <3>3. CASE g = h /\ ~IsOpen(old)
      BY <1>6, <1>7, <1>9, <2>1, <2>3, <3>3
    <3>4. QED
      BY <3>1, <3>2, <3>3
  <2>4. QED
    BY <1>4, <2>2, <2>3 DEF LocksHeld, vhds, Opening, Generating
<1>18. NamesKept(p)'
  <2>1. ASSUME NEW g \in Handles, NEW k \in DOMAIN vhds[g].nodes, NEW f \in Files,
               names[f] = vhds[g].nodes[k]
        PROVE  f = Chain[vhds[g].file][k]
    <3>1. CASE g = h /\ k = n
      <4>1. f = c.file
        BY <1>1, <1>2, <1>13, <2>1, <3>1 DEF NamesKept
      <4>2. QED
        BY <1>6, <1>9, <3>1, <4>1
    <3>2. CASE ~(g = h /\ k = n)
      <4>1. /\ k \in DOMAIN iPtrArray[p][g].nodes
            /\ vhds[g].nodes[k] = iPtrArray[p][g].nodes[k]
        BY <1>13, <3>2
      <4>2. vhds[g].file = iPtrArray[p][g].file
        <5>1. CASE g # h
          BY <1>8, <5>1
        <5>2. CASE g = h
          BY <1>7, <1>9, <4>1, <5>2
        <5>3. QED
          BY <5>1, <5>2
      <4>3. QED
        BY <1>1, <2>1, <4>1, <4>2 DEF NamesKept
    <3>3. QED
      BY <3>1, <3>2
  <2>2. QED
    BY <1>4, <2>1 DEF NamesKept, vhds
<1>19. Makes(p)' /\ ~HasMade(p)'
  BY <1>4 DEF Makes, HasMade
<1>20. OnlyOf(p) /\ TypesOf(p)
  BY <1>1, <1>3, <1>5, <1>16 DEF OnlyOf, TypesOf, Types, vhds
<1>21. QED
  BY <1>5, <1>11, <1>12, <1>14, <1>15, <1>16, <1>17, <1>18, <1>19, <1>20, LocalStep DEF Local, OfNames

(* Recognise keeps the invariant. *)
LEMMA RecogniseKeeps ==
  ASSUME IInv, NEW p \in Procs, Recognise(p)
  PROVE  IInv'
<1> DEFINE c == call[p]
           i == call[p].node
           f == call[p].file
<1>1. c.pc = "recognise" /\ names' = names /\ content' = content
  BY DEF Recognise, At, fileVars
<1>2. /\ CallShape(c) /\ FileShape(p) /\ ChainsApart(p) /\ KnownOnce(p) /\ ClientsCounted(p)
      /\ NamesKept(p) /\ Makes(p) /\ LocksHeld(p) /\ Types /\ c \in Calls
  BY DEF IInv, Local, OfNames, Types
<1>3. /\ i \in Inodes /\ i # NoInode /\ f \in Files /\ c.op \in {"open", "parent", "create"}
      /\ c.flags \in SUBSET Flags
  <2>1. c.flags \in SUBSET Flags
    BY <1>2 DEF Calls
  <2>2. QED
    BY <1>1, <1>2, <2>1, Parts DEF CallShape, Opening
<1>4. CASE CloseFd(p, i) /\ OpenFailed(p) /\ UNCHANGED handleVars
  BY <1>1, <1>3, <1>4, OpenFailedKeeps DEF Opening, handleVars
<1>5. CASE /\ c.op = "open" /\ Return(p) /\ UNCHANGED lockVars
           /\ MapHandle(p, [file |-> f, flags |-> c.flags, nodes |-> <<i>>])
  <2> DEFINE vhd == [file |-> f, flags |-> c.flags, nodes |-> <<i>>]
             h == FirstFree(p)
             old == iPtrArray[p][h]
  <2>1. h \in Handles /\ ~IsOpen(old)
    BY <1>2, <1>5, FirstFreeIs DEF ClientsCounted
  <2>2. vhd \in OpenVhds
    <3>1. Len(Chain[f]) >= 1
      BY <1>3, Chains
    <3>2. <<i>> \in Seq(Inodes) /\ Len(<<i>>) = 1 /\ <<i>> # <<>>
      BY <1>3
    <3>3. QED
      BY <1>3, <3>1, <3>2 DEF OpenVhds
  <2>3. vhd.nodes = Append(old.nodes, i) /\ Chain[vhd.file][Len(vhd.nodes)] = f
    <3>1. old.nodes = <<>>
      BY <2>1 DEF IsOpen
    <3>2. <<i>> = Append(<<>>, i) /\ Len(<<i>>) = 1
      OBVIOUS
    <3>3. Chain[f][1] = f
      BY <1>3, Chains
    <3>4. QED
      BY <3>1, <3>2, <3>3
  <2>4. \A g \in Handles : IsOpen(iPtrArray[p][g]) =>
          FilesOf(Chain[iPtrArray[p][g].file]) \cap FilesOf(Chain[vhd.file]) = {}
    <3>1. vhd.file = f /\ c.op = "open"
      BY <1>5
    <3>2. QED
      BY <1>2, <3>1, Zenon DEF ChainsApart
  <2>5. iPtrArray' = [iPtrArray EXCEPT ![p][h] = vhd] /\ iNumClients' = [iNumClients EXCEPT ![p] = @ + 1]
    BY <1>5 DEF MapHandle
  <2>6. fds' = fds /\ locks' = locks /\ Return(p) /\ vhd.flags = c.flags
    BY <1>5 DEF lockVars
  <2> HIDE DEF vhd, h
  <2>7. QED
    BY <1>1, <1>5, <2>1, <2>2, <2>3, <2>4, <2>5, <2>6, HandedOver
<1>6. CASE /\ c.op = "parent" /\ Return(p) /\ UNCHANGED lockVars /\ UNCHANGED iNumClients
           /\ iPtrArray' = [iPtrArray EXCEPT ![p][c.handle] = WithParent(@, i)]
  <2> DEFINE h == c.handle
             old == iPtrArray[p][h]
             vhd == WithParent(old, i)
  <2>1. /\ h \in Handles /\ IsOpen(old) /\ Len(old.nodes) < Len(Chain[old.file])
        /\ f = Chain[old.file][Len(old.nodes) + 1]
    BY <1>2, <1>6 DEF FileShape
  <2>2. old \in OpenVhds /\ vhd = [old EXCEPT !.nodes = Append(old.nodes, i)]
    BY <1>2, <2>1, VhdsTyped DEF WithParent
  <2>3. /\ vhd \in OpenVhds /\ vhd.nodes = Append(old.nodes, i) /\ vhd.file = old.file
        /\ vhd.flags = old.flags /\ Len(vhd.nodes) = Len(old.nodes) + 1
    <3>1. old \in [file : Files, flags : SUBSET Flags, nodes : Seq(Inodes)]
      BY <2>2 DEF OpenVhds
    <3> DEFINE longer == Append(old.nodes, i)
    <3>i. i \in Inodes /\ vhd = [old EXCEPT !.nodes = longer]
      BY <1>3, <2>2
    <3> HIDE DEF old, vhd, i
    <3>3. old.nodes \in Seq(Inodes) /\ i \in Inodes
      BY <3>1, <3>i
    <3>l. longer \in Seq(Inodes)
      BY <3>3
    <3>2. /\ vhd \in [file : Files, flags : SUBSET Flags, nodes : Seq(Inodes)]
          /\ vhd.nodes = longer /\ vhd.file = old.file /\ vhd.flags = old.flags
      <4> HIDE DEF longer
      <4>1. vhd \in [file : Files, flags : SUBSET Flags, nodes : Seq(Inodes)]
        BY <3>1, <3>i, <3>l
      <4>2. vhd.nodes = longer
        BY <3>1, <3>i
      <4>3. vhd.file = old.file
        BY <3>1, <3>i
      <4>4. vhd.flags = old.flags
        BY <3>1, <3>i
      <4>5. QED
        BY <4>1, <4>2, <4>3, <4>4
    <3>4. Len(vhd.nodes) = Len(old.nodes) + 1 /\ vhd.nodes # <<>>
      BY <3>2, <3>3
    <3>5. Len(vhd.nodes) <= Len(Chain[vhd.file])
      <4> DEFINE m == Len(old.nodes)
                 n == Len(Chain[old.file])
      <4>1. m \in Nat /\ n \in Nat /\ m < n
        BY <2>1, <3>1, <3>3, Chains DEF old
      <4> HIDE DEF m, n
      <4>2. m + 1 <= n
        BY <4>1
      <4>3. QED
        BY <3>2, <3>4, <4>2 DEF m, n
    <3>6. QED
      BY <3>2, <3>4, <3>5 DEF OpenVhds
  <2>4. iPtrArray' = [iPtrArray EXCEPT ![p][h] = vhd]
    BY <1>6
  <2>5. fds' = fds /\ locks' = locks /\ Return(p) /\ iNumClients' = iNumClients
    BY <1>6 DEF lockVars
  <2>6. Chain[vhd.file][Len(vhd.nodes)] = f
    BY <2>1, <2>3
  <2> HIDE DEF vhd, h
  <2>7. QED
    BY <1>1, <1>6, <2>1, <2>3, <2>4, <2>5, <2>6, HandedOver
<1>7. CASE c.op = "create" /\ Goto(p, "generate") /\ UNCHANGED handleVars /\ UNCHANGED lockVars
  <2>1. call' = [call EXCEPT ![p].pc = "generate"] /\ UNCHANGED <<fds, locks, iPtrArray, iNumClients>>
    BY <1>7 DEF Goto, handleVars, lockVars
  <2>2. /\ call'[p] \in Calls /\ call'[p].pc = "generate" /\ call'[p].file = c.file
        /\ call'[p].op = c.op /\ call'[p].new = c.new
        /\ call'[p].node = c.node /\ call'[p].closing = c.closing
        /\ call'[p].flags = c.flags
        /\ call' = [call EXCEPT ![p] = call'[p]]
    BY <2>1, Moved DEF Creating, Generating
  <2>3. SameParts(p) /\ OnlyCall(p)
    BY <1>1, <2>1, <2>2 DEF SameParts, OnlyCall
  <2>4. CallShape(call'[p])
    BY <1>1, <1>2, <1>3, <1>7, <2>2 DEF CallShape, Opening, Generating, Creating
  <2>5. FileShape(p)'
    BY <1>1, <1>2, <1>7, <2>1, <2>2 DEF FileShape, Opening
  <2>6. LocksHeld(p)'
    <3>1. OpenHandles(p)' = OpenHandles(p)
      BY <2>3, SamePartsKept
    <3>2. QED
      BY <1>1, <1>2, <2>1, <2>2, <3>1 DEF LocksHeld, Opening, Generating
  <2>7. Makes(p)' /\ (HasMade(p)' => HasMade(p) /\ call'[p].new.file = call[p].new.file)
    BY <1>1, <1>2, <2>2 DEF Makes, HasMade
  <2>8. HasRoom(p)
    BY <1>2, <1>7 DEF ClientsCounted
  <2>9. QED
    BY <2>2, <2>3, <2>4, <2>5, <2>6, <2>7, <2>8, SamePartsKept, CallStep
<1>8. QED
  <2>1. CASE CloseFd(p, i) /\ OpenFailed(p) /\ UNCHANGED handleVars
    BY <1>4, <2>1
  <2>2. CASE /\ UNCHANGED lockVars
             /\ CASE c.op = "open" ->
                      /\ MapHandle(p, [file |-> f, flags |-> c.flags, nodes |-> <<i>>])
                      /\ Return(p)
                 [] c.op = "parent" ->
                      /\ iPtrArray' = [iPtrArray EXCEPT ![p][c.handle] = WithParent(@, i)]
                      /\ Return(p)
                      /\ UNCHANGED iNumClients
                 [] c.op = "create" ->
                      /\ Goto(p, "generate")
                      /\ UNCHANGED handleVars
    <3>1. CASE c.op = "open"
      BY <1>5, <2>2, <3>1
    <3>2. CASE c.op = "parent"
      BY <1>6, <2>2, <3>2
    <3>3. CASE c.op = "create"
      BY <1>7, <2>2, <3>3
    <3>4. QED
      BY <1>3, <3>1, <3>2, <3>3
  <2>3. QED
    BY <2>1, <2>2 DEF Recognise

-----------------------------------------------------------------------------
(* Steps that give a file its name, or take it away *)

(* A free inode is known to no process. *)
LEMMA FreeUnknown ==
  ASSUME IInv, NEW i \in Inodes, Free(i), NEW q \in Procs
  PROVE  ~Knows(q, i)
<1>1. Counted(q) /\ fds[q][i] = 0
  BY DEF IInv, Local, Free
<1>2. QED
  BY <1>1 DEF Counted

(* A call that returns without having opened anything *)
LEMMA ReturnKeeps ==
  ASSUME IInv, NEW p \in Procs, Return(p), call[p].pc = "createFile",
         UNCHANGED <<names, content, fds, locks, iPtrArray, iNumClients>>
  PROVE  IInv'
<1>1. CallShape(call[p]) /\ ChainsApart(p) /\ LocksHeld(p) /\ Types
  BY DEF IInv, Local
<1>2. call'[p] = NoCall /\ OnlyCall(p)
  BY <1>1 DEF Return, OnlyCall, Types
<1>3. /\ call[p].closing = <<>> /\ call[p].node = NoInode /\ call[p].new.node = NoInode
  BY <1>1 DEF CallShape, Opening, Creating, Generating
<1>4. /\ call'[p].closing = <<>> /\ call'[p].node = NoInode /\ call'[p].new.node = NoInode
      /\ call'[p].op = "none" /\ call'[p].pc = "none" /\ DOMAIN call'[p].closing = {}
  BY <1>2 DEF NoCall, NoNew
<1>5. call'[p] \in Calls /\ CallShape(call'[p])
  BY <1>2, NoCallTyped DEF CallShape, NoCall, NoNew, Opening, Generating, Creating
<1>6. FileShape(p)' /\ ChainsApart(p)' /\ Makes(p)' /\ ~HasMade(p)'
  BY <1>1, <1>4 DEF FileShape, ChainsApart, Makes, HasMade
<1>7. LocksHeld(p)'
  <2>1. OpenHandles(p)' = OpenHandles(p)
    BY DEF OpenHandles
  <2>2. QED
    BY <1>1, <1>4, <2>1 DEF LocksHeld, Opening, Generating
<1>8. QED
  BY <1>2, <1>3, <1>4, <1>5, <1>6, <1>7, CallStep

(* CreateFile gives a free name to a free inode. *)
LEMMA CreateFileKeeps ==
  ASSUME IInv, NEW p \in Procs, CreateFile(p)
  PROVE  IInv'
<1> DEFINE c == call[p]
           i == NewInode
           f == call[p].new.file
           d == [c EXCEPT !.pc = "lockNew", !.new.node = i]
<1>1. c.pc = "createFile" /\ UNCHANGED <<locks, iPtrArray, iNumClients>>
  BY DEF CreateFile, At, handleVars
<1>2. CASE Return(p) /\ UNCHANGED <<names, content, fds>>
  BY <1>1, <1>2, ReturnKeeps
<1>3. CASE names[f] = NoInode /\ (\E j \in Inodes : Free(j)) /\ MakeInode(p, i)
  <2>1. i \in Inodes /\ Free(i)
    BY <1>3 DEF NewInode
  <2> HIDE DEF i
  <2>2. /\ CallShape(c) /\ FileShape(p) /\ ChainsApart(p) /\ KnownOnce(p) /\ ClientsCounted(p)
        /\ NamesKept(p) /\ LocksHeld(p) /\ Types /\ c \in Calls /\ c.new \in News
        /\ NamesApart /\ LocksCompatible
    BY Parts DEF IInv, Local, OfNames, Types
  <2>3. /\ c.op = "create" /\ f \in Files /\ c.closing = <<>> /\ c.node = NoInode
        /\ c.new.node = NoInode /\ ~c.new.made /\ i # NoInode
    BY <1>1, <2>1, <2>2, Parts, SessionsAssumption DEF CallShape, Opening, Creating, Generating
  <2>4. /\ names' = [names EXCEPT ![f] = i] /\ content' = [content EXCEPT ![i] = "empty"]
        /\ OpenFd(p, i)
        /\ call' = [call EXCEPT ![p] = d] /\ call'[p] = d
    BY <1>3, <2>2 DEF MakeInode, Types
  <2>5. /\ d \in Calls /\ d.pc = "lockNew" /\ d.op = c.op /\ d.node = c.node /\ d.closing = c.closing
        /\ d.new.file = f /\ d.new.node = i /\ d.new.made = c.new.made /\ d.flags = c.flags
    <3>1. c \in Calls /\ c.new \in News /\ i \in Inodes
      BY <2>1, <2>2
    <3> HIDE DEF c
    <3>2. d \in Calls /\ d.pc = "lockNew" /\ d.op = c.op
      BY <3>1 DEF Calls, News, MaybeNode, Creating
    <3>3. d.new.file = c.new.file /\ d.new.node = i /\ d.new.made = c.new.made
      BY <3>1 DEF Calls, News
    <3>4. d.node = c.node /\ d.closing = c.closing /\ d.flags = c.flags
      BY <3>1 DEF Calls
    <3>5. QED
      BY <3>2, <3>3, <3>4 DEF c
  <2> HIDE DEF d
  <2>6. CallShape(call'[p])
    BY <2>3, <2>4, <2>5 DEF CallShape, Opening, Generating, Creating
  <2>7. FileShape(p)'
    BY <2>2, <2>3, <2>4, <2>5 DEF FileShape, Opening
  <2>8. ChainsApart(p)'
    BY <1>1, <2>2, <2>3, <2>4, <2>5 DEF ChainsApart
  <2>9. \A q \in Procs : ~Knows(q, i)
    BY <2>1, FreeUnknown
  <2>10. \A q \in Procs : \A h \in Handles : \A k \in DOMAIN iPtrArray[q][h].nodes : iPtrArray[q][h].nodes[k] # i
    BY <2>9 DEF Knows, NodesOf
  <2>11. \A q \in Procs : call[q].node # i
    BY <2>9 DEF Knows
  <2>12. KnownOnce(p)'
    <3>1. /\ call'[p].closing = <<>> /\ call'[p].node = NoInode /\ call'[p].new.node = i
          /\ iPtrArray' = iPtrArray /\ NodesOf(<<>>) = {}
      BY <1>1, <2>3, <2>4, <2>5 DEF NodesOf
    <3>2. \A h \in Handles : \A k \in DOMAIN iPtrArray[p][h].nodes : iPtrArray[p][h].nodes[k] # NoInode
      BY VhdsOwn, SessionsAssumption
    <3>3. QED
      BY <2>2, <2>10, <3>1, <3>2 DEF KnownOnce
  <2>13. /\ Counted(p)'
         /\ fds' = [fds EXCEPT ![p] = fds'[p]] /\ fds'[p] \in [Inodes -> Int]
    <3>1. \A j \in Inodes : Knows(p, j)' <=> Knows(p, j) \/ j = i
      BY <1>1, <2>3, <2>4, <2>5, SessionsAssumption DEF Knows
    <3>2. QED
      BY <2>1, <2>4, <2>9, <3>1, Opened
  <2>14. OnlyOf(p) /\ TypesOf(p)
    BY <1>1, <2>2, <2>4, <2>5, <2>13 DEF OnlyOf, TypesOf, Types
  <2>15. OpenHandles(p)' = OpenHandles(p)
    BY <1>1 DEF OpenHandles
  <2>16. ClientsCounted(p)'
    BY <1>1, <2>2, <2>3, <2>15 DEF ClientsCounted, HasRoom
  <2>17. LocksHeld(p)'
    <3>1. /\ call'[p].closing = <<>> /\ call'[p].node = NoInode /\ call'[p].pc = "lockNew"
          /\ DOMAIN call'[p].closing = {} /\ iPtrArray' = iPtrArray /\ locks' = locks
      BY <1>1, <2>3, <2>4, <2>5
    <3>2. QED
      BY <2>2, <2>15, <3>1 DEF LocksHeld, Opening, Generating
  <2>18. /\ names' \in [Files -> MaybeNode]
         /\ content' \in [Inodes -> {"empty", "partial", "whole", "abandoned"}]
    BY <2>1, <2>2, <2>4 DEF Types, MaybeNode
  <2>19. ASSUME NEW q \in Procs PROVE NamesKept(q)'
    <3>1. NamesKept(q)
      BY DEF IInv, OfNames
    <3>2. CASE q = p
      <4>1. call'[q].node = NoInode /\ iPtrArray' = iPtrArray
        BY <1>1, <2>3, <2>4, <2>5, <3>2
      <4>2. \A g \in Files : names'[g] = IF g = f THEN i ELSE names[g]
        BY <2>2, <2>4 DEF Types
      <4>3. QED
        BY <2>10, <3>1, <4>1, <4>2 DEF NamesKept
    <3>3. CASE q # p
      <4>1. call'[q] = call[q] /\ iPtrArray' = iPtrArray
        BY <1>1, <2>2, <2>4, <3>3 DEF Types
      <4>2. \A g \in Files : names'[g] = IF g = f THEN i ELSE names[g]
        BY <2>2, <2>4 DEF Types
      <4>3. QED
        BY <2>10, <2>11, <3>1, <4>1, <4>2 DEF NamesKept
    <3>4. QED
      BY <3>2, <3>3
  <2>20. ASSUME NEW q \in Procs \ {p}, HasMade(q)
         PROVE  call[q].new.file # f /\ names[call[q].new.file] # i
    <3>1. Makes(q) /\ call[q].new.file \in Files
      BY <2>20, NewsNamed DEF IInv, OfNames
    <3>2. QED
      BY <1>3, <2>1, <2>20, <3>1 DEF Makes, Free
  <2>21. ASSUME NEW q \in Procs \ {p} PROVE Makes(q)'
    <3>1. call'[q] = call[q] /\ Makes(q)
      BY <2>2, <2>4 DEF IInv, OfNames, Types
    <3>2. CASE HasMade(q)
      <4>1. /\ names'[call[q].new.file] = names[call[q].new.file]
            /\ content'[names[call[q].new.file]] = content[names[call[q].new.file]]
        BY <2>2, <2>4, <2>20, <3>2, NewsNamed DEF Types
      <4>2. QED
        BY <3>1, <4>1 DEF Makes, HasMade
    <3>3. CASE ~HasMade(q)
      BY <3>1, <3>3 DEF Makes, HasMade
    <3>4. QED
      BY <3>2, <3>3
  <2>22. Makes(p)'
    BY <2>1, <2>2, <2>3, <2>4, <2>5 DEF Makes, Types
  <2>23. NamesApart'
    <3>1. \A g, e \in Files : names'[g] # NoInode /\ names'[g] = names'[e] => g = e
      BY <2>1, <2>2, <2>4 DEF NamesApart, Types, Free
    <3>2. ASSUME NEW q \in Procs, NEW r \in Procs, q # r, HasMade(q)', HasMade(r)'
          PROVE  call'[q].new.file # call'[r].new.file
      <4>1. \A s \in Procs \ {p} : call'[s] = call[s]
        BY <2>2, <2>4 DEF Types
      <4>2. call'[p].new.file = f
        BY <2>4, <2>5
      <4>3. \A s \in Procs \ {p} : HasMade(s)' => HasMade(s) /\ call'[s].new.file = call[s].new.file /\ call[s].new.file # f
        BY <2>20, <4>1 DEF HasMade
      <4>4. QED
        BY <2>2, <3>2, <4>2, <4>3 DEF NamesApart
    <3>3. QED
      BY <3>1, <3>2 DEF NamesApart
  <2>24. LocksCompatible' /\ Types'
    BY <1>1, <2>2, <2>14, <2>18, TypesKept DEF LocksCompatible
  <2>25. \A q \in Procs : Local(q)'
    <3>1. Local(p)'
      BY <2>6, <2>7, <2>8, <2>12, <2>13, <2>16, <2>17 DEF Local
    <3>2. QED
      BY <2>14, <3>1, OthersKept
  <2>26. QED
    BY <2>19, <2>21, <2>22, <2>23, <2>24, <2>25 DEF IInv, OfNames
<1>4. QED
  BY <1>1, <1>2, <1>3 DEF CreateFile, fileVars

(* Unlink takes away the name of a file that is not whole. *)
LEMMA UnlinkKeeps ==
  ASSUME IInv, NEW p \in Procs, Unlink(p)
  PROVE  IInv'
<1> DEFINE c == call[p]
           f == call[p].new.file
<1>1. /\ c.pc = "unlink" /\ UNCHANGED <<content, fds, locks, iPtrArray, iNumClients>>
      /\ names' = [names EXCEPT ![f] = NoInode] /\ Return(p)
  BY DEF Unlink, At, lockVars, handleVars
<1>2. /\ CallShape(c) /\ ChainsApart(p) /\ KnownOnce(p) /\ ClientsCounted(p) /\ Counted(p)
      /\ LocksHeld(p) /\ Types /\ NamesApart /\ LocksCompatible
  BY DEF IInv, Local
<1>3. /\ c.op = "create" /\ f \in Files /\ c.closing = <<>> /\ c.node = NoInode
      /\ c.new.node = NoInode /\ HasMade(p)
  BY <1>1, <1>2, Parts DEF CallShape, Opening, Creating, Generating, HasMade
<1>4. /\ call'[p].closing = <<>> /\ call'[p].node = NoInode /\ call'[p].new.node = NoInode
      /\ call'[p].op = "none" /\ call'[p].pc = "none" /\ DOMAIN call'[p].closing = {}
      /\ call'[p] \in Calls /\ CallShape(call'[p])
      /\ call' = [call EXCEPT ![p] = call'[p]]
  <2>1. call'[p] = NoCall
    BY <1>1, <1>2 DEF Return, Types
  <2>2. CallShape(NoCall)
    BY DEF CallShape, NoCall, NoNew, Opening, Generating, Creating
  <2>3. call' = [call EXCEPT ![p] = call'[p]]
    BY <1>1, <2>1 DEF Return
  <2>4. DOMAIN <<>> = {}
    OBVIOUS
  <2>5. QED
    BY <2>1, <2>2, <2>3, <2>4, NoCallTyped DEF NoCall, NoNew
<1>5. OnlyOf(p) /\ TypesOf(p)
  BY <1>1, <1>2, <1>4 DEF OnlyOf, TypesOf, Types
<1>6. names' \in [Files -> MaybeNode] /\ \A g \in Files : names'[g] = IF g = f THEN NoInode ELSE names[g]
  BY <1>1, <1>2 DEF Types, MaybeNode
<1>7. Local(p)'
  <2>1. FileShape(p)' /\ ChainsApart(p)'
    BY <1>1, <1>2, <1>4 DEF FileShape, ChainsApart
  <2>2. KnownOnce(p)'
    BY <1>1, <1>2, <1>3, <1>4 DEF KnownOnce
  <2>3. Counted(p)'
    BY <1>1, <1>2, <1>3, <1>4 DEF Counted, Knows
  <2>4. OpenHandles(p)' = OpenHandles(p)
    BY <1>1 DEF OpenHandles
  <2>5. ClientsCounted(p)'
    BY <1>1, <1>2, <1>4, <2>4 DEF ClientsCounted
  <2>6. LocksHeld(p)'
    BY <1>1, <1>2, <1>4, <2>4 DEF LocksHeld, Opening, Generating
  <2>7. QED
    BY <1>4, <2>1, <2>2, <2>3, <2>5, <2>6 DEF Local
<1>8. ASSUME NEW q \in Procs PROVE NamesKept(q)'
  <2>1. NamesKept(q) /\ iPtrArray' = iPtrArray
    BY <1>1 DEF IInv, OfNames
  <2>2. \A h \in Handles : \A k \in DOMAIN iPtrArray[q][h].nodes : iPtrArray[q][h].nodes[k] # NoInode
    BY VhdsOwn, SessionsAssumption
  <2>3. call'[q].node = NoInode \/ call'[q] = call[q]
    BY <1>2, <1>4 DEF Types
  <2>4. QED
    BY <1>6, <2>1, <2>2, <2>3 DEF NamesKept
<1>9. \A q \in Procs : HasMade(q)' => q # p /\ HasMade(q) /\ call'[q] = call[q] /\ call[q].new.file # f
  <2>1. ~HasMade(p)'
    BY <1>4 DEF HasMade
  <2>2. \A q \in Procs \ {p} : call'[q] = call[q]
    BY <1>2, <1>4 DEF Types
  <2>3. QED
    BY <1>2, <1>3, <2>1, <2>2 DEF HasMade, NamesApart
<1>10. ASSUME NEW q \in Procs PROVE Makes(q)'
  <2>1. CASE HasMade(q)'
    BY <1>1, <1>6, <1>9, <2>1, NewsNamed DEF Makes, IInv, OfNames
  <2>2. CASE ~HasMade(q)'
    BY <2>2 DEF Makes
  <2>3. QED
    BY <2>1, <2>2
<1>11. NamesApart'
  BY <1>2, <1>6, <1>9 DEF NamesApart
<1>12. LocksCompatible' /\ Types'
  <2>1. content' \in [Inodes -> {"empty", "partial", "whole", "abandoned"}]
    BY <1>1, <1>2 DEF Types
  <2>2. QED
    BY <1>1, <1>2, <1>5, <1>6, <2>1, TypesKept DEF LocksCompatible
<1>13. \A q \in Procs : Local(q)'
  BY <1>5, <1>7, OthersKept
<1>14. QED
  BY <1>8, <1>10, <1>11, <1>12, <1>13 DEF IInv, OfNames

-----------------------------------------------------------------------------
(* A process that dies has nothing left. *)

(* A process that is killed loses all its descriptors, locks and handles. *)
LEMMA ProcessDiesKeeps ==
  ASSUME IInv, NEW p \in Procs, ProcessDies(p)
  PROVE  IInv'
<1> DEFINE c == call[p]
           i == call[p].new.node
<1>1. Types /\ LocksCompatible /\ NamesApart /\ CallShape(c)
  BY DEF IInv, Local
<1>2. /\ call'[p].closing = <<>> /\ call'[p].node = NoInode /\ call'[p].new.node = NoInode
      /\ call'[p].op = "none" /\ call'[p].pc = "none" /\ DOMAIN call'[p].closing = {}
      /\ call'[p] \in Calls /\ CallShape(call'[p])
      /\ call' = [call EXCEPT ![p] = call'[p]]
  <2>1. call'[p] = NoCall
    BY <1>1 DEF ProcessDies, Return, Types
  <2>2. CallShape(NoCall)
    BY DEF CallShape, NoCall, NoNew, Opening, Generating, Creating
  <2>3. call' = [call EXCEPT ![p] = call'[p]]
    BY <2>1 DEF ProcessDies, Return
  <2>4. DOMAIN <<>> = {}
    OBVIOUS
  <2>5. QED
    BY <2>1, <2>2, <2>3, <2>4, NoCallTyped DEF NoCall, NoNew
<1>3. /\ fds'[p] = [j \in Inodes |-> 0] /\ locks'[p] = [j \in Inodes |-> "none"]
      /\ iPtrArray'[p] = [h \in Handles |-> NoVhd] /\ iNumClients'[p] = 0
      /\ names' = names
  BY <1>1 DEF ProcessDies, Types
<1>4. /\ fds' = [fds EXCEPT ![p] = fds'[p]] /\ locks' = [locks EXCEPT ![p] = locks'[p]]
      /\ iPtrArray' = [iPtrArray EXCEPT ![p] = iPtrArray'[p]]
      /\ iNumClients' = [iNumClients EXCEPT ![p] = iNumClients'[p]]
  BY <1>3 DEF ProcessDies
<1>5. OnlyOf(p) /\ TypesOf(p)
  <2>1. iPtrArray'[p] \in [Handles -> OpenVhds \cup {NoVhd}]
    BY <1>3
  <2>2. QED
    BY <1>2, <1>3, <1>4, <2>1 DEF OnlyOf, TypesOf
<1>6. \A h \in Handles : ~IsOpen(iPtrArray'[p][h]) /\ DOMAIN iPtrArray'[p][h].nodes = {}
                         /\ NodesOf(iPtrArray'[p][h].nodes) = {}
  BY <1>3 DEF IsOpen, NoVhd, NodesOf
<1>7. Local(p)'
  <2>1. FileShape(p)' /\ ChainsApart(p)'
    BY <1>2, <1>6 DEF FileShape, ChainsApart
  <2>2. KnownOnce(p)'
    BY <1>2, <1>6 DEF KnownOnce
  <2>3. Counted(p)'
    <3>1. \A j \in Inodes : ~Knows(p, j)'
      BY <1>2, <1>6, SessionsAssumption DEF Knows, NodesOf
    <3>2. QED
      BY <1>3, <3>1 DEF Counted
  <2>4. OpenHandles(p)' = {}
    BY <1>6 DEF OpenHandles
  <2>5. ClientsCounted(p)'
    BY <1>2, <1>3, <2>4, FS_EmptySet DEF ClientsCounted
  <2>6. LocksHeld(p)'
    BY <1>2, <1>6, <2>4 DEF LocksHeld, Opening, Generating
  <2>7. QED
    BY <1>2, <2>1, <2>2, <2>3, <2>5, <2>6 DEF Local
<1>8. NamesKept(p)' /\ Makes(p)' /\ ~HasMade(p)'
  BY <1>2, <1>6 DEF NamesKept, Makes, HasMade
<1>9. OnlyOwnContent(p)
  <2>1. content' = [j \in Inodes |-> IF j = i /\ content[j] = "partial" THEN "abandoned" ELSE content[j]]
    BY DEF ProcessDies
  <2>2. i # NoInode => HasMade(p)
    BY <1>1 DEF CallShape, HasMade, Opening, Creating, Generating
  <2>3. QED
    BY <1>1, <2>1, <2>2, SessionsAssumption DEF OnlyOwnContent, Types
<1>10. \A j \in Inodes : locks'[p][j] = "none"
  BY <1>3
<1>11. QED
  BY <1>3, <1>5, <1>7, <1>8, <1>9, <1>10, ContentStep DEF OfNames

-----------------------------------------------------------------------------
(* The theorems *)

(* The invariant holds at first. *)
LEMMA InitIInv == Init => IInv
<1> SUFFICES ASSUME Init PROVE IInv
  OBVIOUS
<1>1. PICK present \in SUBSET Files : names = FirstNames(present)
  BY DEF Init
<1>2. /\ names \in [Files -> MaybeNode]
      /\ \A f \in Files : names[f] # NoInode <=> f \in present
      /\ \A f, g \in present : names[f] = names[g] => f = g
  <2>1. PICK n \in [Files -> Inodes] : \A f, g \in Files : n[f] = n[g] => f = g
    BY SessionsAssumption
  <2> DEFINE m == [f \in Files |-> IF f \in present THEN n[f] ELSE NoInode]
  <2>2. /\ m \in [Files -> Inodes \cup {NoInode}]
        /\ \A f \in Files : m[f] # NoInode <=> f \in present
        /\ \A f, g \in present : m[f] = m[g] => f = g
    BY <2>1, SessionsAssumption
  <2> HIDE DEF m
  <2>3. \E x \in [Files -> Inodes \cup {NoInode}] :
          /\ \A f \in Files : x[f] # NoInode <=> f \in present
          /\ \A f, g \in present : x[f] = x[g] => f = g
    BY <2>2
  <2>4. QED
    BY <1>1, <2>3 DEF FirstNames, MaybeNode
<1>3. /\ content \in [Inodes -> {"empty", "partial", "whole", "abandoned"}]
      /\ fds = [p \in Procs |-> [i \in Inodes |-> 0]]
      /\ locks = [p \in Procs |-> [i \in Inodes |-> "none"]]
      /\ iPtrArray = [p \in Procs |-> [h \in Handles |-> NoVhd]]
      /\ iNumClients = [p \in Procs |-> 0]
      /\ call = [p \in Procs |-> NoCall]
  BY DEF Init
<1>4. Types
  BY <1>2, <1>3, NoCallTyped DEF Types
<1>5. ASSUME NEW p \in Procs
      PROVE  Local(p) /\ OfNames(p) /\ ~HasMade(p)
  <2>1. /\ call[p].closing = <<>> /\ call[p].node = NoInode /\ call[p].new.node = NoInode
        /\ call[p].op = "none" /\ call[p].pc = "none" /\ DOMAIN call[p].closing = {}
        /\ call[p] = NoCall
    BY <1>3 DEF NoCall, NoNew
  <2>2. CallShape(call[p])
    BY <2>1 DEF CallShape, NoCall, NoNew, Opening, Generating, Creating
  <2>3. \A h \in Handles : ~IsOpen(iPtrArray[p][h]) /\ DOMAIN iPtrArray[p][h].nodes = {}
                           /\ NodesOf(iPtrArray[p][h].nodes) = {}
    BY <1>3 DEF IsOpen, NoVhd, NodesOf
  <2>4. FileShape(p) /\ ChainsApart(p)
    BY <2>1, <2>3 DEF FileShape, ChainsApart
  <2>5. KnownOnce(p)
    BY <2>1, <2>3 DEF KnownOnce
  <2>6. Counted(p)
    <3>1. \A j \in Inodes : ~Knows(p, j)
      BY <2>1, <2>3, SessionsAssumption DEF Knows, NodesOf
    <3>2. QED
      BY <1>3, <3>1 DEF Counted
  <2>7. OpenHandles(p) = {}
    BY <2>3 DEF OpenHandles
  <2>8. ClientsCounted(p)
    BY <1>3, <2>1, <2>7, FS_EmptySet DEF ClientsCounted
  <2>9. LocksHeld(p)
    BY <2>1, <2>3, <2>7 DEF LocksHeld, Opening, Generating
  <2>10. OfNames(p) /\ ~HasMade(p)
    BY <2>1, <2>3 DEF OfNames, NamesKept, Makes, HasMade
  <2>11. QED
    BY <2>2, <2>4, <2>5, <2>6, <2>8, <2>9, <2>10 DEF Local
<1>6. NamesApart
  BY <1>2, <1>5 DEF NamesApart
<1>7. LocksCompatible
  BY <1>3 DEF LocksCompatible
<1>8. QED
  BY <1>4, <1>5, <1>6, <1>7 DEF IInv

(* A step that changes nothing keeps the invariant. *)
LEMMA StutterKeeps == IInv /\ UNCHANGED vars => IInv'
<1> SUFFICES ASSUME IInv, UNCHANGED vars PROVE IInv'
  OBVIOUS
<1>1. UNCHANGED <<names, content, fds, locks, iPtrArray, iNumClients, call>>
  BY DEF vars, fileVars, lockVars, handleVars
<1>2. Types' /\ NamesApart' /\ LocksCompatible'
  BY <1>1 DEF IInv, Types, NamesApart, HasMade, LocksCompatible
<1>3. ASSUME NEW p \in Procs PROVE Local(p)' /\ OfNames(p)'
  <2>1. Same(p)
    BY <1>1 DEF Same
  <2>2. QED
    BY <1>1, <2>1, LocalKept, OfNamesKept DEF IInv
<1>4. QED
  BY <1>2, <1>3 DEF IInv

(* Every step keeps the invariant. *)
LEMMA NextKeeps == IInv /\ [Next]_vars => IInv'
<1> SUFFICES ASSUME IInv, [Next]_vars PROVE IInv'
  OBVIOUS
<1>1. CASE UNCHANGED vars
  BY <1>1, StutterKeeps
<1>2. ASSUME NEW p \in Procs, Step(p) PROVE IInv'
  BY <1>2, OpenFileKeeps, LockFileKeeps, RecogniseKeeps, CreateFileKeeps, LockNewKeeps, GenerateKeeps,
     FinishKeeps, CloseParentKeeps, CloseNewKeeps, UnlinkKeeps, CloseFileKeeps DEF Step
<1>3. ASSUME NEW p \in Procs, Client(p) PROVE IInv'
  BY <1>3, OpenKeeps, CreateKeeps, OpenParentKeeps, CloseKeeps DEF Client
<1>4. ASSUME NEW p \in Procs, ProcessDies(p) PROVE IInv'
  BY <1>4, ProcessDiesKeeps
<1>5. QED
  BY <1>1, <1>2, <1>3, <1>4 DEF Next

(* The invariant of the processes that share the files of the chains: what
   each process knows of its VHDs, its call, its descriptors and its locks. *)
THEOREM Invariant == Spec => []IInv
BY InitIInv, NextKeeps, PTL DEF Spec

(* A process has a write lock on all it may write ... *)
LEMMA WritesLocked ==
  ASSUME IInv, NEW p \in Procs, NEW x \in Writes(p)
  PROVE  x \in Inodes /\ locks[p][x] = "W"
<1> DEFINE c == call[p]
<1>1. LocksHeld(p) /\ CallShape(c) /\ Types
  BY DEF IInv, Local
<1>2. CASE x \in {vhd.nodes[1] : vhd \in {v \in VhdsOf(p) : "RDWR" \in v.flags}}
  <2>1. PICK vhd \in VhdsOf(p) : "RDWR" \in vhd.flags /\ x = vhd.nodes[1]
    BY <1>2
  <2>2. PICK h \in OpenHandles(p) : vhd = iPtrArray[p][h]
    BY DEF VhdsOf, OpenHandles
  <2>3. 1 \in DOMAIN iPtrArray[p][h].nodes /\ h \in Handles
    BY FirstNode DEF OpenHandles
  <2>4. QED
    BY <1>1, <2>1, <2>2, <2>3, VhdsOwn DEF LocksHeld
<1>3. CASE x \in {c.closing[k] : k \in {1} \cap {n \in DOMAIN c.closing : "RDWR" \in c.flags}}
  <2>1. 1 \in DOMAIN c.closing /\ "RDWR" \in c.flags /\ x = c.closing[1]
    BY <1>3
  <2>2. c.closing \in Seq(Inodes)
    BY Parts
  <2>3. c.closing # <<>> /\ c.closing[1] \in Inodes
    BY <2>1, <2>2
  <2>4. QED
    BY <1>1, <2>1, <2>3 DEF LocksHeld
<1>4. CASE x \in {i \in {c.new.node} \ {NoInode} : c.pc \in {"generate", "finish"}}
  BY <1>1, <1>4, Parts DEF LocksHeld, Generating
<1>5. QED
  BY <1>2, <1>3, <1>4 DEF Writes

(* ... and a lock on all it uses. *)
LEMMA UsesLocked ==
  ASSUME IInv, NEW p \in Procs, NEW x \in Uses(p)
  PROVE  x \in Inodes /\ locks[p][x] # "none"
<1> DEFINE c == call[p]
           ofVhds == UNION {NodesOf(vhd.nodes) : vhd \in VhdsOf(p)}
           ofOpen == {i \in {c.node} \ {NoInode} : ~At(p, "lockFile")}
<1>1. LocksHeld(p) /\ CallShape(c) /\ Types
  BY DEF IInv, Local
<1>2. CASE x \in ofVhds
  <2>1. PICK vhd \in VhdsOf(p) : x \in NodesOf(vhd.nodes)
    BY <1>2
  <2>2. PICK h \in Handles : vhd = iPtrArray[p][h]
    BY DEF VhdsOf
  <2>3. PICK k \in DOMAIN iPtrArray[p][h].nodes : x = iPtrArray[p][h].nodes[k]
    BY <2>1, <2>2 DEF NodesOf
  <2>4. QED
    BY <1>1, <2>3, VhdsOwn DEF LocksHeld
<1>3. CASE x \in NodesOf(c.closing)
  <2>1. PICK k \in DOMAIN c.closing : x = c.closing[k]
    BY <1>3 DEF NodesOf
  <2>2. c.closing \in Seq(Inodes)
    BY Parts
  <2>3. QED
    BY <1>1, <2>1, <2>2 DEF LocksHeld
<1>4. CASE x \in ofOpen
  <2>1. x = c.node /\ c.node # NoInode /\ c.pc # "lockFile"
    BY <1>4 DEF At
  <2>2. c.node \in Inodes
    BY <1>1, <2>1 DEF Types, Calls, MaybeNode
  <2>3. QED
    BY <1>1, <2>1, <2>2 DEF LocksHeld
<1>5. CASE x \in Writes(p)
  BY <1>5, WritesLocked
<1>6. Uses(p) = ofVhds \cup NodesOf(c.closing) \cup ofOpen \cup Writes(p)
  BY DEF Uses
<1> HIDE DEF ofVhds, ofOpen
<1>7. QED
  BY <1>2, <1>3, <1>4, <1>5, <1>6

(* Locks that exclude each other keep the writers alone. *)
LEMMA WritersAreAlone == IInv => WritersAlone
<1> SUFFICES ASSUME IInv, NEW p \in Procs, NEW q \in Procs, p # q,
                    NEW x \in Writes(p), x \in Uses(q)
             PROVE  FALSE
  BY DEF WritersAlone
<1>1. x \in Inodes /\ locks[p][x] = "W" /\ locks[q][x] # "none"
  BY WritesLocked, UsesLocked
<1>2. QED
  BY <1>1 DEF IInv, LocksCompatible

(* The descriptors a process knows of, counted: at most one for each inode. *)
LEMMA KnownIsCounted ==
  ASSUME IInv, NEW p \in Procs, NEW i \in Inodes
  PROVE  Known(p, i) = IF Knows(p, i) THEN 1 ELSE 0
<1> DEFINE c == call[p]
           Places(h) == {k \in DOMAIN iPtrArray[p][h].nodes : iPtrArray[p][h].nodes[k] = i}
           ofVhds == UNION {{h} \X Places(h) : h \in Handles}
           ofClose == {k \in DOMAIN c.closing : c.closing[k] = i}
           ofOpen == {x \in {"node", "new"} : i = IF x = "new" THEN c.new.node ELSE c.node}
<1>1. KnownOnce(p) /\ CallShape(c) /\ NoInode \notin Inodes
  BY SessionsAssumption DEF IInv, Local
<1>2. Known(p, i) = Cardinality(ofVhds) + Cardinality(ofClose) + Cardinality(ofOpen)
  BY DEF Known
<1>3. \A x : Cardinality({x}) = 1 /\ Cardinality({}) = 0
  BY FS_Singleton, FS_EmptySet
<1>4. CASE \E h \in Handles : i \in NodesOf(iPtrArray[p][h].nodes)
  <2>1. PICK h \in Handles : \E k \in DOMAIN iPtrArray[p][h].nodes : iPtrArray[p][h].nodes[k] = i
    BY <1>4 DEF NodesOf
  <2>2. PICK k \in DOMAIN iPtrArray[p][h].nodes : iPtrArray[p][h].nodes[k] = i
    BY <2>1
  <2>3. ASSUME NEW g \in Handles, NEW l \in Places(g) PROVE g = h /\ l = k
    BY <1>1, <2>2 DEF KnownOnce
  <2>4. k \in Places(h)
    BY <2>2
  <2>5. Places(h) = {k} /\ \A g \in Handles \ {h} : Places(g) = {}
    BY <2>3, <2>4
  <2> HIDE DEF Places
  <2>6. ofVhds = {<<h, k>>}
    BY <2>5
  <2>7. i \notin NodesOf(c.closing) \cup {c.node, c.new.node}
    BY <1>1, <2>2 DEF KnownOnce
  <2>8. ofClose = {} /\ ofOpen = {}
    BY <2>7 DEF NodesOf
  <2>9. Knows(p, i)
    BY <1>4 DEF Knows
  <2>10. Cardinality(ofVhds) = 1 /\ Cardinality(ofClose) = 0 /\ Cardinality(ofOpen) = 0
    BY <1>3, <2>6, <2>8, Zenon
  <2>11. QED
    BY <1>2, <2>9, <2>10
<1>5. CASE ~\E h \in Handles : i \in NodesOf(iPtrArray[p][h].nodes)
  <2>1. \A h \in Handles : Places(h) = {}
    BY <1>5 DEF NodesOf
  <2> HIDE DEF Places
  <2>2. ofVhds = {}
    BY <2>1
  <2> HIDE DEF ofVhds
  <2>3. CASE i \in NodesOf(c.closing)
    <3>1. PICK k \in DOMAIN c.closing : c.closing[k] = i
      BY <2>3 DEF NodesOf
    <3>2. ofClose = {k}
      BY <1>1, <3>1 DEF KnownOnce
    <3>3. c.node = NoInode /\ c.new.node = NoInode
      <4>1. c.closing # <<>>
        BY <3>1
      <4>2. QED
        BY <1>1, <4>1 DEF CallShape, Opening, Creating, Generating
    <3>4. ofOpen = {}
      BY <1>1, <3>3
    <3>5. Knows(p, i)
      BY <2>3 DEF Knows
    <3>6. Cardinality(ofVhds) = 0 /\ Cardinality(ofClose) = 1 /\ Cardinality(ofOpen) = 0
      BY <1>3, <2>2, <3>2, <3>4, Zenon
    <3>7. QED
      BY <1>2, <3>5, <3>6
  <2>4. CASE i \notin NodesOf(c.closing)
    <3>1. ofClose = {}
      BY <2>4 DEF NodesOf
    <3> HIDE DEF ofClose
    <3>2. CASE i = c.node
      <4>1. c.new.node # i
        BY <1>1, <3>2 DEF KnownOnce
      <4>2. ofOpen = {"node"}
        BY <3>2, <4>1
      <4>3. Knows(p, i)
        BY <3>2 DEF Knows
      <4>4. Cardinality(ofVhds) = 0 /\ Cardinality(ofClose) = 0 /\ Cardinality(ofOpen) = 1
        BY <1>3, <2>2, <3>1, <4>2, Zenon
      <4>5. QED
        BY <1>2, <4>3, <4>4
    <3>3. CASE i # c.node /\ i = c.new.node
      <4>1. ofOpen = {"new"}
        BY <3>3
      <4>2. Knows(p, i)
        BY <3>3 DEF Knows
      <4>3. Cardinality(ofVhds) = 0 /\ Cardinality(ofClose) = 0 /\ Cardinality(ofOpen) = 1
        BY <1>3, <2>2, <3>1, <4>1, Zenon
      <4>4. QED
        BY <1>2, <4>2, <4>3
    <3>4. CASE i # c.node /\ i # c.new.node
      <4>1. ofOpen = {}
        BY <3>4
      <4>2. ~Knows(p, i)
        BY <1>5, <2>4, <3>4 DEF Knows
      <4>3. Cardinality(ofVhds) = 0 /\ Cardinality(ofClose) = 0 /\ Cardinality(ofOpen) = 0
        BY <1>3, <2>2, <3>1, <4>1, Zenon
      <4>4. QED
        BY <1>2, <4>2, <4>3
    <3>5. QED
      BY <3>2, <3>3, <3>4
  <2>5. QED
    BY <2>3, <2>4
<1>6. QED
  BY <1>4, <1>5

(* No descriptor and no handle is unaccounted for. *)
LEMMA NothingIsLeaked == IInv => NothingLeaks
<1> SUFFICES ASSUME IInv PROVE NothingLeaks
  OBVIOUS
<1>1. Types /\ \A p \in Procs : Counted(p) /\ ClientsCounted(p)
  BY DEF IInv, Local
<1>2. \A p \in Procs : \A i \in Inodes : fds[p][i] = Known(p, i)
  BY <1>1, KnownIsCounted DEF Counted
<1>3. QED
  BY <1>1, <1>2 DEF NothingLeaks, ClientsCounted, OpenHandles, Types, MaybeNode

WholeKept ==
  \A f \in Files :
    names[f] # NoInode /\ content[names[f]] = "whole"
      => names'[f] = names[f] /\ content'[names[f]] = "whole"

(* No step takes away the name or the content of a whole file. *)
LEMMA NextWhole ==
  ASSUME IInv, NEW p \in Procs, Step(p) \/ Client(p) \/ ProcessDies(p)
  PROVE  WholeKept
<1> DEFINE c == call[p]
           i == c.new.node
<1>1. Types /\ CallShape(c) /\ Makes(p) /\ NamesApart
  BY DEF IInv, Local, OfNames
<1>2. CASE UNCHANGED fileVars
  BY <1>2 DEF fileVars, WholeKept
<1>3. CASE CreateFile(p) /\ ~UNCHANGED fileVars
  <2>1. /\ names[c.new.file] = NoInode /\ (\E j \in Inodes : Free(j)) /\ MakeInode(p, NewInode)
    BY <1>3 DEF CreateFile, fileVars
  <2>2. NewInode \in Inodes /\ Free(NewInode)
    BY <2>1 DEF NewInode
  <2> HIDE DEF NewInode
  <2>3. QED
    BY <1>1, <2>1, <2>2 DEF MakeInode, Types, Free, MaybeNode, WholeKept
<1>4. CASE Generate(p) \/ Finish(p)
  <2>1. PICK x : content' = [content EXCEPT ![i] = x] /\ names' = names
    BY <1>4 DEF Generate, Finish
  <2>2. c.pc \in {"generate", "finish"}
    BY <1>4 DEF Generate, Finish, At
  <2>3. i # NoInode /\ HasMade(p) /\ ~c.new.made
    BY <1>1, <2>2 DEF CallShape, HasMade, Creating, Generating, Opening
  <2>4. content[i] # "whole"
    BY <1>1, <2>3 DEF Makes
  <2>5. QED
    BY <1>1, <2>1, <2>4 DEF Types, MaybeNode, WholeKept
<1>5. CASE Unlink(p)
  <2>1. c.pc = "unlink" /\ names' = [names EXCEPT ![c.new.file] = NoInode] /\ content' = content
    BY <1>5 DEF Unlink, At
  <2>2. HasMade(p) /\ ~c.new.made
    BY <1>1, <2>1 DEF CallShape, HasMade, Creating, Generating, Opening
  <2>3. content[names[c.new.file]] # "whole"
    BY <1>1, <2>2 DEF Makes
  <2>4. QED
    BY <1>1, <2>1, <2>3 DEF Types, WholeKept
<1>6. CASE ProcessDies(p)
  BY <1>1, <1>6 DEF ProcessDies, Types, MaybeNode, WholeKept
<1>7. CASE Client(p)
  BY <1>2, <1>7 DEF Client, VHD_Open, VHD_Create, OpenParentVHD, VHD_Close
<1>8. CASE OpenFile(p) \/ LockFile(p) \/ Recognise(p) \/ LockNew(p) \/ CloseParent(p) \/ CloseNew(p) \/ CloseFile(p)
  BY <1>2, <1>8 DEF OpenFile, LockFile, Recognise, LockNew, CloseParent, CloseNew, CloseFile
<1>9. QED
  BY <1>2, <1>3, <1>4, <1>5, <1>6, <1>7, <1>8 DEF Step

(* Every descriptor belongs to a VHD or to the running call, and the handles
   in use are as many as iNumClients says (DoOpenFile, CHandleMapper), for any
   processes, files, chains and number of clients. *)
THEOREM NothingEverLeaks == Spec => []NothingLeaks
BY Invariant, NothingIsLeaked, PTL

(* While a process may write a file of a chain, also while it generates it or
   flushes it for the last time, no other process uses the file (DoOpenFile,
   GenerateFile). *)
THEOREM WritersAreAlwaysAlone == Spec => []WritersAlone
BY Invariant, WritersAreAlone, PTL

(* No call that creates, fails, cleans up or dies takes away the name or the
   content of a file that is whole (GenerateFile, CreateNewVhdFile). *)
THEOREM WholeFilesAlwaysStay == Spec => WholeFilesStay
<1>1. IInv /\ [Next]_vars => [WholeKept]_vars
  BY NextWhole DEF Next
<1>2. QED
  BY <1>1, Invariant, PTL DEF Spec, WholeFilesStay, WholeKept
=============================================================================
