------------------------- MODULE DynDiffVhdHistory -------------------------
(***************************************************************************)
(* DynDiffVhd with a history variable, the recent contents of every        *)
(* sector: with it the VHD is shown to implement VirtualDisk.              *)
(***************************************************************************)
EXTENDS DynDiffVhd

VARIABLE recent   \* recent[s]: the contents of s since all was last durable

historyVars == <<vars, recent>>

\* The call as a client sees it.
ClientCall ==
    [op |-> call.op,
     range |-> IF call.op \in {"write", "discard"} THEN call.first .. call.last ELSE {},
     val |-> IF call.op = "write" THEN call.val ELSE "none"]

ClientCalls ==
    LET ranges == {r[1] .. r[2] : r \in Ranges}
    IN  [op : {"write"}, range : ranges, val : Written]
          \cup [op : {"discard"}, range : ranges, val : {"none"}]
          \cup [op : {"open", "flush", "close"}, range : {{}}, val : {"none"}]

\* All is durable when a flush, on its own or at the end of a call, succeeds,
\* and when the file is closed or its process gone.
AllDurable ==
    \/ ~session'.open
    \/ call.pc = "fsync" /\ reply'.kind = "ok"

HistoryInit == Init /\ recent = [s \in Sectors |-> {Content[s]}]

HistoryNext ==
    /\ Next
    /\ recent' = [s \in Sectors |->
         IF AllDurable THEN {Content'[s]}
         ELSE recent[s] \cup {Content'[s]}
                \cup IF call'.op = "write" /\ s \in call'.first .. call'.last
                     THEN {call'.val} ELSE {}]

HistorySpec == HistoryInit /\ [][HistoryNext]_historyVars

-----------------------------------------------------------------------------

\* A VHD is a disk: a read returns what was written last, or the background,
\* though several sectors of a block of a differencing VHD must be read one by one
\* (see ReadValue and ErrorsMissed); a call changes the sectors of its range only,
\* whatever fails and wherever the process dies; a flush that succeeds makes
\* everything durable, and so does a write that appended a block.  A new block of a
\* differencing VHD in pure mode has all bits set before its data is written: a
\* write that fails may leave zeros there.
Disk == INSTANCE VirtualDisk WITH
    Hole <- IF Dynamic THEN {} ELSE {Zero},
    Mixes <- ~Dynamic,
    Calls <- ClientCalls,
    content <- Content,
    call <- ClientCall

ImplementsVirtualDisk == Disk!Spec

=============================================================================
