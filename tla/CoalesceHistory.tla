-------------------------- MODULE CoalesceHistory --------------------------
(***************************************************************************)
(* Coalesce with history variables for the content of the disk, which no   *)
(* coalescing may change.                                                  *)
(***************************************************************************)
EXTENDS Coalesce

VARIABLES
    content,    \* what the client is to read
    recent,     \* recent[s]: what s may hold when the process dies
    risked,     \* a call has begun to change the parent of the tail
    misread     \* a call has copied an extent that a file held a part of

historyVars == <<vars, content, recent, risked, misread>>

Only(values) == [s \in Sectors |-> {values[s]}]

HistoryInit ==
    /\ Init
    /\ content = OnDisk
    /\ recent = Only(OnDisk)
    /\ risked = FALSE
    /\ misread = FALSE

\* The client finds what survived.
HistoryOpen ==
    /\ \E flags \in Modes : Open(flags)
    /\ IF handle' THEN content' = OnDisk /\ recent' = Only(OnDisk)
                  ELSE UNCHANGED <<content, recent>>

HistoryWrite ==
    \E s \in Writable :
      /\ WriteSectors(s)
      /\ content' = [content EXCEPT ![s] = New]
      /\ recent' = [recent EXCEPT ![s] = @ \cup {New}]

\* What was flushed, alone or in closing, is there to stay.
HistoryFlush ==
    /\ Flush \/ Close
    /\ recent' = IF reply' = "ok" THEN Only(content) ELSE recent
    /\ UNCHANGED content

\* Nothing else changes the content.
HistoryStep ==
    /\ Step \/ ProcessDies \/ \E args \in Args : CoalesceChain(args)
    /\ UNCHANGED <<content, recent>>

\* The extent to be copied meets a mixed bitmap: see Places and ErrorsMissed.
Misreads ==
    /\ call.pc = "copy"
    /\ MeetsMixed(ParentsOf(View(call.to)), FirstExtent(call.todo), Pure(call.to))

HistoryNext ==
    /\ HistoryOpen \/ HistoryWrite \/ HistoryFlush \/ HistoryStep
    /\ risked' = (risked \/ (call.to = TailVhd /\ call.pc = "locators"))
    /\ misread' = (misread \/ Misreads)

HistorySpec == HistoryInit /\ [][HistoryNext]_historyVars

-----------------------------------------------------------------------------

\* Coalescing into the tail, "not fault-tolerant", puts the chain at risk only when it
\* writes the locators and the header, never while it copies data.
OnlyChangingParentBreaks == risked \/ ChainIntact

\* Whenever the process dies, the chain holds the content of the disk, as far as it was
\* flushed: no coalescing, failed half-way or not, changes it, until it copies an extent
\* that a file holds a part of.
DiskKeepsContent == misread \/ (ChainIntact => \A s \in Sectors : OnDisk[s] \in recent[s])

\* So does the client read it, sector by sector, also after a call that failed half-way, as
\* long as its chain can be opened.
ClientSeesContent ==
    misread \/ (handle /\ vhd[TailVhd].open /\ Complete(ParentsOf(View(TailVhd))) => Seen = content)

=============================================================================
