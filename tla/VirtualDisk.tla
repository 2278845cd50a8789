---------------------------- MODULE VirtualDisk ----------------------------
(***************************************************************************)
(* What a dynamic or differencing VHD promises to the clients of libvhd2.  *)
(* A disk has a content.  Calls are not atomic: any of them can fail in    *)
(* the middle, and the process can die in the middle.  Each sector then    *)
(* has, when the file is opened again, one of its recent contents: those   *)
(* it had, or was being given, since the last call that made everything    *)
(* durable.                                                                *)
(***************************************************************************)
EXTENDS Naturals

CONSTANTS
    VhdSizeInSectors,
    SectorsPerBlock,
    Background,     \* Background[s]: the content of sector s before it is written
    Hole,           \* what a failed write may leave besides old and new content
    Mixes,          \* TRUE if sectors of a block that are read together may be wrong
    Calls           \* the calls: records of an op, a range and a value

VARIABLES
    content,   \* content[s]: what a read of sector s returns
    recent,    \* recent[s]: what it may return after the process died
    call,      \* the call being executed
    reply      \* what the last call returned

vars == <<content, recent, call, reply>>

Sectors == 0 .. VhdSizeInSectors - 1

NoCall == [op |-> "none", range |-> {}, val |-> "none"]

Reply(kind, vals) == [kind |-> kind, vals |-> vals]

\* Everything is durable.
Settled == recent' = [s \in Sectors |-> {content'[s]}]

\* What the disk holds and what the call writes become possible.
Remember ==
    recent' = [s \in Sectors |->
                 recent[s] \cup {content'[s]}
                   \cup IF call'.op = "write" /\ s \in call'.range THEN {call'.val} ELSE {}]

Init ==
    /\ content = Background
    /\ recent = [s \in Sectors |-> {content[s]}]
    /\ call = NoCall
    /\ reply = Reply("lost", <<>>)

SameBlock(s, t) == s \div SectorsPerBlock = t \div SectorsPerBlock

\* Is s the only sector of R in its block?
Alone(R, s) == \A t \in R : SameBlock(s, t) => t = s

Read(R) ==
    /\ call = NoCall
    /\ reply' = Reply("ok", reply'.vals)
    /\ DOMAIN reply'.vals = R
    /\ \A s \in R : (Mixes => Alone(R, s)) => reply'.vals[s] = content[s]
    /\ UNCHANGED <<content, recent, call>>

\* A read fails, or a call is refused.
Refuse ==
    /\ call = NoCall
    /\ reply' = Reply("error", <<>>)
    /\ UNCHANGED <<content, recent, call>>

\* Dropping caches.
Drop ==
    /\ call = NoCall
    /\ reply' = Reply("ok", <<>>)
    /\ UNCHANGED <<content, recent, call>>

Begin ==
    /\ call = NoCall
    /\ call' \in Calls
    /\ reply' = Reply("none", <<>>)
    /\ UNCHANGED content
    /\ Remember

Continue == UNCHANGED <<call, reply>>

Return(kind) == call' = NoCall /\ reply' = Reply(kind, <<>>)

\* A write changes the sectors of its range only, and these to its value only.
\* It does not promise to make anything durable, and may make everything so.
Write ==
    LET R == call.range
        v == call.val
    IN  /\ call.op = "write"
        /\ \A s \in Sectors :
             content'[s] \in IF s \in R THEN {content[s], v} \cup Hole ELSE {content[s]}
        /\ \/ Continue /\ Remember
           \/ Return("error") /\ Remember
           \/ Return("ok") /\ (\A s \in R : content'[s] = v) /\ (Remember \/ Settled)

\* A discard may bring back the background of any sector of a block it touches
\* (see ResetBits of AllocBitmaps).  When it succeeds it has done so in its
\* range, but for a sector that is the only one of its block there.
Discard ==
    LET R == call.range
        touched == {s \in Sectors : \E t \in R : SameBlock(s, t)}
        promised == {s \in R : \E t \in R \ {s} : SameBlock(s, t)}
    IN  /\ call.op = "discard"
        /\ \A s \in Sectors :
             content'[s] \in {content[s]} \cup IF s \in touched THEN {Background[s]} ELSE {}
        /\ Remember
        /\ Continue \/ (Return("ok") /\ \A s \in promised : content'[s] = Background[s])

\* Opening, flushing and closing leave the content alone, and make it durable
\* when they succeed.
Sync ==
    /\ call.op \in {"open", "flush", "close"}
    /\ UNCHANGED content
    /\ \/ Continue /\ UNCHANGED recent
       \/ Return("error") /\ UNCHANGED recent
       \/ Return("ok") /\ Settled

\* The process dies, the disk is closed although it could not be flushed, or
\* opening it fails half-way.
Lose ==
    /\ \A s \in Sectors : content'[s] \in recent[s]
    /\ Settled
    /\ Return("lost") \/ (call.op = "open" /\ Return("error"))

Next ==
    \/ \E lo, hi \in Sectors : Read(lo .. hi)
    \/ Refuse
    \/ Drop
    \/ Begin
    \/ Write
    \/ Discard
    \/ Sync
    \/ Lose

Spec == Init /\ [][Next]_vars

=============================================================================
