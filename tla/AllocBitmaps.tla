---------------------------- MODULE AllocBitmaps ----------------------------
(***************************************************************************)
(* What the cache of sector allocation bitmaps promises to the rest of the *)
(* library.  A block's bitmap is the set of its '1' bits.  The store has a *)
(* current value of every bitmap, which the calls read and change, and a   *)
(* durable one, which is what a process that opens the file later will     *)
(* find.  The cache may write any bitmap back at any time; only a Flush    *)
(* that reports success makes all of them durable, and whatever was not    *)
(* written back is lost when the process dies or drops its caches.         *)
(***************************************************************************)

CONSTANTS
    Blocks,       \* block sectors, the keys of the bitmaps
    Bits,         \* bit numbers of one bitmap
    TrimEnabled   \* the VHD is opened for TRIM: bits may be reset

VARIABLES
    current,      \* current[b]: the '1' bits of the bitmap of block b
    durable,      \* durable[b]: the same as it is in the file
    reply         \* the last call and what it returned

vars == <<current, durable, reply>>

Bitmaps == [Blocks -> SUBSET Bits]

\* A call, the blocks it was for (one or none), and the bits it was given or
\* returned.
Reply(kind, of, bits) == [kind |-> kind, of |-> of, bits |-> bits]

Done == Reply("done", {}, {})

Init ==
    /\ current \in Bitmaps
    /\ durable = current
    /\ reply = Done

\* The cache writes back the bitmaps of any set of blocks, as they are before
\* the step.
WriteBack ==
    \E W \in SUBSET Blocks :
        durable' = [b \in Blocks |-> IF b \in W THEN current[b] ELSE durable[b]]

(***************************************************************************)
(* What the calls do to the bitmaps, apart from what they return.          *)
(***************************************************************************)

SetBits(b, S) ==
    /\ current' = [current EXCEPT ![b] = @ \cup S]
    /\ WriteBack

\* Resetting bits switches them off.  The implementation keeps the other bits
\* of the block unless every bit of it was set, when it may switch them all
\* off (ResetAllocBmpBits of a fully mapped page starts from a zeroed buffer,
\* block_mng.cpp:907), and it may leave a single bit as it is (IsFilledWith, by
\* which it finds nothing to do, returns a single bit itself, utils.cpp:617).
ResetBits(b, S) ==
    /\ \/ current' = [current EXCEPT ![b] = @ \ S]
       \/ current[b] = Bits /\ current' = [current EXCEPT ![b] = {}]
       \/ (\E x \in S : S = {x}) /\ UNCHANGED current
    /\ WriteBack

KeepBits == WriteBack /\ UNCHANGED current

FlushBits == durable' = current /\ UNCHANGED current

LoseBits == WriteBack /\ current' = durable'

\* A block is appended to the file, with a bitmap of its own.
CreateBits(b, S) ==
    /\ current' = [current EXCEPT ![b] = S]
    /\ durable' = [durable EXCEPT ![b] = S]

-----------------------------------------------------------------------------
(***************************************************************************)
(* The calls                                                               *)
(***************************************************************************)

Set(b, S) == SetBits(b, S) /\ reply' = Reply("set", {b}, S)

Reset(b, S) == TrimEnabled /\ ResetBits(b, S) /\ reply' = Reply("reset", {b}, S)

Read(b) == KeepBits /\ reply' = Reply("bitmap", {b}, current[b])

\* A call that reports an error changes nothing the next call can see.
Fail == KeepBits /\ \E k \in {"error", "null"} : reply' = Reply(k, {}, {})

FlushOk == FlushBits /\ reply' = Reply("flushed", {}, {})

\* Dropping clean caches is invisible.
Drop == UNCHANGED <<current, durable>> /\ reply' = Done

\* The process dies, or is told to ignore dirty data.
Lose == LoseBits /\ reply' = Reply("lost", {}, {})

Append(b, S) == CreateBits(b, S) /\ reply' = Reply("append", {b}, S)

Next ==
    \/ \E b \in Blocks, S \in SUBSET Bits :
         Set(b, S) \/ Reset(b, S) \/ Append(b, S)
    \/ \E b \in Blocks : Read(b)
    \/ Fail
    \/ FlushOk
    \/ Drop
    \/ Lose

Spec == Init /\ [][Next]_vars

=============================================================================
