-------------------------------- MODULE Bat --------------------------------
(***************************************************************************)
(* CBat (block_mng.cpp): the write-back cache of the Block Allocation      *)
(* Table, which maps the blocks of the disk to their place in the file.    *)
(* The table is read and written as a whole.                               *)
(*                                                                         *)
(* The buffer of an invalid cache is always read again before it is used:  *)
(* it stands here as an empty table.                                       *)
(***************************************************************************)

CONSTANTS
    Blocks,    \* indices of the table
    Places,    \* where a block can be in the file
    Unused,    \* KBatEntry_Unused: the block is not in the file
    Bogus      \* a negative error code taken for an entry

VARIABLES
    batOnMedia,   \* the table in the file
    iBatBuffer,   \* CBat::iBatBuffer
    batState      \* CBat::iState

vars == <<batOnMedia, iBatBuffer, batState>>

Tables == [Blocks -> Places \cup {Unused}]

EmptyTable == [b \in Blocks |-> Unused]

BatTypeOK ==
    /\ batOnMedia \in Tables
    /\ iBatBuffer \in Tables
    /\ batState \in {"EInvalid", "EClean", "EDirty"}

StateValid == batState # "EInvalid"

\* The table the next call will see.
Table == IF StateValid THEN iBatBuffer ELSE batOnMedia

Init ==
    /\ batOnMedia = EmptyTable
    /\ iBatBuffer = EmptyTable
    /\ batState = "EInvalid"

\* ReadBAT: the file's table becomes the buffer.
ReadBAT ==
    /\ iBatBuffer' = Table
    /\ batState' = IF StateValid THEN batState ELSE "EClean"
    /\ UNCHANGED batOnMedia

\* ReadEntry returns entry e of block b ...
ReadEntry(b, e) == ReadBAT /\ e = Table[b]

\* ... or, when the table could not be read, the error code in its place.
ReadEntryFails(e) == ~StateValid /\ e = Bogus /\ UNCHANGED vars

\* Mutant: the entry is changed and the table is not marked dirty.
WriteEntry_NotDirty(b, e) ==
    /\ iBatBuffer' = [Table EXCEPT ![b] = e]
    /\ batState' = IF StateValid THEN batState ELSE "EClean"
    /\ UNCHANGED batOnMedia

WriteEntry(b, e) ==
    /\ iBatBuffer' = [Table EXCEPT ![b] = e]
    /\ batState' = "EDirty"
    /\ UNCHANGED batOnMedia

Flush ==
    /\ batOnMedia' = IF batState = "EDirty" THEN iBatBuffer ELSE batOnMedia
    /\ batState' = IF batState = "EDirty" THEN "EClean" ELSE batState
    /\ UNCHANGED iBatBuffer

\* WriteBAT fails: the cache stays dirty, and some entries may be in the file.
FlushFails ==
    /\ batState = "EDirty"
    /\ \E W \in SUBSET Blocks :
         batOnMedia' = [b \in Blocks |-> IF b \in W THEN iBatBuffer[b] ELSE batOnMedia[b]]
    /\ UNCHANGED <<iBatBuffer, batState>>

\* InvalidateCache and Close, with nothing dirty or told to ignore it.
InvalidateCache ==
    /\ iBatBuffer' = EmptyTable
    /\ batState' = "EInvalid"
    /\ UNCHANGED batOnMedia

\* What the cache says is what the file says, unless it is marked dirty.
BatCoherent == batState = "EClean" => iBatBuffer = batOnMedia

=============================================================================
