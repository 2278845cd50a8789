------------------------------ MODULE VhdChain ------------------------------
(***************************************************************************)
(* Chains of VHD files: a differencing VHD names its parent twice, by      *)
(* locators, which hold the parent's path, and by the UUID in its header.  *)
(* The chain is found by opening parent after parent (vhd_file_diff.cpp).  *)
(*                                                                         *)
(* A file is what the chain and the content of the disk depend on.  The    *)
(* value of a sector is the number of the file it was first written to.    *)
(***************************************************************************)
EXTENDS Naturals, FiniteSets, Sequences

CONSTANTS
    NumDiffs,           \* differencing VHDs in the chain, the tail included
    NumBlocks,
    SectorsPerBlock,
    NumLocators         \* parent locators of every differencing VHD

ASSUME ChainAssumption ==
    /\ NumDiffs \in Nat \ {0} /\ NumLocators \in Nat \ {0}
    /\ NumBlocks \in Nat \ {0} /\ SectorsPerBlock \in Nat \ {0}

VARIABLE files   \* the directory: files[f] is the file with the name f

\* The names: the chain from the tail to the head, and the temporary file.
TailVhd == 0
HeadVhd == NumDiffs
Tmp == NumDiffs + 1
Names == 0 .. Tmp

\* No name: what a torn locator says, or the parent of a file that has none.
NoName == NumDiffs + 2

\* Contents that no file of the chain holds at first: what the client writes,
\* what an appended block holds, and of a sector that cannot be read.
New == NumDiffs + 1
Junk == NumDiffs + 2
Unreadable == NumDiffs + 3
Data == 0 .. Unreadable

\* No UUID: that of a file that is not a VHD.
NoUuid == NumDiffs + 1

Blocks == 0 .. NumBlocks - 1
Sectors == 0 .. NumBlocks * SectorsPerBlock - 1
Locators == 1 .. NumLocators

SectorToBlockNumber(s) == s \div SectorsPerBlock
SectorsOf(b) == {s \in Sectors : SectorToBlockNumber(s) = b}

\* "bad" is a file that cannot be opened: its header is torn, or it is unfinished.
Vhds ==
    [kind : {"none", "bad", "diff", "head"}, uuid : 0 .. NoUuid, parent : 0 .. NoUuid,
     locs : [Locators -> Names \cup {NoName}],
     present : SUBSET Blocks, bits : SUBSET Sectors, data : [Sectors -> Data]]

NoFile ==
    [kind |-> "none", uuid |-> NoUuid, parent |-> NoUuid, locs |-> [i \in Locators |-> NoName],
     present |-> {}, bits |-> {}, data |-> [s \in Sectors |-> Junk]]

BadFile == [NoFile EXCEPT !.kind = "bad"]

-----------------------------------------------------------------------------
(***************************************************************************)
(* From child to parent                                                    *)
(***************************************************************************)

\* The first locator that leads to a file decides, whatever the file is.
DoFindParentFile(v) ==
    LET found == {i \in Locators : v.locs[i] \in Names /\ files[v.locs[i]].kind # "none"}
    IN  IF found = {} THEN NoName
        ELSE v.locs[CHOOSE i \in found : \A j \in found : i <= j]

\* Open finds the file of the parent, and leaves opening it until it is needed.
CanOpen(v) == v.kind = "head" \/ (v.kind = "diff" /\ DoFindParentFile(v) # NoName)

\* The parent opens, and has the UUID the child asks for.
OpenParentVHD(v) ==
    LET p == DoFindParentFile(v)
    IN  IF v.kind = "diff" /\ p # NoName /\ CanOpen(files[p]) /\ files[p].uuid = v.parent
        THEN p ELSE NoName

\* The names of the parents of v, as far as they can be opened.
ParentsOf(v) ==
    LET next == [f \in Names \cup {NoName} |->
                    IF f = NoName THEN NoName ELSE OpenParentVHD(files[f])]
        up[n \in 1 .. NumDiffs + 1] == IF n = 1 THEN OpenParentVHD(v) ELSE next[up[n - 1]]
    IN  SubSeq(up, 1, Cardinality({n \in 1 .. NumDiffs + 1 : up[n] # NoName}))

Complete(parents) == parents # <<>> /\ files[parents[Len(parents)]].kind = "head"

-----------------------------------------------------------------------------
(***************************************************************************)
(* Reading through the chain                                               *)
(***************************************************************************)

\* GetBlockBitmap, and no sector of a block that is not present.
Bitmap(v) == IF v.kind = "head" THEN Sectors
             ELSE {s \in v.bits : SectorToBlockNumber(s) \in v.present}

\* Is sector s taken from v itself?  In pure mode its bitmaps are ignored.
FromFile(v, s, pure) ==
    \/ v.kind = "head"
    \/ s \in Bitmap(v)
    \/ pure /\ SectorToBlockNumber(s) \in v.present

\* A read of sector s alone.  Every parent has the mode of the file that was opened.
ReadFrom(parents, s, pure) ==
    LET hits == {i \in 1 .. Len(parents) : FromFile(files[parents[i]], s, pure)}
    IN  IF hits = {} THEN Unreadable
        ELSE files[parents[CHOOSE i \in hits : \A j \in hits : i <= j]].data[s]

\* Where each parent looks for sector s when the sectors R of a block are read together:
\* a file reads every extent it does not hold from the sectors of its parent where the
\* request starts (vhd_file_diff.cpp:773), so that the sectors before the extent are missing.
Places(parents, R, s, pure) ==
    LET place[i \in 1 .. Len(parents)] ==
            IF i = 1 THEN s
            ELSE LET t == place[i - 1]
                 IN  t - Cardinality({u \in R : u < t /\
                            \E w \in u .. t : FromFile(files[parents[i - 1]], w, pure)})
    IN  place

\* The first parent that has what it looks for, or 0.
SourceOf(parents, R, s, pure) ==
    LET place == Places(parents, R, s, pure)
        hits == {i \in 1 .. Len(parents) : FromFile(files[parents[i]], place[i], pure)}
    IN  IF hits = {} THEN 0 ELSE CHOOSE i \in hits : \A j \in hits : i <= j

\* What is read for sector s.
ReadRange(parents, R, s, pure) ==
    LET i == SourceOf(parents, R, s, pure)
    IN  IF i = 0 THEN Unreadable ELSE files[parents[i]].data[Places(parents, R, s, pure)[i]]

\* A file that holds a part of a request returns the error of its last extent only.
ErrorsMissed(parents, R, pure) ==
    {s \in R : \E t \in R : s < t /\ SourceOf(parents, R, s, pure) # SourceOf(parents, R, t, pure)}

\* A request reaches a file that holds a part of it.
MeetsMixed(parents, R, pure) ==
    \E i \in 1 .. Len(parents) :
      /\ \A j \in 1 .. i - 1 : \A s \in R : ~FromFile(files[parents[j]], s, pure)
      /\ \E s, t \in R : FromFile(files[parents[i]], s, pure) /\ ~FromFile(files[parents[i]], t, pure)

\* The disk that v is the top of, for a client that reads sector by sector, ...
Contents(v, pure) ==
    LET parents == ParentsOf(v)
    IN  [s \in Sectors |-> IF FromFile(v, s, pure) THEN v.data[s] ELSE ReadFrom(parents, s, pure)]

\* ... and what a client finds that opens the tail now.
OnDisk == IF CanOpen(files[TailVhd]) THEN Contents(files[TailVhd], FALSE)
          ELSE [s \in Sectors |-> Unreadable]

=============================================================================
