---------------------------- MODULE SectorMapper ----------------------------
(***************************************************************************)
(* CSectorMapper and CSectorBmpPage (block_mng.cpp): the LRU, write-back   *)
(* cache of the sector allocation bitmaps of a dynamic or differencing     *)
(* VHD.  Every block present in the file starts with a bitmap, one bit per *)
(* sector; a page of the cache holds the bitmap of one block.              *)
(*                                                                         *)
(* A bitmap is the set of its '1' bits.  The buffer of a page is that set  *)
(* too: CBitVector::Create zero-fills the vector, so a page without a      *)
(* buffer and a page with a freshly created one are both {}.  There is a   *)
(* page record for every block; a block that is not cached has an invalid  *)
(* one, since an invalid page is always read again before it is used.      *)
(***************************************************************************)
EXTENDS Naturals, Sequences

CONSTANTS
    Blocks,       \* starting sectors of the blocks present in the file
    NumBits,      \* BmpSizeInBits()
    MaxPages,     \* KMaxCached_SectorBitmaps
    TrimEnabled,  \* VHDF_OPMODE_TRIM: the ResetSectorAllocBits calls are legal
    IOFaults      \* raw reads and writes of the file may fail

ASSUME NumBitsAssumption == NumBits \in Nat \ {0}
ASSUME MaxPagesAssumption == MaxPages \in Nat \ {0}
ASSUME ModeAssumption == TrimEnabled \in BOOLEAN /\ IOFaults \in BOOLEAN

VARIABLES
    media,     \* media[b]: the bitmap of block b in the file
    pages,     \* pages[b]: the state and the buffer of the page of block b
    iPages,    \* the cached blocks, most recently used first
    iState,    \* CSectorMapper::iState
    reply      \* the last call and what it returned

vars == <<media, pages, iPages, iState, reply>>

Bits == 0 .. NumBits - 1

PageStates ==
    {"ESB_Invalid", "ESB_Clean", "ESB_Dirty", "ESB_FullyMapped", "ESB_FullyUnmapped",
     "Freed"}  \* a deleted page whose pointer is still in the list

Page(state, bits) == [state |-> state, bits |-> bits]

PageRecords == [state : PageStates, bits : SUBSET Bits]

InvalidPage == Page("ESB_Invalid", {})

\* A call, the blocks it was for (one or none), and the bits it was given or
\* returned.
Reply(kind, of, bits) == [kind |-> kind, of |-> of, bits |-> bits]

Done == Reply("done", {}, {})

Replies ==
    [kind : {"done", "set", "reset", "append", "bitmap", "flushed", "error", "null", "lost"},
     of : SUBSET Blocks,
     bits : SUBSET Bits]

-----------------------------------------------------------------------------
(***************************************************************************)
(* CSectorBmpPage                                                          *)
(***************************************************************************)

\* What kind of bitmap a buffer holds.
DoProcessDataBuffer(bits) ==
    IF bits = {} THEN "ESB_FullyUnmapped"
    ELSE IF bits = Bits THEN "ESB_FullyMapped"
    ELSE "ESB_Clean"

\* The buffer is kept for a mixture only, a uniform bitmap is just a state.
ImportData(bits) ==
    LET state == DoProcessDataBuffer(bits)
    IN  Page(state, IF state = "ESB_Clean" THEN bits ELSE {})

\* The page once its buffer was written to the file.
CleanPage(p) == Page(DoProcessDataBuffer(p.bits), p.bits)

\* Mutant: the buffer changes and the state does not.
SetAllocBmpBits_NotDirty(p, S) ==
    Page(IF p.state = "ESB_FullyUnmapped" THEN "ESB_Dirty" ELSE p.state, p.bits \cup S)

SetAllocBmpBits(p, S) ==
    IF \/ p.state = "ESB_FullyMapped"
       \/ p.state = "ESB_Clean" /\ S \subseteq p.bits
    THEN p
    ELSE Page("ESB_Dirty", p.bits \cup S)

\* CBitVector::IsFilledWith(from, to, 0) for the range S: of a single bit it
\* returns the bit itself, whatever it was asked for.
IsFilledWithZeros(bits, S) ==
    IF \E x \in S : S = {x} THEN S \subseteq bits ELSE S \cap bits = {}

ResetAllocBmpBits(p, S) ==
    IF \/ p.state = "ESB_FullyUnmapped"
       \/ p.state = "ESB_Clean" /\ IsFilledWithZeros(p.bits, S)
    THEN p
    ELSE Page("ESB_Dirty", p.bits \ S)

\* Mutant: one bit too many is reported for a fully mapped page.
GetAllocBmpBits_OneTooMany(p) ==
    IF p.state = "ESB_FullyMapped" THEN 0 .. NumBits
    ELSE IF p.state = "ESB_FullyUnmapped" THEN {}
    ELSE p.bits

\* The bitmap a valid page stands for.
GetAllocBmpBits(p) ==
    IF p.state = "ESB_FullyMapped" THEN Bits
    ELSE IF p.state = "ESB_FullyUnmapped" THEN {}
    ELSE p.bits

-----------------------------------------------------------------------------
(***************************************************************************)
(* CSectorMapper: finding, populating and evicting pages                   *)
(***************************************************************************)

Cached(b) == \E i \in 1 .. Len(iPages) : iPages[i] = b

Position(b) == CHOOSE i \in 1 .. Len(iPages) : iPages[i] = b

Without(s, i) == SubSeq(s, 1, i - 1) \o SubSeq(s, i + 1, Len(s))

\* Mutant: the cache grows by one page too many.
MustEvict_OffByOne(b) == ~Cached(b) /\ Len(iPages) > MaxPages

MustEvict(b) == ~Cached(b) /\ Len(iPages) >= MaxPages

\* The least recently used block, when its page has to make room for b.
Victim(b, x) == MustEvict(b) /\ x = iPages[Len(iPages)]

EvictWrites(b) == MustEvict(b) /\ pages[iPages[Len(iPages)]].state = "ESB_Dirty"

MustRead(b) == pages[b].state = "ESB_Invalid"

\* Mutant: the evicted page gets its new block but is not put back in the list.
ListWith_NotListed(b) ==
    IF Cached(b) THEN <<b>> \o Without(iPages, Position(b))
    ELSE IF MustEvict(b) THEN Without(iPages, Len(iPages))
    ELSE <<b>> \o iPages

\* Mutant: a dirty page is evicted without being written.
MediaWith_NoFlush(b) == media

\* Mutant: populating a page marks the mapper clean whatever it was.
StateWith_AlwaysClean(b) == IF MustRead(b) THEN "EClean" ELSE iState

\* The cache once the page of b is populated and made the most recently used:
\* its list, its pages, the file and the state of the mapper.
ListWith(b) ==
    IF Cached(b) THEN <<b>> \o Without(iPages, Position(b))
    ELSE IF MustEvict(b) THEN <<b>> \o Without(iPages, Len(iPages))
    ELSE <<b>> \o iPages

PageOf(b) == IF MustRead(b) THEN ImportData(media[b]) ELSE pages[b]

MediaWith(b) ==
    [x \in Blocks |->
        IF Victim(b, x) /\ pages[x].state = "ESB_Dirty" THEN pages[x].bits ELSE media[x]]

StateWith(b) == IF MustRead(b) /\ iState = "EInvalid" THEN "EClean" ELSE iState

\* DoGetPopulatedPage succeeds for b, and its caller leaves page p.
Populate(b, p) ==
    /\ iPages' = ListWith(b)
    /\ pages' = [x \in Blocks |->
                    IF x = b THEN p ELSE IF Victim(b, x) THEN InvalidPage ELSE pages[x]]
    /\ media' = MediaWith(b)

\* DoGetPopulatedPage returns NULL: the page to evict could not be written
\* back, and the cache stays as it is (the file may hold either bitmap) ...
EvictionFails(b) ==
    /\ IOFaults
    /\ EvictWrites(b)
    /\ media' \in {media, MediaWith(b)}
    /\ UNCHANGED <<iPages, pages, iState>>

\* ... or the bitmap of b could not be read: CAutoClosePtr deletes the page,
\* whose pointer stays at the front of the list.
ImportFails(b) ==
    /\ IOFaults
    /\ MustRead(b)
    /\ Populate(b, Page("Freed", {}))
    /\ UNCHANGED iState

\* Every call but a Flush of a clean cache walks the list.
ListUsable == \A x \in Blocks : pages[x].state # "Freed"

\* The process is gone, and with it the cache.
Die ==
    /\ iPages' = <<>>
    /\ pages' = [x \in Blocks |-> InvalidPage]
    /\ iState' = "EInvalid"
    /\ reply' = Reply("lost", {}, {})

-----------------------------------------------------------------------------
(***************************************************************************)
(* CSectorMapper: the calls                                                *)
(***************************************************************************)

Init ==
    /\ media \in [Blocks -> SUBSET Bits]
    /\ pages = [x \in Blocks |-> InvalidPage]
    /\ iPages = <<>>
    /\ iState = "EInvalid"
    /\ reply = Done

\* The page of b becomes p; a dirty page makes the whole cache dirty.
Update(b, p) ==
    /\ Populate(b, p)
    /\ iState' = IF p.state = "ESB_Dirty" THEN "EDirty" ELSE StateWith(b)

SetSectorAllocBits(b, S) ==
    /\ ListUsable
    /\ Update(b, SetAllocBmpBits(PageOf(b), S))
    /\ reply' = Reply("set", {b}, S)

ResetSectorAllocBits(b, S) ==
    /\ TrimEnabled
    /\ ListUsable
    /\ Update(b, ResetAllocBmpBits(PageOf(b), S))
    /\ reply' = Reply("reset", {b}, S)

\* Both calls above use the pointer without a check: NULL kills the process.
UpdateOfNull(b) ==
    /\ ListUsable
    /\ IOFaults
    /\ EvictWrites(b) \/ MustRead(b)
    /\ media' \in {media, MediaWith(b)}
    /\ Die

\* GetSectorAllocBitmap, and what its callers then read of the page: the state
\* and, for a mixture, GetAllocBitmap_Raw.
GetSectorAllocBitmap(b) ==
    /\ ListUsable
    /\ Populate(b, PageOf(b))
    /\ iState' = StateWith(b)
    /\ reply' = Reply("bitmap", {b}, GetAllocBmpBits(PageOf(b)))

GetSectorAllocBitmapFails(b) ==
    /\ ListUsable
    /\ EvictionFails(b) \/ ImportFails(b)
    /\ reply' = Reply("null", {}, {})

\* CSectorBmpPage::GetAllocBitmap after it, the copy that coalescing works on:
\* KErrCorrupt for a dirty page.
GetAllocBitmap(b) ==
    /\ ListUsable
    /\ Populate(b, PageOf(b))
    /\ iState' = StateWith(b)
    /\ reply' = IF PageOf(b).state = "ESB_Dirty"
                THEN Reply("error", {}, {})
                ELSE Reply("bitmap", {b}, GetAllocBmpBits(PageOf(b)))

\* Flush: nothing to do unless the cache is dirty; otherwise every dirty page is
\* written, also after one failed, and the cache is clean if none did.  A page
\* in "failed" stays dirty, and the file holds either of its bitmaps.
Flush(failed) ==
    LET dirty == {x \in Blocks : Cached(x) /\ pages[x].state = "ESB_Dirty"}
        todo == IF iState = "EDirty" THEN dirty ELSE {}
    IN  /\ ListUsable \/ iState # "EDirty"
        /\ failed \subseteq todo
        /\ failed # {} => IOFaults
        /\ \E torn \in SUBSET failed :
             media' = [x \in Blocks |->
                         IF x \in (todo \ failed) \cup torn THEN pages[x].bits ELSE media[x]]
        /\ pages' = [x \in Blocks |->
                       IF x \in todo \ failed THEN CleanPage(pages[x]) ELSE pages[x]]
        /\ iState' = IF iState = "EDirty" /\ failed = {} THEN "EClean" ELSE iState
        /\ reply' = Reply(IF failed = {} THEN "flushed" ELSE "error", {}, {})
        /\ UNCHANGED iPages

\* InvalidateCache: Fault if there is dirty data nobody said to ignore.
InvalidateCache(ignoreDirty) ==
    /\ ListUsable
    /\ IF iState = "EDirty" /\ ~ignoreDirty
       THEN Die
       ELSE /\ pages' = [x \in Blocks |-> InvalidPage]
            /\ reply' = IF ignoreDirty THEN Reply("lost", {}, {}) ELSE Done
            /\ UNCHANGED <<iPages, iState>>
    /\ UNCHANGED media

Close(forceClose) ==
    /\ ListUsable
    /\ IF iState = "EDirty" /\ ~forceClose
       THEN Die
       ELSE /\ pages' = [x \in Blocks |-> InvalidPage]
            /\ iPages' = <<>>
            /\ iState' = "EInvalid"
            /\ reply' = IF forceClose THEN Reply("lost", {}, {}) ELSE Done
    /\ UNCHANGED media

\* CVhdDynDiffBase::AppendBlock writes the bitmap of a block that is new in the
\* file around the cache, which has no page for it yet.
AppendBlock(b, bits) ==
    /\ ~Cached(b)
    /\ media' = [media EXCEPT ![b] = bits]
    /\ reply' = Reply("append", {b}, bits)
    /\ UNCHANGED <<pages, iPages, iState>>

\* The process is killed, or uses the freed page.
ProcessDies == Die /\ UNCHANGED media

Extents == {lo .. hi : lo, hi \in Bits} \ {{}}

Next ==
    \/ \E b \in Blocks, S \in Extents :
         SetSectorAllocBits(b, S) \/ ResetSectorAllocBits(b, S)
    \/ \E b \in Blocks :
         \/ UpdateOfNull(b)
         \/ GetSectorAllocBitmap(b)
         \/ GetSectorAllocBitmapFails(b)
         \/ GetAllocBitmap(b)
         \/ \E bits \in {{}, Bits} : AppendBlock(b, bits)
    \/ \E failed \in SUBSET Blocks : Flush(failed)
    \/ \E force \in BOOLEAN : InvalidateCache(force) \/ Close(force)
    \/ ProcessDies

Spec == Init /\ [][Next]_vars

-----------------------------------------------------------------------------
(***************************************************************************)
(* Properties                                                              *)
(***************************************************************************)

\* The types of the variables of the bitmap cache.
TypeOK ==
    /\ media \in [Blocks -> SUBSET Bits]
    /\ pages \in [Blocks -> PageRecords]
    /\ iPages \in Seq(Blocks)
    /\ iState \in {"EInvalid", "EClean", "EDirty"}
    /\ reply \in Replies

\* What a page that is not dirty says of the bitmap m in the file.
Coherent(p, m) ==
    /\ p.state = "ESB_Clean" => p.bits = m
    /\ p.state = "ESB_FullyMapped" => m = Bits /\ p.bits \in {{}, Bits}
    /\ p.state = "ESB_FullyUnmapped" => m = {} /\ p.bits = {}

\* A page that is not dirty tells what the file says: a clean buffer equals the
\* bitmap of the file, and a "fully mapped" or "fully unmapped" page, which may
\* have dropped its buffer, stands for a uniform one.
CacheCoherent == \A b \in Blocks : Coherent(pages[b], media[b])

\* Flush looks at pages only when the mapper is dirty: no page may be dirty
\* while the mapper says it is clean.
DirtyTracked ==
    \A b \in Blocks : pages[b].state = "ESB_Dirty" => iState = "EDirty"

\* Flush, InvalidateCache and Close reach pages through the list only: every
\* page with data is in it.
ValidPagesListed ==
    \A b \in Blocks : pages[b].state # "ESB_Invalid" => Cached(b)

\* The list holds one page per block, never more than the cache has room for.
ListWellFormed ==
    /\ Len(iPages) <= MaxPages
    /\ \A i, j \in 1 .. Len(iPages) : iPages[i] = iPages[j] => i = j

\* The bitmap the next call will see: the file's where the page has no data.
PageValue(p, m) == IF p.state \in {"ESB_Invalid", "Freed"} THEN m ELSE GetAllocBmpBits(p)

Current(b) == PageValue(pages[b], media[b])

\* The detailed cache keeps the promises of AllocBitmaps: no call loses or
\* invents a bit, eviction and partial flushes included, and a successful Flush
\* leaves every bitmap in the file.
Abstract == INSTANCE AllocBitmaps WITH
    current <- [b \in Blocks |-> Current(b)],
    durable <- media

ImplementsAllocBitmaps == Abstract!Spec

=============================================================================
