-------------------------------- MODULE Pmm --------------------------------
(***************************************************************************)
(* The physical memory manager of Strata (strata/mm/pmm.c) after           *)
(* StPmm_LateInit: allocation, reference counting and release of           *)
(* power-of-two runs of physical frames.                                   *)
(*                                                                         *)
(* alloc_table_ptr_array (the ATPA) has one slot per group of frames; a    *)
(* slot is free, unusable, wholly allocated, or points to an allocation    *)
(* table and carries a bitmap of order hints.  A table has entries, and an *)
(* entry is a buddy bitmap or, where some of its frames are unusable, an   *)
(* array of per-frame flags.  Here `use' gives the state of each frame:    *)
(* the buddy bits above the frames are a function of it.                   *)
(*                                                                         *)
(* Every operation runs under StThread_LockPreemption on one CPU, so it is *)
(* one step.  The nested allocation of get_or_create_table, which tops up  *)
(* the pool of tables in the middle of an allocation, is part of the step. *)
(***************************************************************************)
EXTENDS Integers, Sequences, FiniteSets, FiniteSetsExt

CONSTANTS
    EntryOrder,     \* an entry covers 2^EntryOrder frames (5)
    TableOrder,     \* a table has 2^TableOrder entries (9)
    Tables,         \* slots of the ATPA (4096)
    HintFloor,      \* orders up to this one share hint bit 0 (2)
    MaxOrder,       \* PMM_MAX_ORDER (26)
    EarlyTables,    \* EARLY_ALLOC_TABLE_POOL_COUNT (128)
    LowWatermark,   \* ALLOC_TABLE_POOL_LOW_WATERMARK (8)
    Below,          \* flag -> [tables, entry, order]: the AF_PMM_BELOW_* limits
    Holes,          \* frames no memory map entry makes usable
    Owners,         \* allocation owners
    NoOwner,        \* a null owner
    Requests,       \* [count, align, below] records the clients ask for
    MaxRef,         \* bound on the references to one allocation
    MaxRuns,        \* bound on the runs the clients hold at once
    MaxEarly        \* bound on the early tables used so far

ASSUME GeometryAssumption ==
    /\ {EntryOrder, TableOrder, Tables, MaxOrder} \subseteq Nat \ {0}
    /\ {HintFloor, EarlyTables, LowWatermark, MaxRef, MaxRuns, MaxEarly} \subseteq Nat
    /\ HintFloor < EntryOrder
    /\ NoOwner \notin Owners

VARIABLES
    pmm,        \* the manager's own data
    usage,      \* page_usage_count of each owner
    closed,     \* owners marked dying by StAllocationOwner_Close
    held        \* references the clients hold to the run based at each frame

vars == <<pmm, usage, closed, held>>

EntryPages == 2^EntryOrder
Entries == 2^TableOrder
HugeOrder == EntryOrder + TableOrder
TablePages == 2^HugeOrder
Slots == 0 .. Tables - 1
Frames == 0 .. Tables * TablePages - 1

NoFrame == -1           \* (St_PhysFrame)-1
Early == -2             \* a table of early_alloc_table_pool

Block(f, order) == f .. f + 2^order - 1
TableOf(f) == f \div TablePages
TableFrames(i) == Block(i * TablePages, HugeOrder)
EntryBase(i, j) == i * TablePages + j * EntryPages
EntryFrames(i, j) == Block(EntryBase(i, j), EntryOrder)

IsUnusableEntry(i, j) == EntryFrames(i, j) \subseteq Holes
IsExtended(i, j) == EntryFrames(i, j) \cap Holes # {}

RoundDown(n, jump) == (n \div jump) * jump
Jump(align, order) == IF align > order THEN 2^(align - order) ELSE 1

\* The indices of `for (k = start; k >= 0; k -= jump)'; the loop that stops
\* at the first hit stops at their maximum.
Descending(start, jump) == {k \in 0 .. start : (start - k) % jump = 0}

MaxOr(S, default) == IF S = {} THEN default ELSE Max(S)

-----------------------------------------------------------------------------
(* Requests and hints.                                                     *)

get_order(count) ==
    IF count = 0 THEN -1 ELSE Min({o \in 0 .. MaxOrder + 1 : o > MaxOrder \/ count <= 2^o})

HintIdx(order) == IF order <= HintFloor THEN 0 ELSE order - HintFloor
AllHints == 0 .. HintIdx(HugeOrder - 1)
HintSet(hint, order) == hint \cup {HintIdx(order)}
HintClr(hint, order) == {b \in hint : b < HintIdx(order)}

OrderOf(req) == get_order(req.count)
AlignOf(req) == Max({req.align, OrderOf(req)})

\* The checks before the lock is taken; "go" when the search starts.
CheckRequest(req, owner) ==
    CASE OrderOf(req) < 0 -> "invalid_value"
      [] OrderOf(req) > MaxOrder -> "insufficient_memory"
      [] OrderOf(req) <= MaxOrder /\ owner \in closed -> "conflicting_state"
      [] OTHER ->
           IF AlignOf(req) > MaxOrder \/ OrderOf(req) > Below[req.below].order
           THEN "insufficient_memory" ELSE "go"

-----------------------------------------------------------------------------
(* Looking for room.                                                       *)

AtpaSearch(req) ==
    LET jump == Jump(AlignOf(req), HugeOrder - 1)
    IN  Descending(RoundDown(Below[req.below].tables - 1, jump), jump)

TableStart(req) ==
    Min({RoundDown(Entries - 1, Jump(AlignOf(req), EntryOrder)), Below[req.below].entry})

NormalStart(req) ==
    LET room == Entries - 2^(OrderOf(req) - EntryOrder)
    IN  IF TableStart(req) > room
        THEN RoundDown(room, Jump(AlignOf(req), EntryOrder)) ELSE TableStart(req)

AllFree(p, S) == \A f \in S : p.use[f] = "FREE"

find_free_frame_idx_bitmap_entry(p, i, j, align) ==
    LET fits == {k \in 0 .. EntryPages - 1 :
                    /\ k % 2^align = 0
                    /\ AllFree(p, Block(EntryBase(i, j) + k, align))}
    IN  IF align > EntryOrder \/ fits = {} THEN -1 ELSE Min(fits)

\* The flags of an extended entry are tried at every index: the alignment of
\* the request plays no part until it exceeds the 12 of the page shift.
FindExtended(p, i, j, req) ==
    MaxOr({k \in Descending(RoundDown(EntryPages - 1, Jump(AlignOf(req), 12)),
                            Jump(AlignOf(req), 12)) :
              /\ k + 2^OrderOf(req) <= EntryPages
              /\ AllFree(p, Block(EntryBase(i, j) + k, OrderOf(req)))}, -1)

FindInEntry(p, i, j, req) ==
    CASE IsUnusableEntry(i, j) -> -1
      [] IsExtended(i, j) /\ ~IsUnusableEntry(i, j) -> FindExtended(p, i, j, req)
      [] OTHER -> find_free_frame_idx_bitmap_entry(p, i, j, AlignOf(req))

\* The frame chosen inside table i, or NoFrame.
FindInTable(p, i, req) ==
    IF OrderOf(req) >= EntryOrder
    THEN LET fits == {j \in Descending(NormalStart(req), Jump(AlignOf(req), EntryOrder)) :
                         AllFree(p, Block(EntryBase(i, j), OrderOf(req)))}
         IN  IF fits = {} THEN NoFrame ELSE EntryBase(i, Max(fits))
    ELSE LET fits == {j \in Descending(TableStart(req), Jump(AlignOf(req), EntryOrder)) :
                         FindInEntry(p, i, j, req) >= 0}
         IN  IF fits = {} THEN NoFrame
             ELSE EntryBase(i, Max(fits)) + FindInEntry(p, i, Max(fits), req)

\* A slot the loop opens: the hint of a table may make the loop skip it.
Opened(p, i, req) == p.atpa[i] = "TABLE" /\ HintIdx(OrderOf(req)) \in p.hint[i]

FirstFit(p, req) ==
    MaxOr({i \in AtpaSearch(req) :
              \/ p.atpa[i] = "FREE"
              \/ Opened(p, i, req) /\ FindInTable(p, i, req) # NoFrame}, -1)

\* The tables the loop opened in vain before it stopped at slot `hit' lose
\* their hint for this order and above.
ClearHints(p, req, hit) ==
    [p EXCEPT !.hint = [i \in Slots |->
        IF i \in AtpaSearch(req) /\ i > hit /\ Opened(p, i, req)
        THEN HintClr(p.hint[i], OrderOf(req)) ELSE p.hint[i]]]

-----------------------------------------------------------------------------
(* Allocation.                                                             *)

Result(p, status, pfn) == [pmm |-> p, status |-> status, pfn |-> pfn]

\* Mark the run used, create its metadata and count its frames.
Commit(p, req, owner, pfn) ==
    LET run == Block(pfn, OrderOf(req)) IN
    Result([p EXCEPT
        !.use = [f \in Frames |-> IF f \in run THEN "USED" ELSE p.use[f]],
        !.meta[pfn] = [order |-> OrderOf(req), ref |-> 1, owner |-> owner],
        !.free = @ - Cardinality(run)], "success", pfn)

get_alloctbl_pool_remaining(p) == (EarlyTables - p.early) + Len(p.dyn)

\* The slot points to a table of free frames.
FreshTable(p, i, src) ==
    [p EXCEPT !.atpa[i] = "TABLE", !.hint[i] = AllHints, !.src[i] = src,
              !.use = [f \in Frames |-> IF f \in TableFrames(i) THEN "FREE" ELSE p.use[f]]]

TakeTable_NoUnlink(p, i) ==
    CASE p.early < EarlyTables ->
           Result([FreshTable(p, i, Early) EXCEPT !.early = @ + 1], "success", NoFrame)
      [] p.early >= EarlyTables /\ p.dyn # <<>> ->
           Result(FreshTable(p, i, Head(p.dyn)), "success", NoFrame)
      [] OTHER -> Result(p, "insufficient_memory", NoFrame)

\* From the early pool while it lasts, then from the list of dynamic tables.
TakeTable(p, i) ==
    CASE p.early < EarlyTables ->
           Result([FreshTable(p, i, Early) EXCEPT !.early = @ + 1], "success", NoFrame)
      [] p.early >= EarlyTables /\ p.dyn # <<>> ->
           Result([FreshTable(p, i, Head(p.dyn)) EXCEPT !.dyn = Tail(@)], "success", NoFrame)
      [] OTHER -> Result(p, "insufficient_memory", NoFrame)

\* order >= HugeOrder: whole ATPA slots.
AllocateHuge(p, req, owner) ==
    LET need == 2^(OrderOf(req) - HugeOrder)
        fits == {i \in AtpaSearch(req) :
                    i + need <= Tables /\ \A k \in i .. i + need - 1 : p.atpa[k] = "FREE"}
        base == Max(fits)
        taken == [p EXCEPT !.atpa = [k \in Slots |->
                    IF k \in base .. base + need - 1 THEN "HUGE" ELSE p.atpa[k]]]
    IN  IF fits = {} THEN Result(p, "insufficient_memory", NoFrame)
        ELSE Result([Commit(p, req, owner, base * TablePages).pmm EXCEPT
                        !.atpa = taken.atpa, !.use = p.use], "success", base * TablePages)

CommitAt(p, i, idx, req, owner) ==
    IF idx < 0 THEN Result([p EXCEPT !.panic = TRUE], "panic", NoFrame)
    ELSE Commit(p, req, owner, EntryBase(i, TableStart(req)) + idx)

\* A free slot was to be given a table: the frame at the start of the search.
AllocateInFresh(made, i, req, owner) ==
    CASE made.status # "success" -> made
      [] made.status = "success" /\ OrderOf(req) >= EntryOrder ->
           Commit(made.pmm, req, owner, EntryBase(i, NormalStart(req)))
      [] OTHER ->
           CommitAt(made.pmm, i,
                    find_free_frame_idx_bitmap_entry(made.pmm, i, TableStart(req), AlignOf(req)),
                    req, owner)

\* When no slot has room, the small search runs on into `success:'.
Exhausted(req) == IF OrderOf(req) >= EntryOrder THEN "insufficient_memory" ELSE "success"

\* The search has stopped at slot i and cleared hints; `made' is what
\* get_or_create_table gives for a free slot.
AllocateInSlot(p, i, req, owner, made) ==
    CASE i = -1 -> Result(p, Exhausted(req), NoFrame)
      [] i # -1 /\ p.atpa[i] = "TABLE" -> Commit(p, req, owner, FindInTable(p, i, req))
      [] OTHER -> AllocateInFresh(made, i, req, owner)

-----------------------------------------------------------------------------
(* A pool of tables that runs low is topped up with a frame that the        *)
(* allocator takes from itself.                                            *)

OneFrame == [count |-> 1, align |-> 0, below |-> "none"]

\* While is_topping_up_alloctbl_pool is set the pool is not topped up again.
AllocateNested(p, i) == AllocateInSlot(p, i, OneFrame, NoOwner, TakeTable(p, i))

AddTable(got) ==
    IF got.status = "success"
    THEN Result([got.pmm EXCEPT !.dyn = <<got.pfn>> \o @], "success", NoFrame) ELSE got

TopUpFrom(p, i) == AddTable(AllocateNested(ClearHints(p, OneFrame, i), i))

topup_alloc_table_pool(p) == TopUpFrom(p, FirstFit(p, OneFrame))

\* Slot i is free and gets a table; the pool is topped up first when it is low
\* and again when it is empty.
ToppedUpIfLow(p) ==
    IF get_alloctbl_pool_remaining(p) <= LowWatermark THEN topup_alloc_table_pool(p).pmm ELSE p

ToppedUpIfDry(p) ==
    IF get_alloctbl_pool_remaining(p) = 0 THEN topup_alloc_table_pool(p)
    ELSE Result(p, "success", NoFrame)

TakeFrom(pool, i) == IF pool.status = "success" THEN TakeTable(pool.pmm, i) ELSE pool

get_or_create_table(p, i) == TakeFrom(ToppedUpIfDry(ToppedUpIfLow(p)), i)

AllocateFrom(p, i, req, owner) ==
    AllocateInSlot(p, i, req, owner, get_or_create_table(p, i))

SearchFrom(p, i, req, owner) == AllocateFrom(ClearHints(p, req, i), i, req, owner)

Allocate(p, req, owner) ==
    IF OrderOf(req) >= HugeOrder THEN AllocateHuge(p, req, owner)
    ELSE SearchFrom(p, FirstFit(p, req), req, owner)

-----------------------------------------------------------------------------
(* Release.                                                                *)

alloc_table_is_all_free(p, i) == AllFree(p, TableFrames(i))

ReturnTable_Keeps(p, i) == p

ReturnTable_LosesDynamic(p, i) ==
    IF ~alloc_table_is_all_free(p, i) THEN p
    ELSE [p EXCEPT !.atpa[i] = "FREE", !.hint[i] = {}, !.src[i] = Early]

\* A table without a used or unusable frame gives its slot back; a dynamic
\* one returns to the list, an early one is not used again.
ReturnTable(p, i) ==
    IF ~alloc_table_is_all_free(p, i) THEN p
    ELSE [p EXCEPT !.atpa[i] = "FREE", !.hint[i] = {}, !.src[i] = Early,
                   !.dyn = IF p.src[i] # Early THEN <<p.src[i]>> \o @ ELSE @]

Panicked(p) == [p EXCEPT !.panic = TRUE]

\* The frames a release verifies to be in use; the bits of a bitmap entry are
\* cleared without a look.
Checked(pfn, order) ==
    IF order >= EntryOrder \/ IsExtended(TableOf(pfn), (pfn % TablePages) \div EntryPages)
    THEN Block(pfn, order) ELSE {}

do_free_contiguous_frame(p, pfn, order) ==
    LET i == TableOf(pfn)
        run == Block(pfn, order)
        slots == i .. i + 2^(order - HugeOrder) - 1
        counted == [p EXCEPT !.free = @ + 2^order]
    IN  IF order >= HugeOrder
        THEN IF \E k \in slots : p.atpa[k] # "HUGE" THEN Panicked(p)
             ELSE [counted EXCEPT !.atpa = [k \in Slots |->
                      IF k \in slots THEN "FREE" ELSE p.atpa[k]]]
        ELSE IF \/ p.atpa[i] \in {"FREE", "UNUSABLE"}
                \/ \E f \in Checked(pfn, order) : p.use[f] # "USED"
             THEN Panicked(p)
             ELSE ReturnTable([counted EXCEPT
                      !.use = [f \in Frames |-> IF f \in run THEN "FREE" ELSE p.use[f]],
                      !.hint[i] = HintSet(@, order)], i)

-----------------------------------------------------------------------------
(* The state StPmm_LateInit leaves: frames are free or unusable, slots with *)
(* both have a table, and each management pool has been seeded once.        *)

NoMeta == [order |-> 0, ref |-> 0, owner |-> NoOwner]

Mapped ==
    LET kind(i) == CASE TableFrames(i) \cap Holes = {} -> "FREE"
                     [] TableFrames(i) \subseteq Holes -> "UNUSABLE"
                     [] OTHER -> "TABLE"
    IN  [atpa |-> [i \in Slots |-> kind(i)],
         hint |-> [i \in Slots |-> IF kind(i) = "TABLE" THEN AllHints ELSE {}],
         src |-> [i \in Slots |-> Early],
         use |-> [f \in Frames |-> IF f \in Holes THEN "UNUSABLE" ELSE "FREE"],
         early |-> Cardinality({i \in Slots : kind(i) = "TABLE"}),
         dyn |-> <<>>,
         ext |-> {},
         free |-> Cardinality(Frames \ Holes),
         meta |-> [f \in Frames |-> NoMeta],
         panic |-> FALSE]

AddExtended(got) ==
    IF got.status = "success"
    THEN Result([got.pmm EXCEPT !.ext = @ \cup {got.pfn}], "success", NoFrame) ELSE got

topup_extentry_pool(p) == AddExtended(Allocate(p, OneFrame, NoOwner))

Seeded == topup_extentry_pool(topup_alloc_table_pool(Mapped).pmm).pmm

Init ==
    /\ pmm = Seeded
    /\ usage = [o \in Owners |-> 0]
    /\ closed = {}
    /\ held = [f \in Frames |-> 0]

-----------------------------------------------------------------------------
(* The operations.                                                         *)

\* What a call made now would do and return.
Answer(req, owner) ==
    LET check == CheckRequest(req, owner)
    IN  IF check = "go" THEN Allocate(pmm, req, owner)
        ELSE Result(pmm, check, NoFrame)

StPmm_AllocateContiguousFrame(req, owner) ==
    /\ ~pmm.panic
    /\ Cardinality({f \in Frames : held[f] > 0}) < MaxRuns
    /\ pmm.early <= MaxEarly
    /\ \E got \in {Answer(req, owner)} :
          /\ pmm' = got.pmm
          /\ held' = IF got.pfn = NoFrame THEN held ELSE [held EXCEPT ![got.pfn] = @ + 1]
          /\ usage' = IF got.pfn = NoFrame \/ owner = NoOwner THEN usage
                      ELSE [usage EXCEPT ![owner] = @ + 2^OrderOf(req)]
    /\ UNCHANGED closed

\* A client that holds a reference takes another one.
StPmm_AcquireContiguousFrame(pfn) ==
    /\ ~pmm.panic
    /\ held[pfn] \in 1 .. MaxRef - 1
    /\ pmm' = [pmm EXCEPT !.meta[pfn].ref = @ + 1]
    /\ held' = [held EXCEPT ![pfn] = @ + 1]
    /\ UNCHANGED <<usage, closed>>

\* What a release leaves of the charges.
Uncharge(meta) ==
    IF meta.ref # 1 \/ meta.owner = NoOwner THEN usage
    ELSE [usage EXCEPT ![meta.owner] = IF @ >= 2^meta.order THEN @ - 2^meta.order ELSE 0]

\* What a release does to the run.  The order left in the metadata of a freed
\* run is not read before the next create_metadata, so it is forgotten.
Release(p, pfn) ==
    CASE p.meta[pfn].ref = 0 -> Panicked(p)
      [] p.meta[pfn].ref = 1 ->
           do_free_contiguous_frame([p EXCEPT !.meta[pfn] = NoMeta], pfn, p.meta[pfn].order)
      [] OTHER -> [p EXCEPT !.meta[pfn].ref = @ - 1]

\* A client gives a reference back; the last one uncharges the owner and frees
\* the run.
StPmm_FreeContiguousFrame(pfn) ==
    /\ ~pmm.panic
    /\ held[pfn] > 0
    /\ held' = [held EXCEPT ![pfn] = @ - 1]
    /\ pmm' = Release(pmm, pfn)
    /\ usage' = Uncharge(pmm.meta[pfn])
    /\ UNCHANGED closed

\* The ref control block of the owner is marked dying.
StAllocationOwner_Close(owner) ==
    /\ ~pmm.panic
    /\ owner \notin closed
    /\ closed' = closed \cup {owner}
    /\ UNCHANGED <<pmm, usage, held>>

Next ==
    \/ \E req \in Requests, owner \in Owners \cup {NoOwner} :
          StPmm_AllocateContiguousFrame(req, owner)
    \/ \E pfn \in Frames : StPmm_AcquireContiguousFrame(pfn)
    \/ \E pfn \in Frames : StPmm_FreeContiguousFrame(pfn)
    \/ \E owner \in Owners : StAllocationOwner_Close(owner)

Spec == Init /\ [][Next]_vars

-----------------------------------------------------------------------------
(* Properties.                                                             *)

Run(f) == Block(f, pmm.meta[f].order)
HeldBases == {f \in Frames : held[f] > 0}
Dynamic == {pmm.dyn[k] : k \in 1 .. Len(pmm.dyn)}
TableSources == {pmm.src[i] : i \in {k \in Slots : pmm.atpa[k] = "TABLE"}} \ {Early}

\* The frames the manager took for itself.
Managed == Dynamic \cup TableSources \cup pmm.ext

InUse(f) == pmm.atpa[TableOf(f)] = "HUGE" \/ pmm.use[f] = "USED"

TypeOK ==
    /\ pmm.atpa \in [Slots -> {"FREE", "UNUSABLE", "HUGE", "TABLE"}]
    /\ \A i \in Slots : pmm.hint[i] \subseteq AllHints
    /\ pmm.src \in [Slots -> Frames \cup {Early}]
    /\ pmm.use \in [Frames -> {"FREE", "USED", "UNUSABLE"}]
    /\ pmm.early \in 0 .. EarlyTables
    /\ pmm.dyn \in Seq(Frames \cup {NoFrame})
    /\ pmm.ext \subseteq Frames
    /\ pmm.free \in Nat
    /\ pmm.meta \in [Frames -> [order : 0 .. MaxOrder, ref : 0 .. MaxRef,
                                owner : Owners \cup {NoOwner}]]
    /\ pmm.panic \in BOOLEAN
    /\ usage \in [Owners -> Nat]
    /\ closed \subseteq Owners
    /\ held \in [Frames -> 0 .. MaxRef]

\* No frame is handed out twice: the runs the clients hold are disjoint, none
\* holds a frame the manager keeps a table or extended entries in, those are
\* all different, and the metadata of a held run counts the clients' references.
NoDoubleAllocation ==
    /\ \A f, g \in HeldBases : f # g => Run(f) \cap Run(g) = {}
    /\ \A f \in HeldBases : Run(f) \cap Managed = {} /\ pmm.meta[f].ref = held[f]
    /\ Dynamic \cap TableSources = {} /\ Dynamic \cap pmm.ext = {}
    /\ Cardinality(Dynamic) = Len(pmm.dyn)

\* The bitmaps and flags mark exactly the frames somebody has: a frame no one
\* can give back is a leak, a frame that is had but not marked will be given
\* out again.
UsedIsOwned ==
    {f \in Frames : InUse(f)} = Managed \cup UNION {Run(f) : f \in HeldBases}

\* free_frames, which the memory pressure checks read, counts the usable
\* frames that are not in use.
FreeFramesExact == pmm.free = Cardinality({f \in Frames \ Holes : ~InUse(f)})

\* An owner is charged for exactly the runs allocated in its name that have
\* not been freed.
OwnerCharged ==
    \A o \in Owners : usage[o] =
        MapThenSumSet(LAMBDA f : 2^pmm.meta[f].order,
                                    {f \in HeldBases : pmm.meta[f].owner = o})

\* A table without a used or unusable frame has given its slot back, so that
\* a huge allocation can have it.
EmptyTableReturned ==
    \A i \in Slots : pmm.atpa[i] = "TABLE" => ~AllFree(pmm, TableFrames(i))

\* Freeing what was allocated, in any order, never panics.
NeverPanics == ~pmm.panic

\* The books balance after any allocations, retries, releases and closing of
\* owners: the maps, free_frames and the owners' charges all say the same.
AccountingExact == TypeOK /\ UsedIsOwned /\ FreeFramesExact /\ OwnerCharged

\* Freeing what was allocated, in any order, never panics, and returns the
\* slot of a table with its last frame.
FreeingSound == NeverPanics /\ EmptyTableReturned

=============================================================================
