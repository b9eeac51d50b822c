-------------------------------- MODULE Memory --------------------------------
(***************************************************************************)
(* One virtual range of Strata and everything the memory layer keeps about *)
(* it: the reservations of mm/vmm.c, the page table entries and tables of  *)
(* arch/amd64/pc/mm.c, the frame blocks taken from the physical allocator, *)
(* and the public operations of mm/mm.c that tie the three together.       *)
(*                                                                         *)
(* The range is a global domain of the kernel, used by several threads at  *)
(* once, or the user range of one process, used by one thread at a time    *)
(* (a process has one user stack, hence one user thread).  StVmm_ and      *)
(* StPmm_ calls are atomic (interrupts off, preemption locked); StMm_      *)
(* functions hold nothing between them, so each such call is a step.       *)
(***************************************************************************)
EXTENDS Integers, FiniteSets, FiniteSetsExt

CONSTANTS
    Threads,            \* threads that call the memory layer
    FirstPage,          \* base_vpn of the domain
    LastPage,           \* limit_vpn of the domain (inclusive)
    TablePages,         \* entries of one page table (512 in the code)
    NumFrames,          \* frames the physical allocator manages, 0..NumFrames-1
    NodeIds,            \* slots of the reservation node pool, 1..n
    LocalRequests,      \* the requests made in a user range
    GlobalRequests,     \* the requests made in a kernel domain
    MaxCommit,          \* longest range of one commit or protection change
    Anywhere,           \* "the VMM chooses the address"
    Frameless           \* "no frame" ((St_PhysFrame)-1)

\* What a caller may ask for; a count of 0 is refused before anything else.
Requests ==
    [how : {"reserve", "reserve_sparse", "map", "contiguous", "sparse", "image"},
     count : Nat \ {0}, at : Int \cup {Anywhere}, top : BOOLEAN, guard : BOOLEAN,
     grow : BOOLEAN, now : BOOLEAN]

ASSUME MemoryAssumption ==
    /\ FirstPage \in Nat /\ LastPage \in Nat /\ FirstPage <= LastPage
    /\ TablePages \in Nat \ {0} /\ NumFrames \in Nat /\ MaxCommit \in Nat
    /\ NodeIds \subseteq Nat
    /\ LocalRequests \cup GlobalRequests \subseteq Requests
    /\ Anywhere \notin Int /\ Frameless \notin Int

VARIABLES
    local,              \* TRUE: a process's user range; FALSE: a kernel domain
    node,               \* the reservation node in each slot
    free_count,         \* free_count / user_free_count
    pt,                 \* the page table entry of each page
    tables,             \* the page tables that exist
    blocks,             \* blocks the physical allocator has handed out
    op,                 \* the StMm_ call each thread is inside
    phase,              \* life of the process that owns a local range
    panicked            \* St_Panic was called

vars == <<local, node, free_count, pt, tables, blocks, op, phase, panicked>>

Pages == FirstPage..LastPage
Span(v, n) == v..(v + n - 1)
Table(p) == (p - FirstPage) \div TablePages

NoNode == [base |-> 0]
Live == {i \in NodeIds : node[i] # NoNode}
Empty == [st |-> "empty", pfn |-> Frameless]
Managed == [Empty EXCEPT !.st = "managed"]
Present(p) == pt[p].st = "present"

-------------------------------------------------------------------------------
(* The physical allocator: 2^order frames, aligned to their number, taken    *)
(* as one block whose metadata (the order) is found at its first frame.      *)

Pow2(n) == {2^k : k \in 0..n}
FramesOf(b) == Span(b.pfn, b.size)
FreeFrames == (0..(NumFrames - 1)) \ UNION {FramesOf(b) : b \in blocks}

\* The lowest free run of size frames that is aligned to its size, if any.
Runs(size) == {f \in FreeFrames : f % size = 0 /\ Span(f, size) \subseteq FreeFrames}
LowestBlock(size) ==
    {[pfn |-> f, size |-> size] : f \in {g \in Runs(size) : \A h \in Runs(size) : g <= h}}

\* The block an allocation of n frames gets: none when no aligned run is free.
BlockFor(n) == UNION {LowestBlock(size) : size \in Pow2(n) \cap n..(2 * n - 1)}

BlockAt(f) == {b \in blocks : b.pfn = f}

-------------------------------------------------------------------------------
(* mm/vmm.c: choosing a range, making and releasing a reservation.           *)

Guard(r) == IF r.guard THEN 1 ELSE 0
Total(r) == r.count + Guard(r)
Usable(i) == node[i].base + node[i].guard
UsableCount(i) == node[i].limit - Usable(i)

\* find_overlap: the reservation a page belongs to.
NodeAt(p) == {i \in Live : node[i].base <= p /\ p < node[i].limit}

\* validate_guard_map_flags and the checks of the image path.
ValidFlags(r) ==
    /\ r.grow => r.guard /\ local /\ ~r.now
    /\ r.how = "image" => local /\ r.at # Anywhere /\ ~r.now /\ ~r.grow

FreeRange(b, n) ==
    /\ FirstPage <= b /\ b + n - 1 <= LastPage
    /\ \A i \in Live : b + n <= node[i].base \/ node[i].limit <= b
RangeUnmapped(b, n) == \A p \in Span(b, n) : ~Present(p)

\* find_first_fit_from, retried one page up while the range found is mapped.
FirstFit(n) ==
    LET fits == {b \in Pages : FreeRange(b, n) /\ RangeUnmapped(b, n)}
    IN  IF fits = {} THEN {} ELSE {Min(fits)}

\* find_last_fit_before, retried below the range found while that is mapped.
LastFit(n) ==
    LET fits(top) == {b \in Pages : FreeRange(b, n) /\ b + n <= top}
        tried[top \in FirstPage..(LastPage + 1)] ==
            IF fits(top) = {} THEN {}
            ELSE {Max(fits(top))} \cup
                 IF RangeUnmapped(Max(fits(top)), n) THEN {} ELSE tried[Max(fits(top))]
    IN  {b \in fits(LastPage + 1) : b \in tried[LastPage + 1] /\ RangeUnmapped(b, n)}

Placement(r) ==
    IF r.at # Anywhere
    THEN {b \in {r.at - Guard(r)} : FreeRange(b, Total(r)) /\ RangeUnmapped(b, Total(r))}
    ELSE IF r.top THEN LastFit(Total(r)) ELSE FirstFit(Total(r))

\* create_reservation_node: the first slot that is not live.
Slot == IF Live = NodeIds THEN {} ELSE {Min(NodeIds \ Live)}

\* The mapping policy and the physical layout each entry point records; the
\* global allocators pass AF_VMM_RESERVATION_SPARSE the other way round.
Policy(r) ==
    IF r.how = "image" THEN "image"
    ELSE IF r.how = "sparse" /\ local /\ ~r.now THEN "zero" ELSE "physical"
SparseLayout(r) ==
    \/ r.how \in {"image", "reserve_sparse"}
    \/ r.how = "sparse" /\ local
    \/ r.how = "contiguous" /\ ~local

\* vpn and count are what the caller is given and will free with.
NodeFor(r, b) ==
    [base |-> b, limit |-> b + Total(r), guard |-> Guard(r), map |-> r.how = "map",
     sparse |-> SparseLayout(r), policy |-> Policy(r),
     guarded |-> r.guard, grow |-> r.grow,
     vpn |-> b + Guard(r), count |-> r.count]

\* Where and in which slot a reservation for r can be made now.
Places(r) ==
    IF phase # "open" \/ ~ValidFlags(r) \/ free_count < Total(r) THEN {}
    ELSE Placement(r) \X Slot
Reserve_UsableOnly(r, at) ==
    /\ node' = [node EXCEPT ![at[2]] = NodeFor(r, at[1])]
    /\ free_count' = free_count - r.count
Reserve(r, at) ==
    /\ node' = [node EXCEPT ![at[2]] = NodeFor(r, at[1])]
    /\ free_count' = free_count - Total(r)

\* find_exact_releasable: the reservation [v, v + n) names, with or without
\* its guard page.
Releasable(v, n) ==
    {i \in Live : node[i].limit = v + n /\ (node[i].base = v \/ Usable(i) = v)}
ReleasePages(v, n) ==
    \/ /\ Releasable(v, n) = {}
       /\ UNCHANGED <<node, free_count>>
    \/ \E i \in Releasable(v, n) :
          /\ node' = [node EXCEPT ![i] = NoNode]
          /\ free_count' = free_count + (node[i].limit - node[i].base)

-------------------------------------------------------------------------------
(* arch/amd64/pc/mm.c: page table entries.                                   *)

\* Where map_memory and set_managed_memory may stop in [v, v + n): at the first
\* page already present, or where a missing table cannot be allocated; v + n is
\* success.  The entries before the stop have been written.
Stops(v, n) ==
    LET present == {p \in Span(v, n) : Present(p)}
        last == IF present = {} THEN v + n ELSE Min(present)
        entered == {p \in Span(v, n) : p = v \/ Table(p) # Table(p - 1)}
    IN  {last} \cup {p \in entered : p < last /\ Table(p) \notin tables}

Entry(f) == [st |-> "present", pfn |-> f]
MapTo(v, stop, f) ==
    /\ pt' = [p \in Pages |-> IF p \in v..(stop - 1) THEN Entry(f + (p - v)) ELSE pt[p]]
    /\ tables' = tables \cup {Table(p) : p \in v..(stop - 1)}

\* set_managed_memory: entry by entry, taken back when it stops early; the
\* tables it made stay.
SetManaged(v, n, stop) ==
    /\ pt' = IF stop = v + n
             THEN [p \in Pages |-> IF p \in Span(v, n) THEN Managed ELSE pt[p]] ELSE pt
    /\ tables' = tables \cup {Table(p) : p \in v..(stop - 1)}

\* unmap_memory, and clear_managed_memory.
Unmapped(pages) == [p \in Pages |-> IF p \in pages THEN Empty ELSE pt[p]]
Unmanaged(pages) ==
    [p \in Pages |-> IF p \in pages /\ pt[p] = Managed THEN Empty ELSE pt[p]]

-------------------------------------------------------------------------------
(* mm/mm.c: the public operations.                                           *)

Idle == [st |-> "idle"]
AllIdle == \A t \in Threads : op[t] = Idle
Ready(t) ==
    /\ op[t] = Idle /\ phase = "open" /\ ~panicked
    /\ local => AllIdle
Busy(i) == \E t \in Threads : op[t].st \notin {"idle", "reserve"} /\ op[t].id = i

\* A call that works on [v, v + n) of reservation i, from stage st.
Call(st, fam, i, v, n) ==
    [st |-> st, fam |-> fam, id |-> i, vpn |-> v, count |-> n, done |-> 0,
     pfn |-> Frameless, n |-> n]
Stage(t, st) == op' = [op EXCEPT ![t].st = st]
Return(t) == op' = [op EXCEPT ![t] = Idle]

\* StMm_Reserve{Global,Local}{Contiguous,Sparse}, and with an address.
MakeReservation(r) ==
    /\ \E at \in Places(r) : Reserve(r, at)
    /\ UNCHANGED <<local, pt, tables, blocks, op, phase, panicked>>
ReserveRange(t, r) ==
    /\ Ready(t) /\ r.how \in {"reserve", "reserve_sparse"} /\ r.at = Anywhere
    /\ MakeReservation(r)
ReserveRangeTo(t, r) ==
    /\ Ready(t) /\ r.how \in {"reserve", "reserve_sparse"} /\ r.at # Anywhere
    /\ MakeReservation(r)

\* StMm_Map{Global,Local}, and with an address: the caller's frames lie beyond
\* the allocator's.
ReserveToMap(t, r) ==
    /\ \E at \in Places(r) :
          /\ Reserve(r, at)
          /\ op' = [op EXCEPT ![t] = [Call("map", "map", at[2], at[1] + Guard(r), r.count)
                                        EXCEPT !.pfn = NumFrames]]
    /\ UNCHANGED <<local, pt, tables, blocks, phase, panicked>>
MapRange(t, r) == Ready(t) /\ r.how = "map" /\ r.at = Anywhere /\ ReserveToMap(t, r)
MapRangeTo(t, r) == Ready(t) /\ r.how = "map" /\ r.at # Anywhere /\ ReserveToMap(t, r)

\* StMm_Allocate{Global,Local}Contiguous: frames first, then the range; the
\* forms with an address are the same.
FramesFirst(t, r) ==
    /\ \E b \in BlockFor(r.count) :
          /\ blocks' = blocks \cup {b}
          /\ op' = [op EXCEPT ![t] = [st |-> "reserve", req |-> r, pfn |-> b.pfn]]
    /\ UNCHANGED <<local, node, free_count, pt, tables, phase, panicked>>

AllocateContiguous(t, r) ==
    Ready(t) /\ r.how = "contiguous" /\ r.at = Anywhere /\ FramesFirst(t, r)
AllocateContiguousTo(t, r) ==
    Ready(t) /\ r.how = "contiguous" /\ r.at # Anywhere /\ FramesFirst(t, r)

ReserveForFrames(t) ==
    /\ op[t].st = "reserve"
    /\ \E r \in {op[t].req} :
          \/ \E at \in Places(r) :
                /\ Reserve(r, at)
                /\ op' = [op EXCEPT ![t] =
                            [Call("map", "contiguous", at[2], at[1] + Guard(r), r.count)
                               EXCEPT !.pfn = op[t].pfn]]
                /\ UNCHANGED blocks
          \/ /\ Places(r) = {}
             /\ blocks' = blocks \ BlockAt(op[t].pfn)
             /\ Return(t)
             /\ UNCHANGED <<node, free_count>>
    /\ UNCHANGED <<local, pt, tables, phase, panicked>>

\* Sparse allocations: without MF_IMMEDIATE a user range is reserved and its
\* entries are marked as managed; otherwise reserve, then map batch by batch.
Lazily(r) ==
    /\ \E at \in Places(r) : \E v \in {at[1] + Guard(r)} : \E stop \in Stops(v, r.count) :
          /\ SetManaged(v, r.count, stop)
          /\ IF stop = v + r.count THEN Reserve(r, at) ELSE UNCHANGED <<node, free_count>>
    /\ UNCHANGED <<local, blocks, op, phase, panicked>>
InBatches(t, r) ==
    /\ \E at \in Places(r) :
          /\ Reserve(r, at)
          /\ op' = [op EXCEPT ![t] = Call("batch", "sparse", at[2], at[1] + Guard(r), r.count)]
    /\ UNCHANGED <<local, pt, tables, blocks, phase, panicked>>

\* StMm_Allocate{Global,Local}Sparse, and with an address.
AllocateGlobalSparse(t, r) ==
    Ready(t) /\ ~local /\ r.how = "sparse" /\ r.at = Anywhere /\ InBatches(t, r)
AllocateLocalSparse(t, r) ==
    /\ Ready(t) /\ local /\ r.how = "sparse" /\ r.at = Anywhere
    /\ \/ r.now /\ InBatches(t, r)
       \/ ~r.now /\ Lazily(r)
AllocateGlobalSparseTo(t, r) ==
    Ready(t) /\ ~local /\ r.how = "sparse" /\ r.at # Anywhere /\ InBatches(t, r)
AllocateLocalSparseTo(t, r) ==
    /\ Ready(t) /\ local /\ r.how = "sparse" /\ r.at # Anywhere
    /\ \/ r.now /\ InBatches(t, r)
       \/ ~r.now /\ Lazily(r)

\* StMm_AllocateLocalImageTo: pages of a program file, read when first touched.
AllocateLocalImageTo(t, r) == Ready(t) /\ local /\ r.how = "image" /\ Lazily(r)

\* StMm_Commit{Global,Local}: back [v, v + n) of a reservation.
ValidCommit(i, v, n) ==
    /\ i \in Live /\ Usable(i) <= v /\ v + n <= node[i].limit
    /\ ~node[i].map /\ node[i].policy = "physical"
CommitContiguous(t, i, v, n) ==
    /\ ~node[i].sparse /\ RangeUnmapped(v, n)
    /\ \E b \in BlockFor(n) :
          /\ blocks' = blocks \cup {b}
          /\ op' = [op EXCEPT ![t] = [Call("map", "commit_run", i, v, n) EXCEPT !.pfn = b.pfn]]
CommitSparse(t, i, v, n) ==
    /\ node[i].sparse
    /\ op' = [op EXCEPT ![t] = Call("batch", "commit", i, v, n)]
    /\ UNCHANGED blocks
Commit(t, i, v, n) ==
    /\ Ready(t) /\ ValidCommit(i, v, n) /\ ~Busy(i)
    /\ CommitContiguous(t, i, v, n) \/ CommitSparse(t, i, v, n)
    /\ UNCHANGED <<local, node, free_count, pt, tables, phase, panicked>>

\* One turn of the sparse loop: the pages must be absent; the largest power of
\* two of frames that fits, halved until the allocator has one.
FloorPow2(n) == Max(Pow2(n) \cap 1..n)
BatchBlock(left) ==
    LET ready == {n \in Pow2(left) \cap 1..left : LowestBlock(n) # {}}
    IN  UNION {LowestBlock(n) : n \in {m \in ready : \A k \in ready : k <= m}}
AllocateBatch(t) ==
    /\ op[t].st = "batch"
    /\ \E v \in {op[t].vpn + op[t].done}, left \in {op[t].count - op[t].done} :
          \/ /\ RangeUnmapped(v, FloorPow2(left))
             /\ \E b \in BatchBlock(left) :
                   /\ blocks' = blocks \cup {b}
                   /\ op' = [op EXCEPT ![t].st = "map", ![t].pfn = b.pfn, ![t].n = b.size]
          \/ /\ ~RangeUnmapped(v, FloorPow2(left)) \/ BatchBlock(left) = {}
             /\ Stage(t, "rollback")
             /\ UNCHANGED blocks
    /\ UNCHANGED <<local, node, free_count, pt, tables, phase, panicked>>

\* StMmP_Map{Global,Local}ContiguousMemory and what each caller does next.
MapMemory(t) ==
    /\ op[t].st = "map"
    /\ \E c \in {op[t]} : \E v \in {c.vpn + c.done} : \E stop \in Stops(v, c.n) :
          /\ MapTo(v, stop, c.pfn)
          /\ \/ /\ stop = v + c.n
                /\ UNCHANGED blocks
                /\ op' = [op EXCEPT ![t] = IF c.done + c.n = c.count THEN Idle
                                           ELSE [c EXCEPT !.st = "batch", !.done = @ + c.n,
                                                          !.pfn = Frameless]]
             \/ /\ stop < v + c.n /\ c.fam \in {"sparse", "commit", "commit_run"}
                /\ blocks' = blocks \ BlockAt(c.pfn)
                /\ op' = [op EXCEPT ![t] = IF c.fam = "commit_run" THEN Idle
                                           ELSE [c EXCEPT !.st = "rollback",
                                                          !.pfn = Frameless]]
             \/ /\ stop < v + c.n /\ c.fam \in {"map", "contiguous"}
                /\ UNCHANGED blocks
                /\ Stage(t, "release")
    /\ UNCHANGED <<local, node, free_count, phase, panicked>>

\* The error path of the sparse loops: frames, then entries, then the range
\* (a commit keeps its range).
RollbackFrames(t) ==
    /\ op[t].st = "rollback"
    /\ blocks' = blocks \ UNION {BlockAt(pt[p].pfn) : p \in Span(op[t].vpn, op[t].done)}
    /\ Stage(t, "rollback_unmap")
    /\ UNCHANGED <<local, node, free_count, pt, tables, phase, panicked>>

RollbackUnmap(t) ==
    /\ op[t].st = "rollback_unmap"
    /\ pt' = Unmapped(Span(op[t].vpn, op[t].done))
    /\ IF op[t].fam = "commit" THEN Return(t) ELSE Stage(t, "release")
    /\ UNCHANGED <<local, node, free_count, tables, blocks, phase, panicked>>

\* StVmm_Release{Global,Local}Page at the end of an error path, Free or Unmap.
Release(t) ==
    /\ op[t].st = "release"
    /\ ReleasePages(op[t].vpn, op[t].count)
    /\ IF op[t].fam = "contiguous" THEN Stage(t, "unframe") ELSE Return(t)
    /\ UNCHANGED <<local, pt, tables, blocks, phase, panicked>>

ReleaseFrames(t) ==
    /\ op[t].st = "unframe"
    /\ blocks' = blocks \ BlockAt(op[t].pfn)
    /\ Return(t)
    /\ UNCHANGED <<local, node, free_count, pt, tables, phase, panicked>>

\* What StMm_Free{Global,Local}(v, n) walks: a guarded local reservation whole.
FreeCall(i, v, n) ==
    IF local /\ node[i].guarded
    THEN Call("free", "free", i, node[i].base, node[i].limit - node[i].base)
    ELSE Call("free", "free", i, v, n)

Free(t, i) ==
    /\ Ready(t) /\ i \in Live /\ ~Busy(i) /\ ~node[i].map
    /\ op' = [op EXCEPT ![t] = FreeCall(i, node[i].vpn, node[i].count)]
    /\ UNCHANGED <<local, node, free_count, pt, tables, blocks, phase, panicked>>

FreeFrame(t) ==
    /\ op[t].st = "free" /\ op[t].done < op[t].count
    /\ \E p \in {op[t].vpn + op[t].done} :
          \/ /\ ~Present(p)
             /\ op' = [op EXCEPT ![t].done = @ + 1]
             /\ UNCHANGED <<blocks, panicked>>
          \/ /\ Present(p)
             /\ blocks' = blocks \ BlockAt(pt[p].pfn)
             /\ panicked' = (BlockAt(pt[p].pfn) = {})
             /\ op' = [op EXCEPT ![t].st = "unmap",
                         ![t].n = Min({op[t].count - op[t].done} \cup
                                     {b.size : b \in BlockAt(pt[p].pfn)})]
    /\ UNCHANGED <<local, node, free_count, pt, tables, phase>>

FreeUnmap(t) ==
    /\ op[t].st = "unmap"
    /\ \E span \in {Span(op[t].vpn + op[t].done, op[t].n)} :
          /\ pt' = Unmapped(span)
          /\ panicked' = (\E p \in span : ~Present(p))
    /\ op' = [op EXCEPT ![t].st = "free", ![t].done = @ + op[t].n]
    /\ UNCHANGED <<local, node, free_count, tables, blocks, phase>>

FreeRest_KeepsManaged(t) ==
    /\ op[t].st = "free" /\ op[t].done = op[t].count
    /\ Stage(t, "release")
    /\ UNCHANGED <<local, node, free_count, pt, tables, blocks, phase, panicked>>
FreeRest(t) ==
    /\ op[t].st = "free" /\ op[t].done = op[t].count
    /\ pt' = IF local THEN Unmanaged(Span(op[t].vpn, op[t].count)) ELSE pt
    /\ Stage(t, "release")
    /\ UNCHANGED <<local, node, free_count, tables, blocks, phase, panicked>>

\* StMm_Unmap{Global,Local}: the entries, then the range.
UnmapCall(t, i) ==
    /\ \E span \in {Span(Usable(i), UsableCount(i))} :
          /\ pt' = Unmapped(span)
          /\ panicked' = (\E p \in span : ~Present(p))
    /\ op' = [op EXCEPT ![t] = Call("release", "unmap", i, Usable(i), UsableCount(i))]
Unmap(t, i) ==
    /\ Ready(t) /\ i \in Live /\ ~Busy(i) /\ node[i].map
    /\ UnmapCall(t, i)
    /\ UNCHANGED <<local, node, free_count, tables, blocks, phase>>

-------------------------------------------------------------------------------
(* Page faults, protection changes and the end of a process: local only.     *)

\* StVmm_ResolveLocalPage on the guard page of a grow-down reservation.
CanGrow(i, p) ==
    /\ node[i].guard = 1 /\ p = Usable(i) - 1
    /\ node[i].grow /\ node[i].policy = "zero"
    /\ node[i].base # FirstPage /\ free_count # 0
    /\ \A j \in Live \ {i} : node[j].limit <= node[i].base - 1 \/ node[j].base > node[i].base
    /\ ~Present(node[i].base - 1)

\* StMm_HandlePageFault (an interrupt gate: nothing runs between its calls).
Fault(p) ==
    /\ local /\ AllIdle /\ phase = "open" /\ ~panicked
    /\ \E i \in NodeAt(p) :
          /\ \/ p >= Usable(i) /\ UNCHANGED <<node, free_count>>
             \/ /\ CanGrow(i, p)
                /\ node' = [node EXCEPT ![i].base = @ - 1]
                /\ free_count' = free_count - 1
          /\ node[i].policy \in {"zero", "image"}
          /\ \/ /\ Present(p) \/ BlockFor(1) = {}
                /\ UNCHANGED <<pt, tables, blocks>>
             \/ /\ ~Present(p)
                /\ \E b \in BlockFor(1), stop \in Stops(p, 1) :
                      /\ MapTo(p, stop, b.pfn)
                      /\ blocks' = IF stop = p THEN blocks ELSE blocks \cup {b}
    /\ UNCHANGED <<local, op, phase, panicked>>

\* StVmm_SetLocalPageReservationMapFlags: every reservation from v up to the
\* first page that is free or a guard page takes the new flags whole; these
\* never hold MF_GUARD.
Protect(v, n) ==
    /\ v + n - 1 <= LastPage
    /\ local /\ AllIdle /\ phase = "open" /\ ~panicked
    /\ LET stray(p) == \A i \in NodeAt(p) : p < Usable(i)
           reached == {p \in Span(v, n) : \A q \in v..p : ~stray(q)}
           touched == UNION {NodeAt(p) : p \in reached}
       IN  node' = [i \in NodeIds |-> IF i \in touched
                                      THEN [node[i] EXCEPT !.guarded = FALSE, !.grow = FALSE]
                                      ELSE node[i]]
    /\ UNCHANGED <<local, free_count, pt, tables, blocks, op, phase, panicked>>

\* StAllocationOwner_Close: every reservation of the owner is freed or unmapped
\* by its usable range; then StAddressSpace_Remove drops the tables.
Close ==
    /\ local /\ AllIdle /\ phase = "open" /\ ~panicked
    /\ phase' = "closing"
    /\ UNCHANGED <<local, node, free_count, pt, tables, blocks, op, panicked>>

CloseNext(t) ==
    /\ phase = "closing" /\ AllIdle /\ ~panicked /\ Live # {}
    /\ \E i \in {Min(Live)} :
          \/ /\ ~node[i].map
             /\ op' = [op EXCEPT ![t] = FreeCall(i, Usable(i), UsableCount(i))]
             /\ UNCHANGED <<pt, panicked>>
          \/ node[i].map /\ UnmapCall(t, i)
    /\ UNCHANGED <<local, node, free_count, tables, blocks, phase>>

RemoveSpace ==
    /\ phase = "closing" /\ AllIdle /\ Live = {}
    /\ phase' = "removed"
    /\ tables' = {}
    /\ UNCHANGED <<local, node, free_count, pt, blocks, op, panicked>>

\* StAddressSpace_Create for the next process.
CreateSpace ==
    /\ phase = "removed"
    /\ phase' = "open"
    /\ pt' = [p \in Pages |-> Empty]
    /\ node' = [i \in NodeIds |-> NoNode]
    /\ free_count' = Cardinality(Pages)
    /\ UNCHANGED <<local, tables, blocks, op, panicked>>

Init ==
    /\ local \in BOOLEAN
    /\ node = [i \in NodeIds |-> NoNode]
    /\ free_count = Cardinality(Pages)
    /\ pt = [p \in Pages |-> Empty]
    /\ tables = {} /\ blocks = {}
    /\ op = [t \in Threads |-> Idle]
    /\ phase = "open" /\ panicked = FALSE

Start(t) ==
    \/ \E r \in IF local THEN LocalRequests ELSE GlobalRequests :
          \/ ReserveRange(t, r) \/ ReserveRangeTo(t, r)
          \/ MapRange(t, r) \/ MapRangeTo(t, r)
          \/ AllocateContiguous(t, r) \/ AllocateContiguousTo(t, r)
          \/ AllocateGlobalSparse(t, r) \/ AllocateGlobalSparseTo(t, r)
          \/ AllocateLocalSparse(t, r) \/ AllocateLocalSparseTo(t, r)
          \/ AllocateLocalImageTo(t, r)
    \/ \E i \in NodeIds :
          \/ Free(t, i) \/ Unmap(t, i)
          \/ \E v \in Pages, n \in 1..MaxCommit : Commit(t, i, v, n)

Step(t) ==
    \/ ReserveForFrames(t) \/ AllocateBatch(t) \/ MapMemory(t)
    \/ RollbackFrames(t) \/ RollbackUnmap(t) \/ Release(t) \/ ReleaseFrames(t)
    \/ FreeFrame(t) \/ FreeUnmap(t) \/ FreeRest(t)

Next ==
    \/ \E t \in Threads : Start(t) \/ Step(t) \/ CloseNext(t)
    \/ \E p \in Pages : Fault(p) \/ \E n \in 1..MaxCommit : Protect(p, n)
    \/ Close \/ RemoveSpace \/ CreateSpace

Spec == Init /\ [][Next]_vars

-------------------------------------------------------------------------------
Entries == {Empty, Managed} \cup
           [st : {"present"}, pfn : 0..(NumFrames + LastPage - FirstPage)]

\* The shape of the state: slots, entries, tables, blocks and calls.
TypeOK ==
    /\ local \in BOOLEAN /\ panicked \in BOOLEAN
    /\ phase \in {"open", "closing", "removed"}
    /\ free_count \in 0..Cardinality(Pages)
    /\ \A p \in Pages : pt[p] \in Entries
    /\ \A i \in Live : node[i].guard \in 0..1 /\ {node[i].base, node[i].limit - 1} \subseteq Pages
    /\ tables \subseteq {Table(p) : p \in Pages}
    /\ \A b \in blocks : FramesOf(b) \subseteq 0..(NumFrames - 1)
    /\ \A t \in Threads : op[t] # Idle => op[t].pfn \in 0..NumFrames \cup {Frameless}

\* Pages whose frames a free or a rollback has given back and whose entries it
\* is about to clear.
Unmapping ==
    UNION {CASE op[t].st = "unmap" -> Span(op[t].vpn + op[t].done, op[t].n)
             [] op[t].st = "rollback_unmap" -> Span(op[t].vpn, op[t].done)
             [] OTHER -> {} : t \in Threads}

\* Reservations never overlap, guard pages and growth included, each keeps at
\* least one usable page, and the domain's free counter is what they leave.
RangesExact ==
    /\ TypeOK
    /\ \A i, j \in Live : i # j => node[i].limit <= node[j].base \/ node[j].limit <= node[i].base
    /\ \A i \in Live : Usable(i) < node[i].limit
    /\ free_count = Cardinality(Pages) - Cardinality({p \in Pages : NodeAt(p) # {}})

\* A page is mapped, or marked for demand paging, only while it is a usable
\* page of a live reservation: never a guard page, never a page given back.
MappedInside ==
    \A p \in Pages : pt[p] # Empty => \E i \in NodeAt(p) : Usable(i) <= p

\* Every mapped page shows a frame that is still allocated (or the caller's
\* own, for Map), and no two pages show the same frame, but for entries about
\* to be cleared.
FramesExclusive ==
    \A p \in Pages \ Unmapping : Present(p) =>
        /\ pt[p].pfn < NumFrames => \E b \in blocks : pt[p].pfn \in FramesOf(b)
        /\ pt[p].pfn < NumFrames =>
              \A q \in Pages \ Unmapping : Present(q) /\ pt[q].pfn = pt[p].pfn => p = q
        /\ pt[p].pfn >= NumFrames <=> \E i \in NodeAt(p) : node[i].map

\* No block of frames is lost: its first frame is mapped, where Free will find
\* it, or a call in progress still holds it.
NoFrameLost ==
    \A b \in blocks :
        \/ \E p \in Pages \ Unmapping : Present(p) /\ pt[p].pfn = b.pfn
        \/ \E t \in Threads : op[t] # Idle /\ op[t].pfn = b.pfn

\* A call about to give its range back names a live reservation: the VMM's
\* "node not found" is never logged, unless a protection change has dropped the
\* guard flag of a stack that had grown.
ReleaseFinds ==
    \A t \in Threads : op[t].st = "release" =>
        \/ Releasable(op[t].vpn, op[t].count) = {op[t].id}
        \/ \E i \in {op[t].id} : /\ node[i].guard = 1 /\ ~node[i].guarded
                               /\ node[i].base + 1 < node[i].vpn

\* Neither Free nor Unmap meets a page state it panics on.
NoPanic == ~panicked

\* When a process's address space goes, all its frames are back and no entry
\* of its tables is in use.
TeardownComplete ==
    phase = "removed" => blocks = {} /\ \A p \in Pages : pt[p] = Empty



===============================================================================
