---------------------------------- MODULE Vmm ---------------------------------
(* The reservation lists of mm/vmm.c: the nodes of all domains come from one  *)
(* pool (an early array, then slabs of a frame each), hang in a doubly linked *)
(* list per domain sorted by address, and those of a process hang in a second *)
(* list at its allocation owner.  Every StVmm_ function runs with preemption  *)
(* locked and interrupts off, so each is one step.                            *)
EXTENDS Integers, FiniteSets, FiniteSetsExt, Sequences

CONSTANTS
    VmmDomains,     \* the reservation lists, Local among them
    Local,          \* the list of the one process whose owner is modelled
    BaseVpn,        \* BaseVpn[d]: first page of the domain
    LimitVpn,       \* LimitVpn[d]: its last page
    Premapped,      \* Premapped[d]: pages mapped without a reservation (kernel image)
    EarlyCount,     \* EARLY_RESERVATION_NODE_POOL_COUNT
    SlabNodes,      \* nodes in a slab of one frame
    MaxSlabs,       \* DYNAMIC_RESERVATION_NODE_MAX_SLABS
    NodeWatermark,  \* DYNAMIC_RESERVATION_NODE_LOW_WATERMARK
    VmmRequests,    \* what callers ask for: [d, at, count, guard, grow], at is Up, Down or a page
    Up, Down,       \* anywhere, searched from below or (AF_VMM_ALLOC_TOPDOWN) from above
    Nil

VARIABLE
    vmm,      \* node, head, free_count, early_used, freelist, dyn_free, slabs, first, last
    closed    \* the owner of Local is closed

vmmVars == <<vmm, closed>>

PagesOf(d) == BaseVpn[d] .. LimitVpn[d]
NodeIds == 1 .. EarlyCount + MaxSlabs * SlabNodes
Dynamic(n) == n > EarlyCount
SlabOf(s) == EarlyCount + (s - 1) * SlabNodes + 1 .. EarlyCount + s * SlabNodes

\* A node as memset leaves it.
Blank == [live |-> FALSE, base |-> 0, limit |-> 0, guard |-> 0, grow |-> FALSE, owned |-> FALSE,
          next |-> Nil, prev |-> Nil, onext |-> Nil, oprev |-> Nil]

-------------------------------------------------------------------------------
(* The node pool.                                                             *)

push_dynamic_reservation_node(v, n) ==
    [v EXCEPT !.node[n].next = v.freelist, !.freelist = n, !.dyn_free = @ + 1]

\* The free list of a fresh slab: every node is pushed in address order.
PushSlab(v, s) ==
    LET pushed[n \in EarlyCount .. EarlyCount + MaxSlabs * SlabNodes] ==
            IF n < Min(SlabOf(s)) THEN v ELSE push_dynamic_reservation_node(pushed[n - 1], n)
    IN  pushed[Max(SlabOf(s))]

\* `frame' says whether the physical allocator has a frame for the slab.
topup_dynamic_reservation_node_pool(v, frame) ==
    IF v.slabs >= MaxSlabs \/ ~frame THEN v
    ELSE [PushSlab(v, v.slabs + 1) EXCEPT !.slabs = @ + 1]

maybe_topup_dynamic_reservation_node_pool(v, frame) ==
    IF v.dyn_free > NodeWatermark THEN v ELSE topup_dynamic_reservation_node_pool(v, frame)

TopUpIfEmpty(v, frame) ==
    IF v.dyn_free = 0 THEN topup_dynamic_reservation_node_pool(v, frame) ELSE v

pop_dynamic_reservation_node(v) ==
    IF v.freelist = Nil THEN [v |-> v, n |-> Nil]
    ELSE [v |-> [v EXCEPT !.freelist = v.node[v.freelist].next, !.dyn_free = @ - 1,
                          !.node[v.freelist] = Blank],
          n |-> v.freelist]

DeadEarly(v) == {i \in 1 .. v.early_used : ~v.node[i].live}

create_reservation_node(v, frame) ==
    CASE DeadEarly(v) # {} ->
           [v |-> [v EXCEPT !.node[Min(DeadEarly(v))] = Blank], n |-> Min(DeadEarly(v))]
      [] DeadEarly(v) = {} /\ v.early_used < EarlyCount ->
           [v |-> [v EXCEPT !.early_used = @ + 1, !.node[v.early_used + 1] = Blank],
            n |-> v.early_used + 1]
      [] OTHER ->
           pop_dynamic_reservation_node(
               TopUpIfEmpty(maybe_topup_dynamic_reservation_node_pool(v, frame), frame))

\* What a dead node still says is cleared before it is used again; the model
\* clears it at once.
release_reservation_node(v, n) ==
    LET dead == [v EXCEPT !.node[n] = Blank]
    IN  IF Dynamic(n) THEN push_dynamic_reservation_node(dead, n) ELSE dead

-------------------------------------------------------------------------------
(* The list of a domain.                                                      *)

\* The nodes met from `from' along domain_next, at most as many as there are.
Walk(v, from) ==
    LET at[k \in 0 .. Cardinality(NodeIds)] ==
            IF k = 0 THEN from ELSE IF at[k - 1] = Nil THEN Nil ELSE v.node[at[k - 1]].next
        met == {k \in DOMAIN at : at[k] # Nil}
    IN  [k \in 1 .. Cardinality(met) |-> at[k - 1]]

List(v, d) == Walk(v, v.head[d])

validate_domain_list(v, s) ==
    /\ Len(s) <= v.early_used + v.slabs * SlabNodes
    /\ \A k \in DOMAIN s :
          /\ v.node[s[k]].live
          /\ v.node[s[k]].prev = IF k = 1 THEN Nil ELSE s[k - 1]
          /\ v.node[s[k]].base < v.node[s[k]].limit
          /\ k > 1 => v.node[s[k - 1]].base < v.node[s[k]].base

find_overlap(v, s, b, n) ==
    LET hits == {k \in DOMAIN s : /\ \A j \in 1 .. k : v.node[s[j]].base < b + n
                                  /\ b < v.node[s[k]].limit}
    IN  IF hits = {} THEN Nil ELSE s[Min(hits)]

Usable(v, n) == v.node[n].base + v.node[n].guard

find_exact_releasable(v, s, b, n) ==
    LET hits == {k \in DOMAIN s : /\ v.node[s[k]].limit = b + n
                                  /\ v.node[s[k]].base = b \/ Usable(v, s[k]) = b}
    IN  IF hits = {} THEN Nil ELSE s[Min(hits)]

\* Before the first node with a higher base.
insert_domain_node_sorted(v, s, d, n) ==
    LET below == {k \in DOMAIN s : v.node[s[k]].base < v.node[n].base}
        prev == IF below = {} THEN Nil ELSE s[Max(below)]
        curr == IF Cardinality(below) = Len(s) THEN Nil ELSE s[Cardinality(below) + 1]
    IN  [v EXCEPT !.node = [i \in NodeIds |->
                CASE i = n -> [v.node[n] EXCEPT !.prev = prev, !.next = curr]
                  [] i # n /\ i = prev -> [v.node[i] EXCEPT !.next = n]
                  [] i # n /\ i = curr -> [v.node[i] EXCEPT !.prev = n]
                  [] OTHER -> v.node[i]],
                  !.head[d] = IF prev = Nil THEN n ELSE @]

remove_domain_node(v, d, n) ==
    LET prev == v.node[n].prev
        next == v.node[n].next
    IN  [v EXCEPT !.node = [i \in NodeIds |->
                CASE i = n -> [v.node[n] EXCEPT !.prev = Nil, !.next = Nil]
                  [] i # n /\ i = prev -> [v.node[i] EXCEPT !.next = next]
                  [] i # n /\ i = next -> [v.node[i] EXCEPT !.prev = prev]
                  [] OTHER -> v.node[i]],
                  !.head[d] = IF prev = Nil /\ @ = n THEN next ELSE @]

-------------------------------------------------------------------------------
(* The list of an allocation owner; global reservations have no owner.        *)

attach_owner_node(v, n) ==
    [v EXCEPT !.node = [i \in NodeIds |->
            CASE i = n -> [v.node[n] EXCEPT !.owned = TRUE, !.oprev = v.last, !.onext = Nil]
              [] i # n /\ i = v.last -> [v.node[i] EXCEPT !.onext = n]
              [] OTHER -> v.node[i]],
              !.first = IF v.last = Nil THEN n ELSE @, !.last = n]

detach_owner_node_HeadOnly(v, n) ==
    IF ~v.node[n].owned THEN v
    ELSE [v EXCEPT !.node[n] = [@ EXCEPT !.owned = FALSE, !.oprev = Nil, !.onext = Nil],
                   !.first = IF @ = n THEN v.node[n].onext ELSE @,
                   !.last = IF v.node[n].onext = Nil THEN v.node[n].oprev ELSE @]

detach_owner_node(v, n) ==
    LET prev == v.node[n].oprev
        next == v.node[n].onext
    IN  IF ~v.node[n].owned THEN v
        ELSE [v EXCEPT !.node = [i \in NodeIds |->
                CASE i = n -> [v.node[n] EXCEPT !.owned = FALSE, !.oprev = Nil, !.onext = Nil]
                  [] i # n /\ i = prev -> [v.node[i] EXCEPT !.onext = next]
                  [] i # n /\ i = next -> [v.node[i] EXCEPT !.oprev = prev]
                  [] OTHER -> v.node[i]],
                  !.first = IF prev = Nil THEN next ELSE @,
                  !.last = IF next = Nil THEN prev ELSE @]

-------------------------------------------------------------------------------
(* The searches.                                                              *)

\* gap k lies before the k-th node, the last one before the end of the domain;
\* it starts at the highest limit met so far, or at `start'.
GapStart(v, s, start) ==
    LET lo[k \in 1 .. Len(s) + 1] ==
            IF k = 1 THEN start ELSE Max({lo[k - 1], v.node[s[k - 1]].limit})
    IN  lo

GapEnd_OnePast(v, s, d, k) == IF k > Len(s) THEN LimitVpn[d] + 2 ELSE v.node[s[k]].base

GapEnd(v, s, d, k) == IF k > Len(s) THEN LimitVpn[d] + 1 ELSE v.node[s[k]].base

find_first_fit_from(v, s, d, n, start) ==
    LET lo == GapStart(v, s, Max({BaseVpn[d], start}))
        fits == {k \in DOMAIN lo : GapEnd(v, s, d, k) - lo[k] >= n}
    IN  IF fits = {} THEN Nil ELSE lo[Min(fits)]

find_last_fit_before(v, s, d, n, limit) ==
    LET lo == GapStart(v, s, BaseVpn[d])
        hi(k) == Min({GapEnd(v, s, d, k), limit})
        fits == {k \in DOMAIN lo : hi(k) - lo[k] >= n}
    IN  IF fits = {} THEN Nil ELSE hi(Max(fits)) - n

\* Pages are mapped where the boot loader put them or in somebody's
\* reservation; in between nothing is (Memory.tla, MappedInside).
RangeUnmapped(d, b, n) == b .. b + n - 1 \cap Premapped[d] = {}

\* The retry loops of the two Reserve functions.
SearchUp(v, s, d, n) ==
    LET from[start \in BaseVpn[d] .. LimitVpn[d] + 1] ==
            LET c == find_first_fit_from(v, s, d, n, start)
            IN  IF c = Nil \/ RangeUnmapped(d, c, n) THEN c
                ELSE IF c >= LimitVpn[d] THEN Nil ELSE from[c + 1]
    IN  from[BaseVpn[d]]

SearchDown(v, s, d, n) ==
    LET before[limit \in BaseVpn[d] .. LimitVpn[d] + 1] ==
            LET c == find_last_fit_before(v, s, d, n, limit)
            IN  IF c = Nil \/ RangeUnmapped(d, c, n) THEN c
                ELSE IF c <= BaseVpn[d] THEN Nil ELSE before[c]
    IN  before[LimitVpn[d] + 1]

-------------------------------------------------------------------------------
(* The operations.                                                            *)

\* The new node has been created: filled in, attached, inserted and counted,
\* or given back because the owner is closed.
Enter(v, s, d, n, b, count, guard, grow) ==
    IF d = Local /\ closed THEN release_reservation_node(v, n)
    ELSE LET filled == [v EXCEPT !.node[n] = [@ EXCEPT !.base = b, !.limit = b + guard + count,
                                                       !.guard = guard, !.grow = grow,
                                                       !.live = TRUE]]
             owned == IF d = Local THEN attach_owner_node(filled, n) ELSE filled
         IN  [insert_domain_node_sorted(owned, s, d, n) EXCEPT
                !.free_count[d] = @ - (guard + count)]

Reserve(s, d, b, count, guard, grow) ==
    /\ b # Nil
    /\ vmm.free_count[d] >= count + guard
    /\ validate_domain_list(vmm, s)
    /\ \E frame \in BOOLEAN : \E new \in {create_reservation_node(vmm, frame)} :
          vmm' = IF new.n = Nil THEN new.v
                 ELSE Enter(new.v, s, d, new.n, b, count, guard, grow)
    /\ UNCHANGED closed

Search(s, d, n, top) == IF top THEN SearchDown(vmm, s, d, n) ELSE SearchUp(vmm, s, d, n)

StVmm_ReserveGlobalPage(r) ==
    r.d # Local /\ r.at \in {Up, Down} /\ \E s \in {List(vmm, r.d)} :
        Reserve(s, r.d, Search(s, r.d, r.count + r.guard, r.at = Down), r.count, r.guard, FALSE)

StVmm_ReserveLocalPage(r) ==
    r.d = Local /\ r.at \in {Up, Down} /\ \E s \in {List(vmm, Local)} :
        Reserve(s, Local, Search(s, Local, r.count + r.guard, r.at = Down), r.count, r.guard, r.grow)

\* make_node_range_from_usable and the checks of both ...To functions.
FixedAt(s, d, vpn, count, guard) ==
    LET b == vpn - guard
    IN  IF /\ b >= BaseVpn[d] /\ vpn + count - 1 <= LimitVpn[d]
           /\ find_overlap(vmm, s, b, count + guard) = Nil
           /\ RangeUnmapped(d, b, count + guard)
        THEN b ELSE Nil

StVmm_ReserveGlobalPageTo(r) ==
    r.d # Local /\ r.at \notin {Up, Down} /\ \E s \in {List(vmm, r.d)} :
        Reserve(s, r.d, FixedAt(s, r.d, r.at, r.count, r.guard), r.count, r.guard, FALSE)

reserve_local_page_to_with_policy(r) ==
    r.d = Local /\ r.at \notin {Up, Down} /\ \E s \in {List(vmm, Local)} :
        Reserve(s, Local, FixedAt(s, Local, r.at, r.count, r.guard), r.count, r.guard, r.grow)

\* Node n leaves its lists and the pool takes it back.
Release(v, d, n) ==
    [release_reservation_node(detach_owner_node(remove_domain_node(v, d, n), n), n) EXCEPT
        !.free_count[d] = @ + (v.node[n].limit - v.node[n].base)]

ReleaseExact(d, vpn, count) ==
    \E s \in {List(vmm, d)} : \E n \in {find_exact_releasable(vmm, s, vpn, count)} :
        /\ n # Nil /\ validate_domain_list(vmm, s)
        /\ vmm' = Release(vmm, d, n)
        /\ UNCHANGED closed

StVmm_ReleaseGlobalPage(d, vpn, count) == d # Local /\ ReleaseExact(d, vpn, count)

StVmm_ReleaseLocalPage(vpn, count) ==
    /\ vpn >= BaseVpn[Local] /\ vpn + count - 1 <= LimitVpn[Local]
    /\ ReleaseExact(Local, vpn, count)

\* Of StVmm_SetLocalPageReservationMapFlags, what the lists depend on: each
\* reservation met from vpn on loses MF_GUARD_GROW_DOWN until one is missing.
StVmm_SetLocalPageReservationMapFlags(vpn, count) ==
    /\ vpn + count - 1 <= LimitVpn[Local]
    /\ \E s \in {List(vmm, Local)} :
          LET at(p) == find_overlap(vmm, s, p, 1)
              set == {p \in vpn .. vpn + count - 1 :
                        \A q \in vpn .. p : at(q) # Nil /\ q >= Usable(vmm, at(q))}
          IN  vmm' = [vmm EXCEPT !.node = [i \in NodeIds |->
                        IF \E p \in set : at(p) = i THEN [vmm.node[i] EXCEPT !.grow = FALSE]
                        ELSE vmm.node[i]]]
    /\ UNCHANGED closed

\* A fault on the guard page of a growable reservation moves it down a page.
StVmm_ResolveLocalPage(vpn) ==
    \E s \in {List(vmm, Local)} : \E n \in {find_overlap(vmm, s, vpn, 1)} :
        /\ n # Nil /\ validate_domain_list(vmm, s)
        /\ vmm.node[n].guard # 0 /\ vpn = Usable(vmm, n) - 1
        /\ vmm.node[n].grow
        /\ vmm.node[n].base # BaseVpn[Local] /\ vmm.free_count[Local] # 0
        /\ vmm.node[n].prev # Nil => vmm.node[vmm.node[n].prev].limit < vmm.node[n].base
        /\ RangeUnmapped(Local, vmm.node[n].base - 1, 1)
        /\ vmm' = [vmm EXCEPT !.node[n].base = @ - 1, !.free_count[Local] = @ - 1]
        /\ UNCHANGED closed

\* StAllocationOwner_Close marks the owner and then frees from the front of
\* its list; a later process starts with a fresh owner.
OwnerClose == ~closed /\ closed' = TRUE /\ UNCHANGED vmm

OwnerCloseNext ==
    /\ closed /\ vmm.first # Nil
    /\ vmm' = Release(vmm, Local, vmm.first)
    /\ UNCHANGED closed

StVmm_InitLocalDomain ==
    /\ closed /\ vmm.first = Nil
    /\ closed' = FALSE
    /\ vmm' = [vmm EXCEPT !.head[Local] = Nil,
                          !.free_count[Local] = Cardinality(PagesOf(Local))]

StVmm_InitGlobalDomain(d) == [head |-> Nil, free |-> Cardinality(PagesOf(d))]

VmmInit ==
    /\ vmm = [node |-> [n \in NodeIds |-> Blank],
              head |-> [d \in VmmDomains |-> StVmm_InitGlobalDomain(d).head],
              free_count |-> [d \in VmmDomains |-> StVmm_InitGlobalDomain(d).free],
              early_used |-> 0, freelist |-> Nil, dyn_free |-> 0, slabs |-> 0,
              first |-> Nil, last |-> Nil]
    /\ closed = FALSE

\* What callers hold and may give back: a reservation's usable pages, or all.
Held(d) == {<<Usable(vmm, n), vmm.node[n].limit - Usable(vmm, n)>> :
              n \in {List(vmm, d)[k] : k \in DOMAIN List(vmm, d)}}

VmmNext ==
    \/ \E r \in VmmRequests :
          \/ StVmm_ReserveGlobalPage(r) \/ StVmm_ReserveLocalPage(r)
          \/ StVmm_ReserveGlobalPageTo(r) \/ reserve_local_page_to_with_policy(r)
    \/ \E d \in VmmDomains : \E r \in Held(d) : StVmm_ReleaseGlobalPage(d, r[1], r[2])
    \/ \E r \in Held(Local) : StVmm_ReleaseLocalPage(r[1], r[2])
    \/ \E vpn \in PagesOf(Local) :
          \/ StVmm_ResolveLocalPage(vpn)
          \/ StVmm_SetLocalPageReservationMapFlags(vpn, LimitVpn[Local] - vpn + 1)
    \/ OwnerClose \/ OwnerCloseNext \/ StVmm_InitLocalDomain

VmmSpec == VmmInit /\ [][VmmNext]_vmmVars

-------------------------------------------------------------------------------
NodesOf(d) == {List(vmm, d)[k] : k \in DOMAIN List(vmm, d)}

\* validate_domain_list accepts every list at any time: no caller is ever told
\* STATUS_SYSTEM_CORRUPTED, and no release returns without releasing.
ListsValid == \A d \in VmmDomains : validate_domain_list(vmm, List(vmm, d))

\* Every node the pool has ever handed out is live in one list, or dead and
\* ready to be handed out again: in the early array or once in the free list.
PoolExact ==
    LET free == Walk(vmm, vmm.freelist)
        made == 1 .. vmm.early_used \cup EarlyCount + 1 .. EarlyCount + vmm.slabs * SlabNodes
    IN  /\ \A n \in made : vmm.node[n].live <=> \E d \in VmmDomains : n \in NodesOf(d)
        /\ \A d, e \in VmmDomains : d # e => NodesOf(d) \cap NodesOf(e) = {}
        /\ {free[k] : k \in DOMAIN free} = {n \in made : Dynamic(n) /\ ~vmm.node[n].live}
        /\ Len(free) = vmm.dyn_free /\ Len(free) = Cardinality({free[k] : k \in DOMAIN free})

\* The owner's list holds the process's reservations, all of them, in both
\* directions, so that StAllocationOwner_Close reaches each.
OwnerListExact ==
    LET at[k \in 0 .. Cardinality(NodeIds)] ==
            IF k = 0 THEN vmm.first ELSE IF at[k - 1] = Nil THEN Nil ELSE vmm.node[at[k - 1]].onext
        met == {at[k] : k \in DOMAIN at} \ {Nil}
    IN  /\ met = NodesOf(Local)
        /\ \A n \in met : IF vmm.node[n].onext = Nil THEN vmm.last = n
                          ELSE vmm.node[vmm.node[n].onext].oprev = n
        /\ vmm.first = Nil => vmm.last = Nil

\* free_count is what the reservations leave of the domain.
FreeCountExact ==
    \A d \in VmmDomains :
        vmm.free_count[d] = Cardinality(PagesOf(d)) -
            Cardinality(UNION {vmm.node[n].base .. vmm.node[n].limit - 1 : n \in NodesOf(d)})

\* The lists, the node pool, the owner's list and the counters describe one
\* set of reservations after any sequence of calls, the failing ones included.
VmmExact == ListsValid /\ PoolExact /\ OwnerListExact /\ FreeCountExact

Abstract == INSTANCE Reservations WITH
    Domains <- VmmDomains,
    DomainPages <- [d \in VmmDomains |-> PagesOf(d)],
    held <- [d \in VmmDomains |->
               {vmm.node[n].base .. vmm.node[n].limit - 1 : n \in NodesOf(d)}]

\* The lists implement the abstract reservations: what a StVmm_ function takes
\* is free and inside the domain, and nothing else changes hands in any step.
ImplementsReservations == Abstract!ResSpec

===============================================================================
