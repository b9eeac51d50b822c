--------------------------- MODULE Memory_mapped ----------------------------
(***************************************************************************)
(* Where a range lies under one page table, a page is mapped only inside a *)
(* live reservation: the invariant that ties the page table entries to the *)
(* ranges, and one lemma per action that keeps it.  (Under several tables  *)
(* a map that stops at a missing table leaves entries behind, and the      *)
(* statement is false.)                                                    *)
(***************************************************************************)
EXTENDS Memory_lemmas

-----------------------------------------------------------------------------
(* Entries and ranges.                                                       *)

\* One page table covers the range.
OneTable == \A p, q \in Pages : Table(p) = Table(q)

NodePages(i) == node[i].base..(node[i].limit - 1)

\* How clean a call in progress keeps its range: an allocation has mapped what
\* it counts as done and nothing else; a free has unmapped what it counts as
\* done; a range about to be given back shows nothing.
CleanOf(c) ==
  /\ c.st \in {"map", "batch", "rollback", "rollback_unmap"}
     /\ c.fam \in {"map", "contiguous", "sparse"} =>
       \A p \in NodePages(c.id) : p \in Span(c.vpn, c.done) \/ pt[p] = Empty
  /\ c.st \in {"free", "unmap"} => \A p \in Span(c.vpn, c.done) : ~Present(p)
  /\ c.st = "release" /\ c.vpn \in {node[c.id].base, Usable(c.id)} =>
       \A p \in NodePages(c.id) : pt[p] = Empty

Cleanly == \A t \in Threads : Working(t) => CleanOf(op[t])

\* Demand paging is for user ranges.
NoneManaged == local \/ \A p \in Pages : pt[p] # Managed

MapInv == MappedInside /\ Cleanly /\ NoneManaged

\* The step leaves the entries of the other threads' reservations alone.
Kept(t) ==
  \A u \in Threads : u # t /\ Working(u) => \A p \in NodePages(op[u].id) : pt'[p] = pt[p]

-----------------------------------------------------------------------------
(* What the reservations say of the entries.                                 *)

\* The pages of a reservation, and the reservation of a page.
LEMMA PagesOf ==
  ASSUME RangesInv, NEW i \in Live, NEW p \in NodePages(i)
  PROVE  /\ p \in Pages /\ p \in Int /\ i \in NodeAt(p)
         /\ \A j \in Live : j # i => p \notin NodePages(j)
<1>1. /\ node[i].base \in Int /\ node[i].limit \in Int
      /\ FirstPage <= node[i].base /\ node[i].limit <= LastPage + 1
  BY NodeFields DEF RangesInv, NodesOK, NodeOK
<1>2. p \in Int /\ node[i].base <= p /\ p < node[i].limit
  BY <1>1 DEF NodePages
<1>3. p \in Pages /\ i \in NodeAt(p)
  BY SMTT(30), SMTT(45), SMTT(60), <1>1, <1>2, MemoryAssumption DEF Pages, NodeAt
<1>4. ASSUME NEW j \in Live, j # i, p \in NodePages(j) PROVE FALSE
  <2>1. node[j].base \in Int /\ node[j].limit \in Int
    BY NodeFields DEF RangesInv
  <2>2. j \in NodeAt(p)
    BY <1>2, <1>4, <2>1 DEF NodePages, NodeAt
  <2> QED BY SMTT(30), SMTT(45), SMTT(60), <1>2, <1>3, <1>4, <2>2, OneOwner
<1> QED BY <1>2, <1>3, <1>4

\* A guard page shows nothing.
LEMMA GuardClean ==
  ASSUME RangesInv, MappedInside, NEW i \in Live, NEW p \in NodePages(i), ~(Usable(i) <= p)
  PROVE  pt[p] = Empty
<1>1. p \in Pages /\ p \in Int /\ i \in NodeAt(p)
  BY PagesOf
<1>2. \A j \in NodeAt(p) : j = i
  BY <1>1, OneOwner
<1> QED BY <1>1, <1>2 DEF MappedInside

\* Nor does a page without a reservation.
LEMMA FreshClean ==
  ASSUME MappedInside, NEW b \in Int, NEW n \in Nat, FreeRange(b, n), NodesOK, NEW p \in Span(b, n)
  PROVE  p \in Pages /\ pt[p] = Empty
<1>1. p \in Int /\ b <= p /\ p < b + n
  BY DEF Span
<1>2. p \in Pages
  BY <1>1, MemoryAssumption DEF FreeRange, Pages
<1>3. ASSUME NEW j \in NodeAt(p) PROVE FALSE
  <2>1. j \in Live /\ node[j].base <= p /\ p < node[j].limit
    BY DEF NodeAt
  <2>2. node[j].base \in Int /\ node[j].limit \in Int
    BY <2>1, NodeFields
  <2> QED BY <1>1, <2>1, <2>2 DEF FreeRange
<1> QED BY <1>2, <1>3 DEF MappedInside

\* Under one table, mapping a range that shows nothing succeeds or does nothing.
LEMMA AllOrNothing ==
  ASSUME OneTable, NEW v \in Int, NEW n \in Nat, Span(v, n) \subseteq Pages, RangeUnmapped(v, n),
         NEW stop \in Stops(v, n)
  PROVE  stop = v \/ stop = v + n
<1> DEFINE present == {p \in Span(v, n) : Present(p)}
           entered == {p \in Span(v, n) : p = v \/ Table(p) # Table(p - 1)}
<1>1. present = {}
  BY DEF RangeUnmapped
<1>2. \A p \in entered : p = v
  <2> SUFFICES ASSUME NEW p \in Span(v, n), p # v PROVE Table(p) = Table(p - 1)
    OBVIOUS
  <2>1. p \in Span(v, n) /\ p - 1 \in Span(v, n)
    BY DEF Span
  <2> QED BY <2>1 DEF OneTable
<1>3. stop \in {v + n} \cup entered
  BY <1>1 DEF Stops
<1> QED BY <1>2, <1>3

-----------------------------------------------------------------------------
(* What a step must show.                                                    *)

\* Entries change only to empty, or inside the usable part of reservation i.
LEMMA InsideKept ==
  ASSUME RangesInv, MappedInside, UNCHANGED node, NEW i \in Live,
         \A p \in Pages : pt'[p] = pt[p] \/ pt'[p] = Empty \/ (p \in NodePages(i) /\ Usable(i) <= p)
  PROVE  MappedInside'
<1> SUFFICES ASSUME NEW p \in Pages, pt'[p] # Empty
             PROVE  \E j \in NodeAt(p) : Usable(j) <= p
  BY DEF MappedInside, NodeAt, Live, Usable
<1>1. CASE pt'[p] = pt[p]
  BY <1>1 DEF MappedInside
<1>2. CASE p \in NodePages(i) /\ Usable(i) <= p
  BY <1>2, PagesOf
<1> QED BY SMTT(30), SMTT(45), SMTT(60), <1>1, <1>2

\* A call that touches only its own reservation leaves the others alone.
LEMMA KeepsOthers ==
  ASSUME MemInv, NEW t \in Threads, NEW i \in Live,
         \A u \in Threads : u # t /\ Working(u) => op[u].id # i,
         \A p \in Pages : p \notin NodePages(i) => pt'[p] = pt[p]
  PROVE  Kept(t)
<1> SUFFICES ASSUME NEW u \in Threads, u # t, Working(u), NEW p \in NodePages(op[u].id)
             PROVE  pt'[p] = pt[p]
  BY DEF Kept
<1>1. op[u].id \in Live /\ op[u].id # i
  BY AtWork
<1>2. p \in Pages /\ p \notin NodePages(i)
  BY <1>1, PagesOf DEF MemInv
<1> QED BY <1>2

\* The calls of the other threads stay as clean as they were.
LEMMA OthersClean ==
  ASSUME MemInv, Cleanly, NEW t \in Threads, CallsUndisturbed(t), Kept(t),
         NEW u \in Threads, u # t, Working(u), op'[u] = op[u]
  PROVE  CleanOf(op[u])'
<1> DEFINE i == op[u].id
<1>1. CleanOf(op[u]) /\ node'[i] = node[i] /\ \A p \in NodePages(i) : pt'[p] = pt[p]
  BY ZenonT(60) DEF Cleanly, CallsUndisturbed, Kept
<1>2. /\ i \in Live /\ Inside(op[u]) /\ op[u].done <= op[u].count /\ op[u].vpn \in Int
      /\ op[u].count \in Nat /\ op[u].done \in Nat
  BY AtWork
<1>3. node[i].base \in Int /\ node[i].limit \in Int
  BY ZenonT(60), <1>2, NodeFields DEF MemInv, RangesInv
<1>4. \A p \in Span(op[u].vpn, op[u].done) : p \in NodePages(i)
  BY SMTT(30), SMTT(45), SMTT(60), <1>2, <1>3 DEF Inside, Span, NodePages
<1>5. NodePages(i)' = NodePages(i) /\ Usable(i)' = Usable(i)
  BY ZenonT(60), <1>1 DEF NodePages, Usable
<1> QED BY ZenonT(60), <1>1, <1>4, <1>5 DEF CleanOf, Present, NodePages, Usable

\* One thread's call moves on to c.
LEMMA MapMoves ==
  ASSUME MemInv, MapInv, NEW t \in Threads, NEW c, op' = [op EXCEPT ![t] = c], local' = local,
         CallsUndisturbed(t), Kept(t), MappedInside', NoneManaged',
         c.st \notin {"idle", "reserve", "unframe"} => CleanOf(c)'
  PROVE  MapInv'
<1>1. op'[t] = c /\ \A u \in Threads : u # t => op'[u] = op[u]
  BY DEF MemInv, CallsInv, OpsOK
<1>2. ASSUME NEW u \in Threads, Working(u)' PROVE CleanOf(op[u])'
  <2>1. CASE u = t
    BY ZenonT(60), <1>1, <1>2, <2>1 DEF Working, CleanOf, NodePages, Usable, Present
  <2>2. CASE u # t
    <3>1. Working(u) /\ op'[u] = op[u]
      BY <1>1, <1>2, <2>2 DEF Working
    <3> QED BY <2>2, <3>1, OthersClean DEF MapInv
  <2> QED BY <2>1, <2>2
<1> QED BY <1>2 DEF MapInv, Cleanly

\* A step between calls.
LEMMA MapIdle ==
  ASSUME AllIdle, op' = op, MappedInside', NoneManaged'
  PROVE  MapInv'
<1>1. \A u \in Threads : ~Working(u)'
  BY DEF AllIdle, Working, Idle
<1> QED BY <1>1 DEF MapInv, Cleanly

\* A step that touches neither ranges nor entries.
LEMMA MapUntouched ==
  ASSUME MapInv, UNCHANGED <<local, node, pt>>
  PROVE  MappedInside' /\ NoneManaged' /\ \A t \in Threads : Kept(t) /\ CallsUndisturbed(t)
<1>1. MappedInside'
  BY DEF MapInv, MappedInside, NodeAt, Live, Usable
<1>2. NoneManaged'
  BY DEF MapInv, NoneManaged
<1>3. \A t \in Threads : Kept(t) /\ CallsUndisturbed(t)
  BY DEF Kept, CallsUndisturbed
<1> QED BY SMTT(30), SMTT(45), SMTT(60), <1>1, <1>2, <1>3

-----------------------------------------------------------------------------
(* Reserving.                                                                *)

\* A new reservation shows nothing yet, and what was mapped stays inside.
LEMMA MapReserve ==
  ASSUME Counting, MemInv, MapInv, NEW r \in Requests, NEW at \in Places(r), Reserve(r, at)
  PROVE  /\ \A p \in Span(at[1], Total(r)) : p \in Pages /\ pt[p] = Empty
         /\ NodePages(at[2])' = Span(at[1], Total(r))
         /\ Usable(at[2])' = at[1] + Guard(r) /\ at[2] \in Live'
         /\ \A j \in Live : j \in Live' /\ node'[j] = node[j]
         /\ \A t \in Threads : CallsUndisturbed(t)
         /\ \A t \in Threads : Working(t) => at[2] # op[t].id
<1>0. RangesInv /\ local \in BOOLEAN /\ NodesOK
  BY DEF MemInv, Phases, RangesInv
<1>1. at[1] \in Int /\ FreeRange(at[1], Total(r)) /\ at[2] \notin Live
  BY PlacesSound
<1>2. /\ Live' = Live \cup {at[2]} /\ node'[at[2]] = NodeFor(r, at[1])
      /\ \A j \in Live : j # at[2] /\ node'[j] = node[j]
  BY SMTT(30), SMTT(45), SMTT(60), <1>0, ReserveAdds
<1>3. /\ node'[at[2]].base = at[1] /\ node'[at[2]].limit = at[1] + Total(r)
      /\ node'[at[2]].guard = Guard(r)
  BY <1>0, <1>1, <1>2, NodeForType
<1>4. Total(r) \in Nat
  BY RequestSizes
<1>5. \A p \in Span(at[1], Total(r)) : p \in Pages /\ pt[p] = Empty
  BY SMTT(30), SMTT(45), SMTT(60), <1>0, <1>1, <1>4, FreshClean DEF MapInv
<1>6. NodePages(at[2])' = Span(at[1], Total(r)) /\ Usable(at[2])' = at[1] + Guard(r)
  BY SMTT(30), SMTT(45), SMTT(60), <1>1, <1>3, <1>4 DEF NodePages, Usable, Span
<1>7. \A t \in Threads : Working(t) => op[t].id \in Live
  BY ZenonT(60), AtWork
<1>8. \A t \in Threads : CallsUndisturbed(t)
  BY <1>2, <1>7 DEF CallsUndisturbed
<1> QED BY ZenonT(60), <1>1, <1>2, <1>5, <1>6, <1>7, <1>8

\* More reservations, same entries.
LEMMA MoreRanges ==
  ASSUME MapInv, \A j \in Live : j \in Live' /\ node'[j] = node[j], UNCHANGED <<local, pt>>
  PROVE  MappedInside' /\ NoneManaged' /\ \A t \in Threads : Kept(t)
<1>1. ASSUME NEW p \in Pages, pt'[p] # Empty PROVE (\E j \in NodeAt(p) : Usable(j) <= p)'
  <2>1. PICK j \in NodeAt(p) : Usable(j) <= p
    BY <1>1 DEF MapInv, MappedInside
  <2>2. j \in Live' /\ node'[j] = node[j] /\ node[j].base <= p /\ p < node[j].limit
    BY DEF NodeAt
  <2>3. j \in NodeAt(p)' /\ (Usable(j) <= p)'
    BY <2>1, <2>2 DEF NodeAt, Usable
  <2> QED BY <2>3
<1>2. MappedInside'
  BY <1>1 DEF MappedInside
<1>3. NoneManaged'
  BY DEF MapInv, NoneManaged
<1> QED BY <1>2, <1>3 DEF Kept

LEMMA Map_MakeReservation ==
  ASSUME Counting, MemInv, MapInv, NEW r \in Requests, MakeReservation(r)
  PROVE  MapInv'
<1>1. PICK at \in Places(r) : Reserve(r, at)
  BY DEF MakeReservation
<1>2. UNCHANGED <<local, pt, op>>
  BY DEF MakeReservation
<1>3. /\ \A j \in Live : j \in Live' /\ node'[j] = node[j]
      /\ \A t \in Threads : Working(t) => node'[op[t].id] = node[op[t].id]
  <2>1. \A t \in Threads : Working(t) => op[t].id \in Live
    BY AtWork
  <2> QED BY ZenonT(60), <1>1, <2>1, MapReserve
<1>4. MappedInside' /\ NoneManaged'
  BY ZenonT(60), <1>2, <1>3, MoreRanges
<1>5. Cleanly'
  <2> SUFFICES ASSUME NEW t \in Threads, Working(t) PROVE CleanOf(op[t])'
    BY <1>2 DEF Cleanly, Working
  <2>1. CleanOf(op[t]) /\ node'[op[t].id] = node[op[t].id]
    BY ZenonT(60), <1>3 DEF MapInv, Cleanly
  <2> QED BY ZenonT(60), <1>2, <2>1 DEF CleanOf, NodePages, Usable, Present
<1> QED BY <1>4, <1>5 DEF MapInv

\* A call that begins on the reservation it has just made.
LEMMA MapBegins ==
  ASSUME Counting, MemInv, MapInv, NEW t \in Threads, NEW r \in Requests, NEW at \in Places(r),
         Reserve(r, at), UNCHANGED <<local, pt>>, NEW c \in Calls, c.st \in {"map", "batch"},
         c.id = at[2], op' = [op EXCEPT ![t] = c]
  PROVE  MapInv'
<1>1. /\ \A p \in NodePages(c.id)' : pt[p] = Empty
      /\ \A j \in Live : j \in Live' /\ node'[j] = node[j]
      /\ CallsUndisturbed(t)
  BY SMTT(30), SMTT(45), SMTT(60), MapReserve
<1>2. MappedInside' /\ NoneManaged' /\ Kept(t)
  BY ZenonT(60), <1>1, MoreRanges
<1>3. CleanOf(c)'
  BY <1>1 DEF CleanOf
<1> QED BY ZenonT(60), <1>1, <1>2, <1>3, MapMoves

LEMMA Map_ReserveToMap ==
  ASSUME Counting, MemInv, MapInv, NEW t \in Threads, NEW r \in Requests, ReserveToMap(t, r)
  PROVE  MapInv'
<1>1. PICK at \in Places(r) :
        /\ Reserve(r, at)
        /\ op' = [op EXCEPT ![t] = [Call("map", "map", at[2], at[1] + Guard(r), r.count)
                                      EXCEPT !.pfn = NumFrames]]
  BY ZenonT(60) DEF ReserveToMap
<1>2. UNCHANGED <<local, pt>>
  BY DEF ReserveToMap
<1>3. PICK c : c = [Call("map", "map", at[2], at[1] + Guard(r), r.count) EXCEPT !.pfn = NumFrames]
  BY ZenonT(60)
<1>4. at[1] \in Int /\ at[2] \in NodeIds /\ r.count \in Nat /\ at[1] + Guard(r) \in Int
  BY PlacesSound, RequestSizes
<1>5. c \in Calls /\ c.st = "map" /\ c.id = at[2]
  BY <1>3, <1>4, MemoryAssumption DEF Call, Calls
<1> QED BY ZenonT(60), <1>1, <1>2, <1>3, <1>5, MapBegins

LEMMA Map_InBatches ==
  ASSUME Counting, MemInv, MapInv, NEW t \in Threads, NEW r \in Requests, InBatches(t, r)
  PROVE  MapInv'
<1>1. PICK at \in Places(r) :
        /\ Reserve(r, at)
        /\ op' = [op EXCEPT ![t] = Call("batch", "sparse", at[2], at[1] + Guard(r), r.count)]
  BY ZenonT(60) DEF InBatches
<1>2. UNCHANGED <<local, pt>>
  BY DEF InBatches
<1>3. PICK c : c = Call("batch", "sparse", at[2], at[1] + Guard(r), r.count)
  OBVIOUS
<1>4. at[1] \in Int /\ at[2] \in NodeIds /\ r.count \in Nat /\ at[1] + Guard(r) \in Int
  BY PlacesSound, RequestSizes
<1>5. c \in Calls /\ c.st = "batch" /\ c.id = at[2]
  BY ZenonT(60), <1>3, <1>4 DEF Call, Calls
<1> QED BY ZenonT(60), <1>1, <1>2, <1>3, <1>5, MapBegins

LEMMA Map_FramesFirst ==
  ASSUME MemInv, MapInv, NEW t \in Threads, NEW r \in Requests, FramesFirst(t, r)
  PROVE  MapInv'
<1>1. UNCHANGED <<local, node, pt>>
  BY DEF FramesFirst
<1>2. PICK b \in BlockFor(r.count) :
        op' = [op EXCEPT ![t] = [st |-> "reserve", req |-> r, pfn |-> b.pfn]]
  BY ZenonT(60) DEF FramesFirst
<1>3. PICK c : c = [st |-> "reserve", req |-> r, pfn |-> b.pfn]
  BY ZenonT(60)
<1> QED BY ZenonT(60), <1>1, <1>2, <1>3, MapUntouched, MapMoves

LEMMA Map_ReserveForFrames ==
  ASSUME Counting, MemInv, MapInv, NEW t \in Threads, ReserveForFrames(t)
  PROVE  MapInv'
<1>1. op[t].st = "reserve" /\ UNCHANGED <<local, pt>>
  BY DEF ReserveForFrames
<1>2. PICK r : r = op[t].req
  OBVIOUS
<1>3. op[t] \in Waiting /\ r \in Requests
  BY ZenonT(60), <1>1, <1>2, OpCases DEF Waiting, MemInv
<1>4. CASE \E at \in Places(r) :
             /\ Reserve(r, at)
             /\ op' = [op EXCEPT ![t] =
                         [Call("map", "contiguous", at[2], at[1] + Guard(r), r.count)
                            EXCEPT !.pfn = op[t].pfn]]
  <2>1. PICK at \in Places(r) :
             /\ Reserve(r, at)
             /\ op' = [op EXCEPT ![t] =
                         [Call("map", "contiguous", at[2], at[1] + Guard(r), r.count)
                            EXCEPT !.pfn = op[t].pfn]]
    BY ZenonT(60), <1>4
  <2>2. PICK c : c = [Call("map", "contiguous", at[2], at[1] + Guard(r), r.count)
                        EXCEPT !.pfn = op[t].pfn]
    BY ZenonT(60)
  <2>3. at[1] \in Int /\ at[2] \in NodeIds /\ r.count \in Nat /\ at[1] + Guard(r) \in Int
    BY SMTT(30), SMTT(45), SMTT(60), <1>3, PlacesSound, RequestSizes
  <2>4. c \in Calls /\ c.st = "map" /\ c.id = at[2]
    BY <1>3, <2>2, <2>3 DEF Call, Calls, Waiting
  <2> QED BY ZenonT(60), <1>1, <1>3, <2>1, <2>2, <2>4, MapBegins
<1>5. CASE Return(t) /\ UNCHANGED node
  BY ZenonT(60), <1>1, <1>5, MapUntouched, MapMoves DEF Return, Idle
<1> QED BY <1>2, <1>4, <1>5 DEF ReserveForFrames

\* A user range for demand paging: all its entries are marked, or none.
LEMMA Map_Lazily ==
  ASSUME Counting, MemInv, MapInv, local, AllIdle, NEW r \in Requests, Lazily(r)
  PROVE  MapInv'
<1>1. UNCHANGED <<local, op>>
  BY DEF Lazily
<1> DEFINE Done(at, v, stop) ==
             /\ SetManaged(v, r.count, stop)
             /\ IF stop = v + r.count THEN Reserve(r, at) ELSE UNCHANGED <<node, free_count>>
<1>2. \E at \in Places(r) : \E v \in {at[1] + Guard(r)} : \E stop \in Stops(v, r.count) :
        Done(at, v, stop)
  BY ZenonT(60) DEF Lazily
<1>3. PICK at \in Places(r) : \E v \in {at[1] + Guard(r)} : \E stop \in Stops(v, r.count) :
        Done(at, v, stop)
  BY <1>2
<1>4. PICK v \in {at[1] + Guard(r)} : \E stop \in Stops(v, r.count) : Done(at, v, stop)
  BY <1>3
<1>5. PICK stop \in Stops(v, r.count) : Done(at, v, stop)
  BY <1>4
<1>6. NoneManaged'
  BY <1>1 DEF NoneManaged
<1>7. CASE stop # v + r.count
  <2>1. pt' = pt /\ UNCHANGED node
    BY <1>5, <1>7 DEF SetManaged
  <2> QED BY SMTT(30), SMTT(45), SMTT(60), <1>1, <2>1, MapUntouched, MapIdle
<1>8. CASE stop = v + r.count
  <2>1. /\ Reserve(r, at)
        /\ pt' = [p \in Pages |-> IF p \in Span(v, r.count) THEN Managed ELSE pt[p]]
    BY <1>5, <1>8 DEF SetManaged
  <2>2. /\ NodePages(at[2])' = Span(at[1], Total(r))
        /\ Usable(at[2])' = at[1] + Guard(r) /\ at[2] \in Live'
        /\ \A j \in Live : j \in Live' /\ node'[j] = node[j]
    BY ZenonT(60), <2>1, MapReserve
  <2>3. /\ at[1] \in Int /\ r.count \in Nat /\ Guard(r) \in {0, 1} /\ Total(r) = r.count + Guard(r)
        /\ v = at[1] + Guard(r)
    BY SMTT(30), SMTT(45), SMTT(60), PlacesSound, RequestSizes
  <2>a. node'[at[2]].base = at[1] /\ node'[at[2]].limit = at[1] + Total(r)
    <3>1. node'[at[2]] = NodeFor(r, at[1])
      BY ZenonT(60), <2>1, ReserveAdds DEF MemInv, Phases
    <3> QED BY SMTT(30), SMTT(45), SMTT(60), <2>3, <3>1, NodeForType DEF MemInv, Phases
  <2>4. ASSUME NEW p \in Pages, pt'[p] # Empty PROVE (\E j \in NodeAt(p) : Usable(j) <= p)'
    <3>1. CASE p \in Span(v, r.count)
      <4>1. v <= p /\ p < at[1] + Total(r) /\ at[1] <= p
        BY <2>3, <3>1 DEF Span
      <4>2. at[2] \in NodeAt(p)' /\ (Usable(at[2]) <= p)'
        BY ZenonT(60), <2>2, <2>3, <2>a, <4>1 DEF NodeAt
      <4> QED BY <4>2
    <3>2. CASE p \notin Span(v, r.count)
      <4>1. pt[p] # Empty
        BY <2>1, <2>4, <3>2
      <4>2. PICK j \in NodeAt(p) : Usable(j) <= p
        BY <4>1 DEF MapInv, MappedInside
      <4>3. j \in Live' /\ node'[j] = node[j] /\ node[j].base <= p /\ p < node[j].limit
        BY ZenonT(60), <2>2 DEF NodeAt
      <4>4. j \in NodeAt(p)' /\ (Usable(j) <= p)'
        BY <4>2, <4>3 DEF NodeAt, Usable
      <4> QED BY <4>4
    <3> QED BY <3>1, <3>2
  <2>5. MappedInside'
    BY <2>4 DEF MappedInside
  <2> QED BY <1>1, <1>6, <2>5, MapIdle
<1> QED BY ZenonT(60), <1>7, <1>8

-----------------------------------------------------------------------------
(* Calls at work.                                                            *)

\* A call that moves on without touching ranges or entries.
LEMMA MapGoesOn ==
  ASSUME MemInv, MapInv, NEW t \in Threads, NEW c, op' = [op EXCEPT ![t] = c],
         UNCHANGED <<local, node, pt>>,
         c.st \notin {"idle", "reserve", "unframe"} => CleanOf(c)
  PROVE  MapInv'
<1>1. MappedInside' /\ NoneManaged' /\ Kept(t) /\ CallsUndisturbed(t)
  BY MapUntouched
<1>2. c.st \notin {"idle", "reserve", "unframe"} => CleanOf(c)'
  BY ZenonT(60) DEF CleanOf, NodePages, Usable, Present
<1> QED BY ZenonT(60), <1>1, <1>2, MapMoves

LEMMA Map_Commit ==
  ASSUME MemInv, MapInv, NEW t \in Threads, NEW i \in NodeIds, NEW v \in Pages,
         NEW n \in 1..MaxCommit, Commit(t, i, v, n)
  PROVE  MapInv'
<1>1. UNCHANGED <<local, node, pt>>
  BY DEF Commit
<1>2. CASE CommitContiguous(t, i, v, n)
  <2>1. PICK b \in BlockFor(n) :
          op' = [op EXCEPT ![t] = [Call("map", "commit_run", i, v, n) EXCEPT !.pfn = b.pfn]]
    BY ZenonT(60), <1>2 DEF CommitContiguous
  <2>2. PICK c : c = [Call("map", "commit_run", i, v, n) EXCEPT !.pfn = b.pfn]
    BY ZenonT(60)
  <2>3. c.st = "map" /\ c.fam = "commit_run"
    BY SMTT(30), SMTT(45), SMTT(60), <2>2 DEF Call
  <2>4. CleanOf(c)
    BY <2>3 DEF CleanOf
  <2> QED BY ZenonT(60), <1>1, <2>1, <2>2, <2>4, MapGoesOn
<1>3. CASE CommitSparse(t, i, v, n)
  <2>1. PICK c : c = Call("batch", "commit", i, v, n)
    OBVIOUS
  <2>2. c.st = "batch" /\ c.fam = "commit"
    BY <2>1 DEF Call
  <2>3. CleanOf(c)
    BY <2>2 DEF CleanOf
  <2> QED BY ZenonT(60), <1>1, <1>3, <2>1, <2>3, MapGoesOn DEF CommitSparse
<1> QED BY ZenonT(60), <1>2, <1>3 DEF Commit

\* A call of an allocation that keeps what it counts as done.
LEMMA SameDone ==
  ASSUME NEW c, NEW d, CleanOf(c), d.id = c.id, d.vpn = c.vpn, d.done = c.done, d.fam = c.fam,
         c.st \in {"map", "batch", "rollback", "rollback_unmap"},
         d.st \in {"map", "batch", "rollback", "rollback_unmap"}
  PROVE  CleanOf(d)
BY ZenonT(60) DEF CleanOf

LEMMA Map_AllocateBatch ==
  ASSUME MemInv, MapInv, NEW t \in Threads, AllocateBatch(t)
  PROVE  MapInv'
<1>1. op[t].st = "batch" /\ UNCHANGED <<local, node, pt>>
  BY ZenonT(60) DEF AllocateBatch
<1>2. Working(t) /\ op[t] \in Calls /\ CleanOf(op[t])
  BY ZenonT(60), <1>1, AtWork DEF Working, MapInv, Cleanly
<1>3. \/ \E f, m : op' = [op EXCEPT ![t].st = "map", ![t].pfn = f, ![t].n = m]
      \/ Stage(t, "rollback")
  BY ZenonT(60) DEF AllocateBatch
<1>4. ASSUME NEW f, NEW m, op' = [op EXCEPT ![t].st = "map", ![t].pfn = f, ![t].n = m]
      PROVE  MapInv'
  <2>1. PICK c : c = [op[t] EXCEPT !.st = "map", !.pfn = f, !.n = m]
    OBVIOUS
  <2>2. /\ c.st = "map" /\ c.id = op[t].id /\ c.vpn = op[t].vpn /\ c.done = op[t].done
        /\ c.fam = op[t].fam
    BY <1>2, <2>1 DEF Calls
  <2>3. op' = [op EXCEPT ![t] = c]
    BY ZenonT(60), <1>4, <2>1 DEF MemInv, CallsInv, OpsOK
  <2>4. CleanOf(c)
    BY <1>1, <1>2, <2>2, SameDone
  <2> QED BY ZenonT(60), <1>1, <2>3, <2>4, MapGoesOn
<1>5. CASE Stage(t, "rollback")
  <2>1. PICK c : c = [op[t] EXCEPT !.st = "rollback"]
    BY ZenonT(60)
  <2>2. /\ c.st = "rollback" /\ c.id = op[t].id /\ c.vpn = op[t].vpn /\ c.done = op[t].done
        /\ c.fam = op[t].fam
    BY SMTT(30), SMTT(45), SMTT(60), <1>2, <2>1 DEF Calls
  <2>3. CleanOf(c)
    BY <1>1, <1>2, <2>2, SameDone
  <2> QED BY ZenonT(60), <1>1, <1>5, <2>1, <2>3, MapGoesOn DEF Stage
<1> QED BY ZenonT(60), <1>3, <1>4, <1>5

LEMMA Map_RollbackFrames ==
  ASSUME MemInv, MapInv, NEW t \in Threads, RollbackFrames(t)
  PROVE  MapInv'
<1>1. op[t].st = "rollback" /\ UNCHANGED <<local, node, pt>> /\ Stage(t, "rollback_unmap")
  BY DEF RollbackFrames
<1>2. Working(t) /\ op[t] \in Calls /\ CleanOf(op[t])
  BY ZenonT(60), <1>1, AtWork DEF Working, MapInv, Cleanly
<1>3. PICK c : c = [op[t] EXCEPT !.st = "rollback_unmap"]
  BY ZenonT(60)
<1>4. /\ c.st = "rollback_unmap" /\ c.id = op[t].id /\ c.vpn = op[t].vpn /\ c.done = op[t].done
      /\ c.fam = op[t].fam
  BY <1>2, <1>3 DEF Calls
<1>5. CleanOf(c)
  BY ZenonT(60), <1>1, <1>2, <1>4, SameDone
<1> QED BY ZenonT(60), <1>1, <1>3, <1>5, MapGoesOn DEF Stage

LEMMA Map_ReleaseFrames ==
  ASSUME MemInv, MapInv, NEW t \in Threads, ReleaseFrames(t)
  PROVE  MapInv'
<1>1. UNCHANGED <<local, node, pt>> /\ Return(t)
  BY ZenonT(60) DEF ReleaseFrames
<1> QED BY ZenonT(60), <1>1, MapGoesOn DEF Return, Idle

\* A call that writes entries of its own reservation.
LEMMA OwnEntries ==
  ASSUME MemInv, MapInv, NEW t \in Threads, NEW i \in Live, UNCHANGED <<local, node>>,
         \A u \in Threads : u # t /\ Working(u) => op[u].id # i,
         \A p \in Pages :
            \/ pt'[p] = pt[p]
            \/ /\ p \in NodePages(i) /\ pt'[p] # Managed
               /\ pt'[p] = Empty \/ Usable(i) <= p
  PROVE  MappedInside' /\ NoneManaged' /\ Kept(t) /\ CallsUndisturbed(t)
<1>1. MappedInside'
  BY InsideKept DEF MemInv, MapInv
<1>2. Kept(t)
  BY KeepsOthers
<1>3. NoneManaged'
  BY DEF MapInv, NoneManaged
<1> QED BY ZenonT(60), <1>1, <1>2, <1>3 DEF CallsUndisturbed

\* The pages of a call at work, all of them or the first m.
LEMMA CallPages ==
  ASSUME MemInv, NEW t \in Threads, Working(t), NEW a \in Nat, NEW m \in Nat,
         a + m <= op[t].count
  PROVE  /\ Span(op[t].vpn + a, m) \subseteq NodePages(op[t].id)
         /\ Span(op[t].vpn + a, m) \subseteq Pages
         /\ \A u \in Threads : u # t /\ Working(u) => op[u].id # op[t].id
<1>1. /\ op[t].id \in Live /\ Inside(op[t]) /\ op[t].vpn \in Int /\ op[t].count \in Nat
  BY AtWork
<1>2. node[op[t].id].base \in Int /\ node[op[t].id].limit \in Int
  BY ZenonT(60), <1>1, NodeFields DEF MemInv, RangesInv
<1>3. Span(op[t].vpn + a, m) \subseteq NodePages(op[t].id)
  BY SMTT(30), SMTT(45), SMTT(60), <1>1, <1>2 DEF Inside, Span, NodePages
<1>4. NodePages(op[t].id) \subseteq Pages
  BY <1>1, PagesOf DEF MemInv
<1> QED BY ZenonT(60), <1>3, <1>4 DEF MemInv, CallsInv, Alone

\* StMmP_Map*ContiguousMemory.
LEMMA Map_MapMemory ==
  ASSUME Counting, OneTable, MemInv, MapInv, NEW t \in Threads, MapMemory(t)
  PROVE  MapInv'
<1>1. op[t].st = "map" /\ UNCHANGED <<local, node>>
  BY ZenonT(60) DEF MapMemory
<1>2. /\ Working(t) /\ op[t] \in Calls /\ Shape(op[t]) /\ Inside(op[t]) /\ CleanOf(op[t])
      /\ op[t].id \in Live /\ op[t].vpn \in Int /\ op[t].count \in Nat /\ op[t].done \in Nat
      /\ op[t].n \in Nat
  BY <1>1, AtWork DEF Working, MapInv, Cleanly
<1> DEFINE After(c, v, stop) ==
             /\ MapTo(v, stop, c.pfn)
             /\ \/ /\ stop = v + c.n
                   /\ UNCHANGED blocks
                   /\ op' = [op EXCEPT ![t] = IF c.done + c.n = c.count THEN Idle
                                              ELSE [c EXCEPT !.st = "batch", !.done = @ + c.n,
                                                             !.pfn = Frameless]]
                \/ /\ stop < v + c.n /\ c.fam \in {"sparse", "commit", "commit_run"}
                   /\ blocks' = blocks \ BlockAt(c.pfn)
                   /\ op' = [op EXCEPT ![t] = IF c.fam = "commit_run" THEN Idle
                                              ELSE [c EXCEPT !.st = "rollback",
                                                             !.pfn = Frameless]]
                \/ /\ stop < v + c.n /\ c.fam \in {"map", "contiguous"}
                   /\ UNCHANGED blocks
                   /\ Stage(t, "release")
<1>a. \E c \in {op[t]} : \E v \in {c.vpn + c.done} : \E stop \in Stops(v, c.n) : After(c, v, stop)
  BY ZenonT(60) DEF MapMemory
<1> HIDE DEF After
<1>3. PICK c \in {op[t]} : \E v \in {c.vpn + c.done} : \E stop \in Stops(v, c.n) : After(c, v, stop)
  BY <1>a
<1>4. PICK v \in {c.vpn + c.done} : \E stop \in Stops(v, c.n) : After(c, v, stop)
  BY <1>3
<1>5. PICK stop \in Stops(v, c.n) : After(c, v, stop)
  BY <1>4
<1>6. MapTo(v, stop, c.pfn)
  BY ZenonT(60), <1>5 DEF After
<1>7. /\ c \in Calls /\ c.st = "map" /\ Shape(c) /\ Inside(c) /\ CleanOf(c) /\ c.id \in Live
      /\ c.vpn \in Int /\ c.count \in Nat /\ c.done \in Nat /\ c.n \in Nat /\ v \in Int
      /\ c.n > 0 /\ c.done + c.n <= c.count /\ c.fam # "free"
  BY SMTT(30), SMTT(45), SMTT(60), <1>1, <1>2, <1>3, <1>4 DEF Shape
<1>8. stop \in Int /\ v <= stop /\ stop <= v + c.n /\ \A p \in v..(stop - 1) : ~Present(p)
  BY <1>7, StopsBound
<1>9. /\ Span(v, c.n) \subseteq NodePages(c.id) /\ Span(v, c.n) \subseteq Pages
      /\ \A u \in Threads : u # t /\ Working(u) => op[u].id # c.id
  BY ZenonT(60), <1>2, <1>3, <1>4, <1>7, CallPages
<1>10. \A p \in Pages : p \notin v..(stop - 1) => pt'[p] = pt[p]
  BY ZenonT(60), <1>6 DEF MapTo
<1>11. MappedInside' /\ NoneManaged' /\ Kept(t) /\ CallsUndisturbed(t)
  <2>1. Usable(c.id) <= c.vpn /\ Usable(c.id) \in Int
    BY ZenonT(60), <1>7, NodeFields DEF Inside, MemInv, RangesInv
  <2>2. ASSUME NEW p \in Pages, p \in v..(stop - 1)
        PROVE  p \in NodePages(c.id) /\ pt'[p] # Managed /\ Usable(c.id) <= p
    <3>1. p \in Span(v, c.n) /\ c.vpn <= p /\ p \in Int
      BY SMTT(30), SMTT(45), SMTT(60), <1>4, <1>7, <1>8, <2>2 DEF Span
    <3>2. pt'[p] = Entry(c.pfn + (p - v))
      BY <1>6, <2>2 DEF MapTo
    <3>3. pt'[p] # Managed
      BY SMTT(30), SMTT(45), SMTT(60), <3>2 DEF Entry, Managed, Empty
    <3> QED BY SMTT(30), SMTT(45), SMTT(60), <1>7, <1>9, <2>1, <3>1, <3>3
  <2> QED BY ZenonT(60), <1>1, <1>7, <1>9, <1>10, <2>2, OwnEntries
<1>12. c.fam \in {"map", "contiguous", "sparse"} => RangeUnmapped(v, c.n)
  <2> SUFFICES ASSUME c.fam \in {"map", "contiguous", "sparse"}, NEW p \in Span(v, c.n)
               PROVE  ~Present(p)
    BY ZenonT(60) DEF RangeUnmapped
  <2>1. p \in NodePages(c.id) /\ p \notin Span(c.vpn, c.done)
    BY SMTT(30), SMTT(45), SMTT(60), <1>4, <1>7, <1>9 DEF Span
  <2>2. pt[p] = Empty
    BY ZenonT(60), <1>7, <2>1 DEF CleanOf
  <2> QED BY SMTT(30), SMTT(45), SMTT(60), <2>2 DEF Present, Empty
<1>13. c.fam \in {"map", "contiguous", "sparse"} => stop = v \/ stop = v + c.n
  BY ZenonT(60), <1>7, <1>9, <1>12, AllOrNothing
<1>14. stop = v => \A p \in Pages : pt'[p] = pt[p]
  BY SMTT(30), SMTT(45), SMTT(60), <1>7, <1>10
<1>15. CASE /\ stop = v + c.n
            /\ op' = [op EXCEPT ![t] = IF c.done + c.n = c.count THEN Idle
                                       ELSE [c EXCEPT !.st = "batch", !.done = @ + c.n,
                                                      !.pfn = Frameless]]
  <2>1. CASE c.done + c.n = c.count
    BY ZenonT(60), <1>1, <1>11, <1>15, <2>1, MapMoves DEF Idle
  <2>2. CASE c.done + c.n # c.count
    <3>1. PICK d : d = [c EXCEPT !.st = "batch", !.done = @ + c.n, !.pfn = Frameless]
      OBVIOUS
    <3>2. d.st = "batch" /\ d.id = c.id /\ d.vpn = c.vpn /\ d.done = c.done + c.n /\ d.fam = c.fam
      BY <1>7, <3>1 DEF Calls
    <3>3. ASSUME d.fam \in {"map", "contiguous", "sparse"}, NEW p \in NodePages(c.id)
          PROVE  p \in Span(d.vpn, d.done) \/ pt'[p] = Empty
      <4>1. p \in Pages /\ p \in Int /\ (p \in Span(c.vpn, c.done) \/ pt[p] = Empty)
        BY SMTT(30), SMTT(45), SMTT(60), <1>7, <3>2, <3>3, PagesOf DEF CleanOf, MemInv
      <4>2. CASE p \in v..(stop - 1) \/ p \in Span(c.vpn, c.done)
        BY SMTT(30), SMTT(45), SMTT(60), <1>4, <1>7, <1>15, <3>2, <4>1, <4>2 DEF Span
      <4>3. CASE p \notin v..(stop - 1) /\ p \notin Span(c.vpn, c.done)
        BY ZenonT(60), <1>10, <4>1, <4>3
      <4> QED BY ZenonT(60), <4>2, <4>3
    <3>4. NodePages(c.id)' = NodePages(c.id)
      BY ZenonT(60), <1>1 DEF NodePages
    <3>5. CleanOf(d)'
      BY ZenonT(60), <3>2, <3>3, <3>4 DEF CleanOf
    <3> QED BY ZenonT(60), <1>1, <1>11, <1>15, <2>2, <3>1, <3>5, MapMoves
  <2> QED BY <2>1, <2>2
<1>16. CASE /\ stop < v + c.n /\ c.fam \in {"sparse", "commit", "commit_run"}
            /\ op' = [op EXCEPT ![t] = IF c.fam = "commit_run" THEN Idle
                                       ELSE [c EXCEPT !.st = "rollback", !.pfn = Frameless]]
  <2>1. CASE c.fam = "commit_run"
    BY ZenonT(60), <1>1, <1>11, <1>16, <2>1, MapMoves DEF Idle
  <2>2. CASE c.fam # "commit_run"
    <3>1. PICK d : d = [c EXCEPT !.st = "rollback", !.pfn = Frameless]
      OBVIOUS
    <3>2. d.st = "rollback" /\ d.id = c.id /\ d.vpn = c.vpn /\ d.done = c.done /\ d.fam = c.fam
      BY ZenonT(60), <1>7, <3>1 DEF Calls
    <3>3. ASSUME d.fam \in {"map", "contiguous", "sparse"}, NEW p \in NodePages(c.id)
          PROVE  p \in Span(d.vpn, d.done) \/ pt'[p] = Empty
      <4>1. p \in Pages /\ (p \in Span(c.vpn, c.done) \/ pt[p] = Empty)
        BY SMTT(30), SMTT(45), SMTT(60), <1>7, <3>2, <3>3, PagesOf DEF CleanOf, MemInv
      <4>2. stop = v
        BY SMTT(30), SMTT(45), SMTT(60), <1>7, <1>8, <1>13, <1>16, <3>2, <3>3
      <4> QED BY ZenonT(60), <1>14, <3>2, <4>1, <4>2
    <3>4. NodePages(c.id)' = NodePages(c.id)
      BY <1>1 DEF NodePages
    <3>5. CleanOf(d)'
      BY ZenonT(60), <3>2, <3>3, <3>4 DEF CleanOf
    <3> QED BY ZenonT(60), <1>1, <1>11, <1>16, <2>2, <3>1, <3>5, MapMoves
  <2> QED BY <2>1, <2>2
<1>17. CASE stop < v + c.n /\ c.fam \in {"map", "contiguous"} /\ Stage(t, "release")
  <2>1. PICK d : d = [c EXCEPT !.st = "release"]
    BY ZenonT(60)
  <2>2. d.st = "release" /\ d.id = c.id
    BY ZenonT(60), <1>7, <2>1 DEF Calls
  <2>3. stop = v /\ c.done = 0
    BY SMTT(30), SMTT(45), SMTT(60), <1>7, <1>8, <1>13, <1>17 DEF Shape
  <2>4. ASSUME NEW p \in NodePages(c.id) PROVE pt'[p] = Empty
    <3>1. p \in Pages /\ (p \in Span(c.vpn, c.done) \/ pt[p] = Empty)
      BY ZenonT(60), <1>7, <1>17, PagesOf DEF CleanOf, MemInv
    <3>2. p \notin Span(c.vpn, c.done)
      BY SMTT(30), SMTT(45), SMTT(60), <1>7, <2>3 DEF Span
    <3> QED BY ZenonT(60), <1>14, <2>3, <3>1, <3>2
  <2>5. NodePages(c.id)' = NodePages(c.id)
    BY <1>1 DEF NodePages
  <2>6. CleanOf(d)'
    BY SMTT(30), SMTT(45), SMTT(60), <2>2, <2>4, <2>5 DEF CleanOf
  <2> QED BY ZenonT(60), <1>1, <1>3, <1>11, <1>17, <2>1, <2>6, MapMoves DEF Stage
<1> QED BY ZenonT(60), <1>5, <1>15, <1>16, <1>17 DEF After

LEMMA Map_RollbackUnmap ==
  ASSUME MemInv, MapInv, NEW t \in Threads, RollbackUnmap(t)
  PROVE  MapInv'
<1>1. /\ op[t].st = "rollback_unmap" /\ pt' = Unmapped(Span(op[t].vpn, op[t].done))
      /\ UNCHANGED <<local, node>>
  BY ZenonT(60) DEF RollbackUnmap
<1>2. /\ Working(t) /\ op[t] \in Calls /\ Shape(op[t]) /\ CleanOf(op[t]) /\ op[t].id \in Live
      /\ op[t].done \in Nat /\ op[t].done <= op[t].count /\ op[t].vpn \in Int
      /\ op[t].count \in Nat
  BY ZenonT(60), <1>1, AtWork DEF Working, MapInv, Cleanly
<1>3. /\ Span(op[t].vpn, op[t].done) \subseteq NodePages(op[t].id)
      /\ \A u \in Threads : u # t /\ Working(u) => op[u].id # op[t].id
  <2>1. op[t].vpn + 0 = op[t].vpn /\ 0 + op[t].done <= op[t].count
    BY <1>2
  <2>2. /\ Span(op[t].vpn + 0, op[t].done) \subseteq NodePages(op[t].id)
        /\ \A u \in Threads : u # t /\ Working(u) => op[u].id # op[t].id
    BY ZenonT(60), <1>2, <2>1, CallPages
  <2> QED BY <2>1, <2>2
<1>4. Empty # Managed
  BY ZenonT(60) DEF Empty, Managed
<1>5. MappedInside' /\ NoneManaged' /\ Kept(t) /\ CallsUndisturbed(t)
  <2>1. \A p \in Pages : pt'[p] = pt[p]
                         \/ (p \in NodePages(op[t].id) /\ pt'[p] # Managed /\ pt'[p] = Empty)
    BY <1>1, <1>3, <1>4 DEF Unmapped
  <2> QED BY ZenonT(60), <1>1, <1>2, <1>3, <2>1, OwnEntries
<1>6. CASE op[t].fam = "commit" /\ Return(t)
  BY ZenonT(60), <1>1, <1>5, <1>6, MapMoves DEF Return, Idle
<1>7. CASE op[t].fam # "commit" /\ Stage(t, "release")
  <2>1. PICK c : c = [op[t] EXCEPT !.st = "release"]
    BY ZenonT(60)
  <2>2. c.st = "release" /\ c.id = op[t].id
    BY ZenonT(60), <1>2, <2>1 DEF Calls
  <2>3. op[t].fam = "sparse"
    BY SMTT(30), SMTT(45), SMTT(60), <1>1, <1>2, <1>7 DEF Shape
  <2>4. ASSUME NEW p \in NodePages(op[t].id) PROVE pt'[p] = Empty
    <3>1. p \in Pages /\ (p \in Span(op[t].vpn, op[t].done) \/ pt[p] = Empty)
      BY ZenonT(60), <1>1, <1>2, <2>3, PagesOf DEF CleanOf, MemInv
    <3> QED BY ZenonT(60), <1>1, <3>1 DEF Unmapped
  <2>5. NodePages(c.id)' = NodePages(c.id)
    BY ZenonT(60), <1>1 DEF NodePages
  <2>6. CleanOf(c)'
    BY ZenonT(60), <2>2, <2>4, <2>5 DEF CleanOf
  <2> QED BY ZenonT(60), <1>1, <1>5, <1>7, <2>1, <2>6, MapMoves DEF Stage
<1> QED BY ZenonT(60), <1>6, <1>7 DEF RollbackUnmap

\* A range given back shows nothing.
LEMMA Map_Release ==
  ASSUME Counting, MemInv, MapInv, NEW t \in Threads, Release(t)
  PROVE  MapInv'
<1>1. /\ op[t].st = "release" /\ ReleasePages(op[t].vpn, op[t].count) /\ UNCHANGED <<local, pt>>
  BY ZenonT(60) DEF Release
<1>2. /\ Working(t) /\ op[t] \in Calls /\ CleanOf(op[t]) /\ op[t].id \in Live
  BY ZenonT(60), <1>1, AtWork DEF Working, MapInv, Cleanly
<1> DEFINE i == op[t].id
           gone == Releasable(op[t].vpn, op[t].count)
<1>3. /\ CallsUndisturbed(t) /\ gone \subseteq {i}
      /\ \/ gone = {} /\ UNCHANGED node
         \/ Live' = Live \ {i} /\ \A j \in Live' : node'[j] = node[j]
  BY ZenonT(60), <1>1, ReleaseStep DEF MemInv
<1>4. Kept(t) /\ NoneManaged'
  BY ZenonT(60), <1>1 DEF Kept, MapInv, NoneManaged
<1>5. MappedInside'
  <2>1. CASE UNCHANGED node
    BY ZenonT(60), <1>1, <2>1, MapUntouched
  <2>2. CASE gone # {} /\ Live' = Live \ {i} /\ \A j \in Live' : node'[j] = node[j]
    <3>1. op[t].vpn \in {node[i].base, Usable(i)}
      BY ZenonT(60), <1>3, <2>2 DEF Releasable
    <3>2. \A p \in NodePages(i) : pt[p] = Empty
      BY <1>1, <1>2, <3>1 DEF CleanOf
    <3>3. ASSUME NEW p \in Pages, pt'[p] # Empty PROVE (\E j \in NodeAt(p) : Usable(j) <= p)'
      <4>1. PICK j \in NodeAt(p) : Usable(j) <= p
        BY ZenonT(60), <1>1, <3>3 DEF MapInv, MappedInside
      <4>2. j \in Live /\ node[j].base <= p /\ p < node[j].limit
        BY DEF NodeAt
      <4>3. j # i
        <5>1. p \in Int /\ node[j].base \in Int /\ node[j].limit \in Int
          BY SMTT(30), SMTT(45), SMTT(60), <4>2, NodeFields, MemoryAssumption DEF MemInv, RangesInv, Pages
        <5>2. p \in NodePages(j)
          BY SMTT(30), SMTT(45), SMTT(60), <4>2, <5>1 DEF NodePages
        <5> QED BY SMTT(30), SMTT(45), SMTT(60), <1>1, <3>2, <3>3, <5>2
      <4>4. j \in Live' /\ node'[j] = node[j]
        BY SMTT(30), SMTT(45), SMTT(60), <2>2, <4>2, <4>3
      <4>5. j \in NodeAt(p)' /\ (Usable(j) <= p)'
        BY ZenonT(60), <4>1, <4>2, <4>4 DEF NodeAt, Usable
      <4> QED BY <4>5
    <3> QED BY ZenonT(60), <3>3 DEF MappedInside
  <2>3. CASE gone = {}
    BY SMTT(30), SMTT(45), SMTT(60), <1>1, <2>1, <2>3 DEF ReleasePages
  <2> QED BY SMTT(30), SMTT(45), SMTT(60), <1>3, <2>1, <2>2, <2>3
<1>6. CASE Stage(t, "unframe")
  <2>1. PICK c : c = [op[t] EXCEPT !.st = "unframe"]
    BY ZenonT(60)
  <2>2. c.st = "unframe"
    BY <1>2, <2>1 DEF Calls
  <2> QED BY ZenonT(60), <1>1, <1>3, <1>4, <1>5, <1>6, <2>1, <2>2, MapMoves DEF Stage
<1>7. CASE Return(t)
  BY ZenonT(60), <1>1, <1>3, <1>4, <1>5, <1>7, MapMoves DEF Return, Idle
<1> QED BY <1>6, <1>7 DEF Release

\* StMm_Free* begins with nothing done.
LEMMA Map_FreeBegins ==
  ASSUME MemInv, MapInv, NEW t \in Threads, NEW i \in Live, NEW v, NEW n,
         (v = node[i].vpn /\ n = node[i].count) \/ (v = Usable(i) /\ n = UsableCount(i)),
         op' = [op EXCEPT ![t] = FreeCall(i, v, n)], UNCHANGED <<local, node, pt>>
  PROVE  MapInv'
<1>1. PICK c : c = FreeCall(i, v, n)
  BY ZenonT(60)
<1>2. c \in Calls /\ c.st = "free" /\ c.done = 0
  BY SMTT(30), SMTT(45), SMTT(60), <1>1, FreeCallSound DEF MemInv, Phases
<1>3. c.vpn \in Int
  BY ZenonT(60), <1>2 DEF Calls
<1>4. CleanOf(c)
  BY <1>2, <1>3 DEF CleanOf, Span
<1> QED BY ZenonT(60), <1>1, <1>4, MapGoesOn

LEMMA Map_FreeFrame ==
  ASSUME MemInv, MapInv, NEW t \in Threads, FreeFrame(t)
  PROVE  MapInv'
<1>1. op[t].st = "free" /\ UNCHANGED <<local, node, pt>>
  BY ZenonT(60) DEF FreeFrame
<1>2. /\ Working(t) /\ op[t] \in Calls /\ CleanOf(op[t]) /\ op[t].vpn \in Int /\ op[t].done \in Nat
  BY <1>1, AtWork DEF Working, MapInv, Cleanly
<1>3. CASE ~Present(op[t].vpn + op[t].done) /\ op' = [op EXCEPT ![t].done = @ + 1]
  <2>1. PICK c : c = [op[t] EXCEPT !.done = op[t].done + 1]
    BY ZenonT(60)
  <2>2. c.st = "free" /\ c.vpn = op[t].vpn /\ c.done = op[t].done + 1
    BY SMTT(30), SMTT(45), SMTT(60), <1>1, <1>2, <2>1 DEF Calls
  <2>3. \A p \in Span(c.vpn, c.done) : p \in Span(op[t].vpn, op[t].done) \/ p = op[t].vpn + op[t].done
    BY <1>2, <2>2 DEF Span
  <2>4. CleanOf(c)
    BY ZenonT(60), <1>1, <1>2, <1>3, <2>2, <2>3 DEF CleanOf
  <2>5. op' = [op EXCEPT ![t] = c]
    BY ZenonT(60), <1>3, <2>1
  <2> QED BY ZenonT(60), <1>1, <2>4, <2>5, MapGoesOn
<1>4. CASE \E m : op' = [op EXCEPT ![t].st = "unmap", ![t].n = m]
  <2>1. PICK m : op' = [op EXCEPT ![t].st = "unmap", ![t].n = m]
    BY ZenonT(60), <1>4
  <2>2. PICK c : c = [op[t] EXCEPT !.st = "unmap", !.n = m]
    OBVIOUS
  <2>3. c.st = "unmap" /\ c.vpn = op[t].vpn /\ c.done = op[t].done
    BY ZenonT(60), <1>2, <2>2 DEF Calls
  <2>4. CleanOf(c)
    BY ZenonT(60), <1>1, <1>2, <2>3 DEF CleanOf
  <2>5. op' = [op EXCEPT ![t] = c]
    BY ZenonT(60), <2>1, <2>2 DEF MemInv, CallsInv, OpsOK
  <2> QED BY ZenonT(60), <1>1, <2>4, <2>5, MapGoesOn
<1> QED BY <1>3, <1>4 DEF FreeFrame

LEMMA Map_FreeUnmap ==
  ASSUME MemInv, MapInv, NEW t \in Threads, FreeUnmap(t)
  PROVE  MapInv'
<1>1. /\ op[t].st = "unmap" /\ pt' = Unmapped(Span(op[t].vpn + op[t].done, op[t].n))
      /\ op' = [op EXCEPT ![t].st = "free", ![t].done = @ + op[t].n]
      /\ UNCHANGED <<local, node>>
  BY DEF FreeUnmap
<1>2. /\ Working(t) /\ op[t] \in Calls /\ Shape(op[t]) /\ CleanOf(op[t]) /\ op[t].id \in Live
      /\ op[t].vpn \in Int /\ op[t].done \in Nat /\ op[t].n \in Nat /\ op[t].count \in Nat
  BY ZenonT(60), <1>1, AtWork DEF Working, MapInv, Cleanly
<1>3. op[t].done + op[t].n <= op[t].count
  BY <1>1, <1>2 DEF Shape
<1>4. /\ Span(op[t].vpn + op[t].done, op[t].n) \subseteq NodePages(op[t].id)
      /\ Span(op[t].vpn + op[t].done, op[t].n) \subseteq Pages
      /\ \A u \in Threads : u # t /\ Working(u) => op[u].id # op[t].id
  BY ZenonT(60), <1>2, <1>3, CallPages
<1>5. Empty # Managed /\ Empty.st # "present"
  BY ZenonT(60) DEF Empty, Managed
<1>6. MappedInside' /\ NoneManaged' /\ Kept(t) /\ CallsUndisturbed(t)
  <2>1. \A p \in Pages : pt'[p] = pt[p]
                         \/ (p \in NodePages(op[t].id) /\ pt'[p] # Managed /\ pt'[p] = Empty)
    BY <1>1, <1>4, <1>5 DEF Unmapped
  <2> QED BY SMTT(30), SMTT(45), SMTT(60), <1>1, <1>2, <1>4, <2>1, OwnEntries
<1>7. PICK c : c = [op[t] EXCEPT !.st = "free", !.done = op[t].done + op[t].n]
  OBVIOUS
<1>8. c.st = "free" /\ c.vpn = op[t].vpn /\ c.done = op[t].done + op[t].n
  BY ZenonT(60), <1>2, <1>7 DEF Calls
<1>9. ASSUME NEW p \in Span(c.vpn, c.done) PROVE ~Present(p)'
  <2>1. CASE p \in Span(op[t].vpn + op[t].done, op[t].n)
    BY SMTT(30), SMTT(45), SMTT(60), <1>1, <1>4, <1>5, <2>1 DEF Unmapped, Present
  <2>2. CASE p \notin Span(op[t].vpn + op[t].done, op[t].n)
    <3>1. p \in Span(op[t].vpn, op[t].done)
      BY SMTT(30), SMTT(45), SMTT(60), <1>2, <1>8, <2>2 DEF Span
    <3>2. p \in Pages
      <4>1. Span(op[t].vpn, op[t].count) \subseteq Pages
        BY ZenonT(60), <1>2, AtWork
      <4> QED BY SMTT(30), SMTT(45), SMTT(60), <1>2, <1>3, <3>1, <4>1 DEF Span
    <3>3. ~Present(p) /\ pt'[p] = pt[p]
      BY ZenonT(60), <1>1, <1>2, <2>2, <3>1, <3>2 DEF CleanOf, Unmapped
    <3> QED BY ZenonT(60), <3>3 DEF Present
  <2> QED BY <2>1, <2>2
<1>10. CleanOf(c)'
  BY <1>8, <1>9 DEF CleanOf
<1>11. op' = [op EXCEPT ![t] = c]
  BY ZenonT(60), <1>1, <1>7 DEF MemInv, CallsInv, OpsOK
<1> QED BY ZenonT(60), <1>1, <1>6, <1>10, <1>11, MapMoves

LEMMA Map_FreeRest ==
  ASSUME MemInv, MapInv, NEW t \in Threads, FreeRest(t)
  PROVE  MapInv'
<1>1. /\ op[t].st = "free" /\ op[t].done = op[t].count /\ Stage(t, "release")
      /\ pt' = IF local THEN Unmanaged(Span(op[t].vpn, op[t].count)) ELSE pt
      /\ UNCHANGED <<local, node>>
  BY DEF FreeRest
<1>2. /\ Working(t) /\ op[t] \in Calls /\ Shape(op[t]) /\ Inside(op[t]) /\ CleanOf(op[t])
      /\ op[t].id \in Live /\ op[t].vpn \in Int /\ op[t].count \in Nat
  BY ZenonT(60), <1>1, AtWork DEF Working, MapInv, Cleanly
<1> DEFINE i == op[t].id
           own == Span(op[t].vpn, op[t].count)
<1>3. own \subseteq NodePages(i) /\ \A u \in Threads : u # t /\ Working(u) => op[u].id # i
  <2>1. op[t].vpn + 0 = op[t].vpn /\ 0 + op[t].count <= op[t].count
    BY <1>2
  <2>2. /\ Span(op[t].vpn + 0, op[t].count) \subseteq NodePages(i)
        /\ \A u \in Threads : u # t /\ Working(u) => op[u].id # i
    BY ZenonT(60), <1>2, <2>1, CallPages
  <2> QED BY <2>1, <2>2
<1>4. Empty # Managed
  BY DEF Empty, Managed
<1>5. MappedInside' /\ NoneManaged' /\ Kept(t) /\ CallsUndisturbed(t)
  <2>1. \A p \in Pages : pt'[p] = pt[p]
                         \/ (p \in NodePages(i) /\ pt'[p] # Managed /\ pt'[p] = Empty)
    BY ZenonT(60), <1>1, <1>3, <1>4 DEF Unmanaged
  <2> QED BY ZenonT(60), <1>1, <1>2, <1>3, <2>1, OwnEntries
<1>6. ASSUME NEW p \in own PROVE pt'[p] = Empty
  <2>1. p \in Pages /\ ~Present(p)
    BY ZenonT(60), <1>1, <1>2, <1>3, PagesOf DEF CleanOf, MemInv
  <2>2. pt[p] = Empty \/ pt[p] = Managed
    BY <2>1 DEF MemInv, EntriesOK, Entries, Present
  <2>3. local \/ pt[p] = Empty
    BY ZenonT(60), <2>1, <2>2 DEF MapInv, NoneManaged
  <2> QED BY <1>1, <2>1, <2>2, <2>3 DEF Unmanaged
<1>7. PICK c : c = [op[t] EXCEPT !.st = "release"]
  BY ZenonT(60)
<1>8. c.st = "release" /\ c.id = i /\ c.vpn = op[t].vpn
  BY ZenonT(60), <1>2, <1>7 DEF Calls
<1>9. ASSUME op[t].vpn = node[i].base \/ op[t].vpn = Usable(i), NEW p \in NodePages(i)
      PROVE  pt'[p] = Empty
  <2>1. /\ p \in Pages /\ p \in Int /\ Usable(i) \in Int /\ node[i].base \in Int
        /\ node[i].limit \in Int
    BY ZenonT(60), <1>2, PagesOf, NodeFields DEF MemInv, RangesInv
  <2>2. op[t].vpn + op[t].count = node[i].limit
    BY ZenonT(60), <1>1, <1>2 DEF Inside, Shape
  <2>3. CASE p \in own
    BY ZenonT(60), <1>6, <2>3
  <2>4. CASE p \notin own
    <3>1. ~(Usable(i) <= p)
      BY SMTT(30), SMTT(45), SMTT(60), <1>2, <1>9, <2>1, <2>2, <2>4 DEF Span, NodePages
    <3>2. pt[p] = Empty
      BY ZenonT(60), <1>2, <3>1, GuardClean DEF MemInv, MapInv
    <3> QED BY ZenonT(60), <1>1, <2>1, <3>2 DEF Unmanaged
  <2> QED BY ZenonT(60), <2>3, <2>4
<1>10. NodePages(c.id)' = NodePages(c.id) /\ Usable(c.id)' = Usable(c.id)
  BY <1>1 DEF NodePages, Usable
<1>11. CleanOf(c)'
  BY ZenonT(60), <1>1, <1>8, <1>9, <1>10 DEF CleanOf
<1> QED BY ZenonT(60), <1>1, <1>5, <1>7, <1>11, MapMoves DEF Stage

\* StMm_Unmap* clears the usable pages; the guard page never showed anything.
LEMMA Map_UnmapBegins ==
  ASSUME MemInv, MapInv, NEW t \in Threads, NEW i \in Live, UnmapCall(t, i),
         \A u \in Threads : u # t /\ Working(u) => op[u].id # i, UNCHANGED <<local, node>>
  PROVE  MapInv'
<1>1. /\ pt' = Unmapped(Span(Usable(i), UsableCount(i)))
      /\ op' = [op EXCEPT ![t] = Call("release", "unmap", i, Usable(i), UsableCount(i))]
  BY ZenonT(60) DEF UnmapCall
<1>2. /\ Usable(i) \in Int /\ node[i].limit \in Int /\ node[i].base \in Int
      /\ node[i].base <= Usable(i)
  BY ZenonT(60), NodeFields DEF MemInv, RangesInv
<1>3. \A p \in NodePages(i) : Usable(i) <= p <=> p \in Span(Usable(i), UsableCount(i))
  BY SMTT(30), SMTT(45), SMTT(60), <1>2 DEF NodePages, Span, UsableCount
<1>4. Span(Usable(i), UsableCount(i)) \subseteq NodePages(i)
  BY <1>2 DEF NodePages, Span, UsableCount
<1>5. Empty # Managed
  BY ZenonT(60) DEF Empty, Managed
<1>6. MappedInside' /\ NoneManaged' /\ Kept(t) /\ CallsUndisturbed(t)
  <2>1. \A p \in Pages : pt'[p] = pt[p]
                         \/ (p \in NodePages(i) /\ pt'[p] # Managed /\ pt'[p] = Empty)
    BY ZenonT(60), <1>1, <1>4, <1>5 DEF Unmapped
  <2> QED BY ZenonT(60), <2>1, OwnEntries
<1>7. ASSUME NEW p \in NodePages(i) PROVE pt'[p] = Empty
  <2>1. p \in Pages
    BY ZenonT(60), PagesOf DEF MemInv
  <2>2. p \in Span(Usable(i), UsableCount(i)) \/ pt[p] = Empty
    BY ZenonT(60), <1>3, GuardClean DEF MemInv, MapInv
  <2> QED BY ZenonT(60), <1>1, <2>1, <2>2 DEF Unmapped
<1>8. PICK c : c = Call("release", "unmap", i, Usable(i), UsableCount(i))
  BY ZenonT(60)
<1>9. c.st = "release" /\ c.id = i
  BY ZenonT(60), <1>8 DEF Call
<1>10. NodePages(i)' = NodePages(i)
  BY DEF NodePages
<1>11. CleanOf(c)'
  BY ZenonT(60), <1>7, <1>9, <1>10 DEF CleanOf
<1> QED BY ZenonT(60), <1>1, <1>6, <1>8, <1>11, MapMoves

LEMMA Map_Free ==
  ASSUME MemInv, MapInv, NEW t \in Threads, NEW i \in NodeIds, Free(t, i)
  PROVE  MapInv'
<1>1. /\ i \in Live /\ op' = [op EXCEPT ![t] = FreeCall(i, node[i].vpn, node[i].count)]
      /\ UNCHANGED <<local, node, pt>>
  BY ZenonT(60) DEF Free
<1> QED BY ZenonT(60), <1>1, Map_FreeBegins

LEMMA Map_Unmap ==
  ASSUME MemInv, MapInv, NEW t \in Threads, NEW i \in NodeIds, Unmap(t, i)
  PROVE  MapInv'
<1>1. i \in Live /\ ~Busy(i) /\ UnmapCall(t, i) /\ UNCHANGED <<local, node>>
  BY ZenonT(60) DEF Unmap
<1>2. \A u \in Threads : Working(u) => op[u].id # i
  BY ZenonT(60), <1>1 DEF Busy, Working
<1> QED BY ZenonT(60), <1>1, <1>2, Map_UnmapBegins

LEMMA Map_CloseNext ==
  ASSUME Counting, MemInv, MapInv, NEW t \in Threads, CloseNext(t)
  PROVE  MapInv'
<1>1. AllIdle /\ Live # {} /\ UNCHANGED <<local, node>>
  BY DEF CloseNext
<1>2. Min(Live) \in Live
  <2>0. Live \subseteq NodeIds /\ NodeIds \subseteq Nat
    BY MemoryAssumption DEF Live
  <2>1. Live \in SUBSET Int /\ \A x \in Live : 0 <= x
    BY <2>0
  <2> QED BY SMTT(30), SMTT(45), SMTT(60), <1>1, <2>1, MinIsLeast
<1>3. PICK i : i = Min(Live)
  OBVIOUS
<1>4. i \in Live
  BY ZenonT(60), <1>2, <1>3
<1>5. \A u \in Threads : ~Working(u)
  BY <1>1 DEF AllIdle, Working, Idle
<1>6. CASE op' = [op EXCEPT ![t] = FreeCall(i, Usable(i), UsableCount(i))] /\ UNCHANGED pt
  BY ZenonT(60), <1>1, <1>4, <1>6, Map_FreeBegins
<1>7. CASE UnmapCall(t, i)
  BY ZenonT(60), <1>1, <1>4, <1>5, <1>7, Map_UnmapBegins
<1> QED BY ZenonT(60), <1>3, <1>6, <1>7 DEF CloseNext

-----------------------------------------------------------------------------
(* Page faults, protection changes and the life of the address space.        *)

\* StMm_HandlePageFault maps the page that faulted, which is usable by then.
LEMMA Map_Fault ==
  ASSUME Counting, MemInv, MapInv, NEW p \in Pages, Fault(p)
  PROVE  MapInv'
<1>1. local /\ AllIdle /\ UNCHANGED <<local, op>>
  BY DEF Fault
<1> DEFINE Grown(i) ==
             \/ p >= Usable(i) /\ UNCHANGED <<node, free_count>>
             \/ /\ CanGrow(i, p)
                /\ node' = [node EXCEPT ![i].base = @ - 1]
                /\ free_count' = free_count - 1
           Filled ==
             \/ UNCHANGED pt
             \/ \E b \in BlockFor(1), stop \in Stops(p, 1) : MapTo(p, stop, b.pfn)
<1>2. (\E i \in NodeAt(p) : Grown(i)) /\ Filled
  BY ZenonT(60) DEF Fault
<1>3. PICK i \in NodeAt(p) : Grown(i)
  BY ZenonT(60), <1>2
<1>4. /\ i \in Live /\ node[i].base <= p /\ p < node[i].limit /\ p \in Int
      /\ node[i].base \in Int /\ node[i].limit \in Int /\ Usable(i) \in Int
  BY SMTT(30), SMTT(45), SMTT(60), NodeFields, MemoryAssumption DEF NodeAt, MemInv, RangesInv, Pages
<1>5. /\ Live' = Live /\ Usable(i)' <= p /\ Usable(i)' <= Usable(i) /\ Usable(i)' \in Int
      /\ node'[i].base <= node[i].base /\ node'[i].base \in Int
      /\ node'[i].limit = node[i].limit /\ \A j \in Live \ {i} : node'[j] = node[j]
  <2>1. CASE p >= Usable(i) /\ UNCHANGED <<node, free_count>>
    BY SMTT(30), SMTT(45), SMTT(60), <1>4, <2>1 DEF Live, Usable
  <2>2. CASE /\ CanGrow(i, p) /\ node' = [node EXCEPT ![i].base = @ - 1]
             /\ free_count' = free_count - 1
    <3>1. /\ Live' = Live /\ Usable(i)' = Usable(i) - 1
          /\ node'[i].base = node[i].base - 1 /\ node'[i].limit = node[i].limit
          /\ \A j \in Live \ {i} : node'[j] = node[j]
      BY ZenonT(60), <1>1, <1>4, <2>2, GrowKeeps DEF MemInv
    <3>2. p = Usable(i) - 1
      BY <2>2 DEF CanGrow
    <3> QED BY SMTT(30), SMTT(45), SMTT(60), <1>4, <3>1, <3>2
  <2> QED BY ZenonT(60), <1>3, <2>1, <2>2
<1>6. \A q \in Pages : q # p => pt'[q] = pt[q]
  <2>1. ASSUME NEW b \in BlockFor(1), NEW stop \in Stops(p, 1), MapTo(p, stop, b.pfn),
               NEW q \in Pages, q # p
        PROVE  pt'[q] = pt[q]
    <3>1. stop \in Int /\ p <= stop /\ stop <= p + 1 /\ q \in Int
      BY SMTT(30), SMTT(45), SMTT(60), <1>4, StopsBound, MemoryAssumption DEF Pages
    <3>2. q \notin p..(stop - 1)
      BY SMTT(30), SMTT(45), SMTT(60), <1>4, <2>1, <3>1
    <3> QED BY ZenonT(60), <2>1, <3>2 DEF MapTo
  <2> QED BY ZenonT(60), <1>2, <2>1
<1>7. ASSUME NEW q \in Pages, pt'[q] # Empty PROVE (\E j \in NodeAt(q) : Usable(j) <= q)'
  <2>1. CASE q = p
    <3>1. i \in NodeAt(p)' /\ (Usable(i) <= p)'
      BY SMTT(30), SMTT(45), SMTT(60), <1>4, <1>5 DEF NodeAt
    <3> QED BY ZenonT(60), <2>1, <3>1
  <2>2. CASE q # p
    <3>1. PICK j \in NodeAt(q) : Usable(j) <= q
      BY ZenonT(60), <1>6, <1>7, <2>2 DEF MapInv, MappedInside
    <3>2. j \in Live /\ node[j].base <= q /\ q < node[j].limit /\ q \in Int
      BY SMTT(30), SMTT(45), SMTT(60), MemoryAssumption DEF NodeAt, Pages
    <3>3. CASE j = i
      <4>1. i \in NodeAt(q)' /\ (Usable(i) <= q)'
        BY SMTT(30), SMTT(45), SMTT(60), <1>4, <1>5, <3>1, <3>2, <3>3 DEF NodeAt
      <4> QED BY ZenonT(60), <4>1
    <3>4. CASE j # i
      <4>1. j \in Live' /\ node'[j] = node[j]
        BY ZenonT(60), <1>5, <3>2, <3>4
      <4>2. j \in NodeAt(q)' /\ (Usable(j) <= q)'
        BY ZenonT(60), <3>1, <3>2, <4>1 DEF NodeAt, Usable
      <4> QED BY ZenonT(60), <4>2
    <3> QED BY ZenonT(60), <3>3, <3>4
  <2> QED BY ZenonT(60), <2>1, <2>2
<1>8. MappedInside' /\ NoneManaged'
  BY <1>1, <1>7 DEF MappedInside, NoneManaged
<1> QED BY ZenonT(60), <1>1, <1>8, MapIdle

\* Ranges that stay where they are keep their entries.
LEMMA SameInside ==
  ASSUME MappedInside, UNCHANGED pt, Live' = Live,
         \A i \in Live : /\ node'[i].base = node[i].base /\ node'[i].limit = node[i].limit
                         /\ node'[i].guard = node[i].guard
  PROVE  MappedInside'
<1>1. ASSUME NEW p \in Pages, pt'[p] # Empty PROVE (\E j \in NodeAt(p) : Usable(j) <= p)'
  <2>1. PICK j \in NodeAt(p) : Usable(j) <= p
    BY ZenonT(60), <1>1 DEF MappedInside
  <2>2. j \in NodeAt(p)' /\ (Usable(j) <= p)'
    BY <2>1 DEF NodeAt, Usable
  <2> QED BY ZenonT(60), <2>2
<1> QED BY ZenonT(60), <1>1 DEF MappedInside

LEMMA Map_Protect ==
  ASSUME MemInv, MapInv, NEW v, NEW n, Protect(v, n)
  PROVE  MapInv'
<1>1. AllIdle /\ UNCHANGED <<local, pt, op>>
  BY ZenonT(60) DEF Protect
<1>2. PICK T : /\ T \subseteq Live
               /\ node' = [i \in NodeIds |-> IF i \in T
                                         THEN [node[i] EXCEPT !.guarded = FALSE, !.grow = FALSE]
                                         ELSE node[i]]
  <2> DEFINE stray(p) == \A i \in NodeAt(p) : p < Usable(i)
             touched == UNION {NodeAt(p) : p \in {p \in Span(v, n) : \A q \in v..p : ~stray(q)}}
             New(T) == node' = [i \in NodeIds |-> IF i \in T
                                         THEN [node[i] EXCEPT !.guarded = FALSE, !.grow = FALSE]
                                         ELSE node[i]]
  <2>1. New(touched)
    BY ZenonT(60) DEF Protect
  <2>2. touched \subseteq Live
    BY ZenonT(60) DEF NodeAt
  <2> HIDE DEF touched
  <2> QED BY ZenonT(60), <2>1, <2>2
<1>3. /\ \A x \in NodeT : x # NoNode
      /\ \A i \in Live : i \in NodeIds /\ node[i] \in NodeT
  BY NodeFields DEF MemInv, RangesInv, NodeT, NoNode, Live
<1>4. ASSUME NEW i \in Live
      PROVE  /\ node'[i] \in NodeT
             /\ node'[i].base = node[i].base /\ node'[i].limit = node[i].limit
             /\ node'[i].guard = node[i].guard
  BY ZenonT(60), <1>2, <1>3 DEF NodeT
<1>5. Live' = Live
  BY ZenonT(60), <1>2, <1>3, <1>4 DEF Live
<1>6. MappedInside' /\ NoneManaged'
  BY ZenonT(60), <1>1, <1>4, <1>5, SameInside DEF MapInv, NoneManaged
<1> QED BY <1>1, <1>6, MapIdle

LEMMA Map_Space ==
  ASSUME MemInv, MapInv, Close \/ RemoveSpace \/ CreateSpace
  PROVE  MapInv'
<1>1. CASE Close \/ RemoveSpace
  <2>1. AllIdle /\ UNCHANGED <<local, node, pt, op>>
    BY ZenonT(60), <1>1 DEF Close, RemoveSpace
  <2> QED BY ZenonT(60), <2>1, MapUntouched, MapIdle
<1>2. CASE CreateSpace
  <2>1. phase = "removed" /\ pt' = [p \in Pages |-> Empty] /\ UNCHANGED <<local, op>>
    BY <1>2 DEF CreateSpace
  <2>2. AllIdle
    BY <2>1 DEF MemInv, Phases
  <2>3. MappedInside' /\ NoneManaged'
    BY ZenonT(60), <2>1 DEF MappedInside, NoneManaged, Managed, Empty
  <2> QED BY ZenonT(60), <2>1, <2>2, <2>3, MapIdle
<1> QED BY ZenonT(60), <1>1, <1>2

LEMMA Map_Stutter ==
  ASSUME MapInv, UNCHANGED vars
  PROVE  MapInv'
<1>1. UNCHANGED <<local, node, pt, op>>
  BY DEF vars
<1>2. MappedInside' /\ NoneManaged'
  BY ZenonT(60), <1>1, MapUntouched
<1>3. Cleanly'
  BY ZenonT(60), <1>1 DEF MapInv, Cleanly, Working, CleanOf, NodePages, Usable, Present
<1> QED BY ZenonT(60), <1>2, <1>3 DEF MapInv

-----------------------------------------------------------------------------
LEMMA InitMapInv ==
  ASSUME Init
  PROVE  MapInv
<1>1. \A p \in Pages : pt[p] = Empty
  BY ZenonT(60) DEF Init
<1>2. \A t \in Threads : ~Working(t)
  BY DEF Init, Working, Idle
<1> QED BY <1>1, <1>2 DEF MapInv, MappedInside, Cleanly, NoneManaged, Managed, Empty

LEMMA NextMapInv ==
  ASSUME Counting, OneTable, MemInv, MapInv, [Next]_vars
  PROVE  MapInv'
<1>1. ASSUME NEW t \in Threads, Start(t) PROVE MapInv'
  <2>1. ASSUME NEW r \in IF local THEN LocalRequests ELSE GlobalRequests,
               \/ ReserveRange(t, r) \/ ReserveRangeTo(t, r)
               \/ MapRange(t, r) \/ MapRangeTo(t, r)
               \/ AllocateContiguous(t, r) \/ AllocateContiguousTo(t, r)
               \/ AllocateGlobalSparse(t, r) \/ AllocateGlobalSparseTo(t, r)
               \/ AllocateLocalSparse(t, r) \/ AllocateLocalSparseTo(t, r)
               \/ AllocateLocalImageTo(t, r)
        PROVE  MapInv'
    <3>1. r \in Requests
      BY ZenonT(60), MemoryAssumption
    <3>2. \/ MakeReservation(r)
          \/ ReserveToMap(t, r) \/ FramesFirst(t, r) \/ InBatches(t, r)
          \/ Ready(t) /\ local /\ Lazily(r)
      BY <2>1 DEF ReserveRange, ReserveRangeTo, MapRange, MapRangeTo, AllocateContiguous,
         AllocateContiguousTo, AllocateGlobalSparse, AllocateGlobalSparseTo,
         AllocateLocalSparse, AllocateLocalSparseTo, AllocateLocalImageTo
    <3>3. Ready(t) /\ local => AllIdle
      BY DEF Ready
    <3> QED BY ZenonT(60), <3>1, <3>2, <3>3, Map_MakeReservation, Map_ReserveToMap, Map_FramesFirst,
               Map_InBatches, Map_Lazily
  <2>2. ASSUME NEW i \in NodeIds, Free(t, i) PROVE MapInv'
    BY ZenonT(60), <2>2, Map_Free
  <2>3. ASSUME NEW i \in NodeIds, Unmap(t, i) PROVE MapInv'
    BY ZenonT(60), <2>3, Map_Unmap
  <2>4. ASSUME NEW i \in NodeIds, NEW v \in Pages, NEW n \in 1..MaxCommit, Commit(t, i, v, n)
        PROVE  MapInv'
    BY ZenonT(60), <2>4, Map_Commit
  <2> QED BY SMTT(30), SMTT(45), SMTT(60), <1>1, <2>1, <2>2, <2>3, <2>4 DEF Start
<1>2. ASSUME NEW t \in Threads, Step(t) PROVE MapInv'
  BY ZenonT(60), <1>2, Map_ReserveForFrames, Map_AllocateBatch, Map_MapMemory, Map_RollbackFrames,
     Map_RollbackUnmap, Map_Release, Map_ReleaseFrames, Map_FreeFrame, Map_FreeUnmap,
     Map_FreeRest DEF Step
<1>3. ASSUME NEW t \in Threads, CloseNext(t) PROVE MapInv'
  BY <1>3, Map_CloseNext
<1>4. ASSUME NEW p \in Pages, Fault(p) PROVE MapInv'
  BY <1>4, Map_Fault
<1>5. ASSUME NEW p \in Pages, NEW n \in 1..MaxCommit, Protect(p, n) PROVE MapInv'
  BY <1>5, Map_Protect
<1>6. CASE Close \/ RemoveSpace \/ CreateSpace
  BY <1>6, Map_Space
<1>7. CASE UNCHANGED vars
  BY <1>7, Map_Stutter
<1> QED BY ZenonT(60), <1>1, <1>2, <1>3, <1>4, <1>5, <1>6, <1>7 DEF Next

=============================================================================
