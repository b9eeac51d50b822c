---------------------------- MODULE Memory_lemmas ----------------------------
(***************************************************************************)
(* The inductive invariant of module Memory, and what its operators keep:  *)
(* reserving and releasing a range, writing page table entries, taking a   *)
(* block of frames, and moving one call on.                                *)
(***************************************************************************)
EXTENDS Memory, TLAPS

-----------------------------------------------------------------------------
(* Numbers and intervals.                                                    *)

\* What the proofs use of numbers and finite sets: a set of integers with a
\* lower bound has a least element, a range that is added to a set of pages
\* counts fully, and no set of pages is larger than the domain.  Memory_proofs
\* proves it.
Counting ==
  /\ \A S \in SUBSET Int, lo \in Int : S # {} /\ (\A x \in S : lo <= x) =>
       \E m \in S : \A y \in S : m <= y
  /\ \A S \in SUBSET Pages, b \in Int, n \in Nat :
       Span(b, n) \subseteq Pages /\ S \cap Span(b, n) = {} =>
         Cardinality(S \cup Span(b, n)) = Cardinality(S) + n
  /\ \A S \in SUBSET Pages : /\ Cardinality(S) \in Nat /\ Cardinality(Pages) \in Nat
                             /\ Cardinality(S) <= Cardinality(Pages)
  /\ Cardinality({}) = 0

\* Min, the address and the slot the VMM picks, is an element of its set.
LEMMA MinIsLeast ==
  ASSUME Counting, NEW S \in SUBSET Int, S # {}, NEW lo \in Int, \A x \in S : lo <= x
  PROVE  Min(S) \in S /\ \A y \in S : Min(S) <= y
<1>1. \E m \in S : \A y \in S : m <= y
  BY Zenon DEF Counting
<1> QED BY Zenon, <1>1 DEF Min

\* A range that is taken out of a set of pages, or added to it, counts fully.
LEMMA RangeCounts ==
  ASSUME Counting, NEW S \in SUBSET Pages, NEW b \in Int, NEW n \in Nat,
         Span(b, n) \subseteq Pages, S \cap Span(b, n) = {}
  PROVE  Cardinality(S \cup Span(b, n)) = Cardinality(S) + n
BY Zenon DEF Counting

\* No set of pages is larger than the domain.
LEMMA CountBound ==
  ASSUME Counting, NEW S \in SUBSET Pages
  PROVE  /\ Cardinality(S) \in Nat /\ Cardinality(Pages) \in Nat
         /\ Cardinality(S) <= Cardinality(Pages)
BY Zenon DEF Counting

-----------------------------------------------------------------------------
(* The inductive invariant.                                                  *)

NodeT ==
  [base : Int, limit : Int, guard : {0, 1}, map : BOOLEAN, sparse : BOOLEAN,
   policy : {"image", "zero", "physical"}, guarded : BOOLEAN, grow : BOOLEAN,
   vpn : Int, count : Int]

\* A reservation lies in the domain, ends where its caller's range ends, and
\* begins below it only by its guard page and by growth.
NodeOK(i) ==
  /\ FirstPage <= node[i].base /\ node[i].limit <= LastPage + 1
  /\ Usable(i) <= node[i].vpn /\ node[i].vpn < node[i].limit
  /\ node[i].limit = node[i].vpn + node[i].count
  /\ Usable(i) < node[i].vpn => local /\ node[i].guard = 1

NodesOK ==
  /\ node \in [NodeIds -> NodeT \cup {NoNode}]
  /\ \A i \in Live : NodeOK(i)

Apart ==
  \A i, j \in Live : i # j => node[i].limit <= node[j].base \/ node[j].limit <= node[i].base

Covered == {p \in Pages : NodeAt(p) # {}}
Counted == free_count = Cardinality(Pages) - Cardinality(Covered)

EntriesOK ==
  /\ pt \in [Pages -> Entries]
  /\ tables \subseteq {Table(p) : p \in Pages}

BlocksOK ==
  \A b \in blocks : b \in [pfn : Int, size : Nat \ {0}] /\ FramesOf(b) \subseteq 0..(NumFrames - 1)

\* The calls in progress: waiting for a range, or at work.
Waiting == [st : {"reserve"}, req : Requests, pfn : 0..NumFrames]
Calls ==
  [st : {"map", "batch", "rollback", "rollback_unmap", "release", "unframe", "free", "unmap"},
   fam : {"map", "contiguous", "sparse", "commit", "commit_run", "free", "unmap"},
   id : NodeIds, vpn : Int, count : Nat, done : Nat,
   pfn : 0..NumFrames \cup {Frameless}, n : Nat]

\* Which stages each kind of call goes through, and how far it has got.
Shape(c) ==
  /\ c.count > 0 /\ c.done <= c.count
  /\ c.st = "batch" => c.fam \in {"sparse", "commit"} /\ c.done < c.count
  /\ c.st = "map" =>
       /\ c.fam \in {"map", "contiguous", "sparse", "commit", "commit_run"}
       /\ c.n > 0 /\ c.done + c.n <= c.count /\ c.pfn # Frameless
       /\ c.fam \in {"map", "contiguous", "commit_run"} => c.done = 0 /\ c.n = c.count
  /\ c.st \in {"rollback", "rollback_unmap"} => c.fam \in {"sparse", "commit"}
  /\ c.st = "release" => c.fam \in {"map", "contiguous", "sparse", "free", "unmap"}
  /\ c.st = "unframe" => c.fam = "contiguous"
  /\ c.st \in {"free", "unmap"} => c.fam = "free"
  /\ c.st = "unmap" => c.n > 0 /\ c.done + c.n <= c.count

OpsOK ==
  /\ op \in [Threads -> {Idle} \cup Waiting \cup Calls]
  /\ \A t \in Threads : op[t] \in Calls => Shape(op[t])

\* A thread that works on a reservation (after "unframe" it no longer does).
Working(t) == op[t].st \notin {"idle", "reserve", "unframe"}

\* A protection change took the guard flag of a stack that had grown.
Dropped(i) == node[i].guard = 1 /\ ~node[i].guarded /\ node[i].base + 1 < node[i].vpn

\* The pages of a call belong to its reservation; one that will give the range
\* back names it by its end and one of its two beginnings.
Inside(c) ==
  /\ c.id \in Live
  /\ node[c.id].base <= c.vpn /\ c.vpn + c.count <= node[c.id].limit
  /\ c.fam # "free" => Usable(c.id) <= c.vpn
  /\ c.fam \in {"map", "contiguous", "sparse", "unmap"} =>
       c.vpn = Usable(c.id) /\ c.vpn + c.count = node[c.id].limit
  /\ c.fam = "free" =>
       /\ c.vpn + c.count = node[c.id].limit
       /\ c.vpn = node[c.id].base \/ c.vpn = Usable(c.id) \/ Dropped(c.id)

CallsInside == \A t \in Threads : Working(t) => Inside(op[t])

\* No two threads work on one reservation.
Alone ==
  \A t, u \in Threads : t # u /\ Working(t) /\ Working(u) => op[t].id # op[u].id

Phases ==
  /\ local \in BOOLEAN /\ panicked \in BOOLEAN
  /\ phase \in {"open", "closing", "removed"}
  /\ phase # "open" => local
  /\ phase = "removed" => AllIdle

RangesInv == NodesOK /\ Apart /\ Counted
CallsInv == OpsOK /\ CallsInside /\ Alone
MemInv == Phases /\ RangesInv /\ EntriesOK /\ BlocksOK /\ CallsInv

-----------------------------------------------------------------------------
(* Reservations.                                                             *)

\* The page counts of a request are positive.
LEMMA RequestSizes ==
  ASSUME NEW r \in Requests
  PROVE  /\ r.count \in Nat /\ r.count > 0 /\ Guard(r) \in {0, 1}
         /\ Total(r) \in Nat /\ Total(r) = r.count + Guard(r) /\ Total(r) > 0
BY DEF Requests, Guard, Total

\* Whatever policy finds the range, it is free, in the domain and not mapped.
LEMMA PlacementSound ==
  ASSUME Counting, NEW r \in Requests, NEW b \in Placement(r)
  PROVE  b \in Int /\ FreeRange(b, Total(r)) /\ RangeUnmapped(b, Total(r))
<1>0. /\ Pages \in SUBSET Int /\ FirstPage \in Int
      /\ \A x \in Pages : FirstPage <= x
  BY MemoryAssumption DEF Pages
<1>1. CASE r.at # Anywhere
  <2>1. r.at \in Int /\ Guard(r) \in Int
    BY <1>1, RequestSizes DEF Requests
  <2> QED BY <1>1, <2>1 DEF Placement
<1>2. CASE r.at = Anywhere /\ r.top
  <2>1. b \in LastFit(Total(r))
    BY <1>2 DEF Placement
  <2>2. b \in {c \in Pages : FreeRange(c, Total(r)) /\ c + Total(r) <= LastPage + 1}
        /\ RangeUnmapped(b, Total(r))
    BY <2>1 DEF LastFit
  <2> QED BY <1>0, <2>2
<1>3. CASE r.at = Anywhere /\ ~r.top
  <2> DEFINE fits == {c \in Pages : FreeRange(c, Total(r)) /\ RangeUnmapped(c, Total(r))}
  <2>1. b \in FirstFit(Total(r))
    BY <1>3 DEF Placement
  <2>2. fits # {} /\ b = Min(fits)
    BY <2>1 DEF FirstFit
  <2>3. fits \in SUBSET Int /\ \A x \in fits : FirstPage <= x
    BY ZenonT(60), <1>0
  <2> HIDE DEF fits
  <2>4. b \in fits
    BY ZenonT(60), <1>0, <2>2, <2>3, MinIsLeast
  <2> QED BY <1>0, <2>4 DEF fits
<1> QED BY <1>1, <1>2, <1>3

\* A new reservation takes a slot that is not in use.
LEMMA SlotFree ==
  ASSUME Counting, NEW i \in Slot
  PROVE  i \in NodeIds /\ i \notin Live
<1>1. NodeIds \ Live # {} /\ i = Min(NodeIds \ Live)
  BY DEF Slot, Live
<1>0. \A x \in NodeIds : x \in Int /\ 0 <= x
  BY MemoryAssumption
<1>2. (NodeIds \ Live) \in SUBSET Int /\ 0 \in Int /\ \A x \in NodeIds \ Live : 0 <= x
  BY <1>0
<1>3. i \in NodeIds \ Live
  BY <1>1, <1>2, MinIsLeast
<1> QED BY <1>3

\* The node create_reservation_node fills in for a request.
LEMMA NodeForType ==
  ASSUME NEW r \in Requests, NEW b \in Int, local \in BOOLEAN
  PROVE  /\ NodeFor(r, b) \in NodeT /\ NodeFor(r, b) # NoNode
         /\ NodeFor(r, b).base = b /\ NodeFor(r, b).limit = b + Total(r)
         /\ NodeFor(r, b).guard = Guard(r) /\ NodeFor(r, b).vpn = b + Guard(r)
         /\ NodeFor(r, b).count = r.count
<1>1. /\ Total(r) \in Nat /\ Guard(r) \in {0, 1} /\ r.count \in Nat
      /\ r.guard \in BOOLEAN /\ r.grow \in BOOLEAN
  BY RequestSizes DEF Requests
<1>2. SparseLayout(r) \in BOOLEAN /\ Policy(r) \in {"image", "zero", "physical"}
  BY DEF SparseLayout, Policy
<1>3. b + Guard(r) \in Int /\ b + Total(r) \in Int
  BY <1>1
<1>4. (r.how = "map") \in BOOLEAN
  OBVIOUS
<1>5. NodeFor(r, b) \in NodeT
  BY <1>1, <1>2, <1>3, <1>4 DEF NodeFor, NodeT
<1>6. NodeFor(r, b) # NoNode
  BY DEF NodeFor, NoNode
<1> QED BY <1>5, <1>6 DEF NodeFor

\* Where a reservation for r can be made: a free, unmapped range of the domain
\* and a slot not in use.
LEMMA PlacesSound ==
  ASSUME Counting, NEW r \in Requests, NEW at \in Places(r)
  PROVE  /\ at[1] \in Int /\ FreeRange(at[1], Total(r)) /\ RangeUnmapped(at[1], Total(r))
         /\ at[2] \in NodeIds /\ at[2] \notin Live /\ phase = "open"
<1>1. at[1] \in Placement(r) /\ at[2] \in Slot /\ phase = "open"
  BY DEF Places
<1> QED BY <1>1, PlacementSound, SlotFree

\* StVmm_Reserve: the new reservation and nothing else.
LEMMA ReserveAdds ==
  ASSUME Counting, RangesInv, local \in BOOLEAN, NEW r \in Requests, NEW at \in Places(r), Reserve(r, at)
  PROVE  /\ node' \in [NodeIds -> NodeT \cup {NoNode}] /\ Live' = Live \cup {at[2]}
         /\ node'[at[2]] = NodeFor(r, at[1])
         /\ \A j \in Live : j # at[2] /\ node'[j] = node[j]
<1>1. at[1] \in Int /\ at[2] \in NodeIds /\ at[2] \notin Live
  BY PlacesSound
<1>2. node \in [NodeIds -> NodeT \cup {NoNode}]
  BY DEF RangesInv, NodesOK
<1>3. NodeFor(r, at[1]) \in NodeT /\ NodeFor(r, at[1]) # NoNode
  BY <1>1, NodeForType
<1>4. node' = [node EXCEPT ![at[2]] = NodeFor(r, at[1])]
  BY DEF Reserve
<1>5. /\ node' \in [NodeIds -> NodeT \cup {NoNode}] /\ node'[at[2]] = NodeFor(r, at[1])
      /\ \A j \in NodeIds : j # at[2] => node'[j] = node[j]
  BY <1>1, <1>2, <1>3, <1>4
<1>6. Live' = Live \cup {at[2]}
  BY <1>1, <1>3, <1>5 DEF Live
<1>7. \A j \in Live : j # at[2] /\ node'[j] = node[j]
  BY <1>1, <1>5 DEF Live
<1> QED BY <1>5, <1>6, <1>7

\* The fields of a reservation.
LEMMA NodeFields ==
  ASSUME NodesOK, NEW i \in Live
  PROVE  /\ node[i] \in NodeT /\ node[i].base \in Int /\ node[i].limit \in Int
         /\ node[i].guard \in {0, 1} /\ node[i].vpn \in Int /\ node[i].count \in Int
         /\ Usable(i) \in Int /\ node[i].base <= Usable(i) /\ Usable(i) < node[i].limit
<1>1. i \in NodeIds /\ node[i] # NoNode /\ NodeOK(i) /\ node[i] \in NodeT \cup {NoNode}
  BY DEF NodesOK, Live
<1>2. node[i] \in NodeT
  BY <1>1
<1>3. /\ node[i].base \in Int /\ node[i].limit \in Int /\ node[i].guard \in {0, 1}
      /\ node[i].vpn \in Int /\ node[i].count \in Int
  BY <1>2 DEF NodeT
<1> QED BY <1>1, <1>2, <1>3 DEF NodeOK, Usable

LEMMA ReserveKeeps ==
  ASSUME Counting, RangesInv, local \in BOOLEAN, NEW r \in Requests, NEW at \in Places(r), Reserve(r, at),
         local' = local
  PROVE  RangesInv'
<1> DEFINE b == at[1]
           s == at[2]
           n == Total(r)
<1>1. /\ node' \in [NodeIds -> NodeT \cup {NoNode}] /\ Live' = Live \cup {s}
      /\ node'[s] = NodeFor(r, b)
      /\ \A j \in Live : j # s /\ node'[j] = node[j]
  BY ReserveAdds
<1>2. b \in Int /\ FreeRange(b, n) /\ s \notin Live
  BY PlacesSound
<1>3. /\ r.count \in Nat /\ r.count > 0 /\ Guard(r) \in {0, 1}
      /\ n \in Nat /\ n = r.count + Guard(r) /\ n > 0
  BY RequestSizes
<1>4. free_count' = free_count - n
  BY DEF Reserve
<1>a. /\ FirstPage \in Int /\ LastPage \in Int /\ FirstPage <= b /\ b + n - 1 <= LastPage
      /\ \A i \in Live : b + n <= node[i].base \/ node[i].limit <= b
  BY <1>2, MemoryAssumption DEF FreeRange
<1>5. /\ node'[s].base = b /\ node'[s].limit = b + n /\ node'[s].guard = Guard(r)
      /\ node'[s].vpn = b + Guard(r) /\ node'[s].count = r.count
  BY <1>1, <1>2, NodeForType
<1> HIDE DEF b, s, n
<1>6. NodesOK'
  <2>1. NodeOK(s)'
    BY <1>2, <1>3, <1>5, <1>a DEF NodeOK, Usable
  <2>2. \A j \in Live : NodeOK(j)'
    <3> SUFFICES ASSUME NEW j \in Live PROVE NodeOK(j)'
      OBVIOUS
    <3>1. NodeOK(j) /\ node'[j] = node[j]
      BY <1>1 DEF RangesInv, NodesOK
    <3> QED BY <3>1 DEF NodeOK, Usable
  <2> QED BY <1>1, <2>1, <2>2 DEF NodesOK
<1>7. Apart'
  <2>1. ASSUME NEW j \in Live
        PROVE  node'[s].limit <= node'[j].base \/ node'[j].limit <= node'[s].base
    BY <1>1, <1>5, <1>a
  <2>2. ASSUME NEW i \in Live, NEW j \in Live, i # j
        PROVE  node'[i].limit <= node'[j].base \/ node'[j].limit <= node'[i].base
    BY <1>1, <2>2 DEF RangesInv, Apart
  <2> QED BY <1>1, <2>1, <2>2 DEF Apart
<1>8. Counted'
  <2>1. Span(b, n) \subseteq Pages
    BY <1>2, <1>3, <1>a DEF Span, Pages
  <2>2. Covered \cap Span(b, n) = {}
    <3> SUFFICES ASSUME NEW p \in Span(b, n), NEW i \in NodeAt(p) PROVE FALSE
      BY DEF Covered
    <3>1. i \in Live /\ node[i].base <= p /\ p < node[i].limit /\ p \in Int /\ b <= p /\ p < b + n
      BY <1>2, <1>3 DEF NodeAt, Span
    <3>2. node[i].base \in Int /\ node[i].limit \in Int
      BY <3>1, NodeFields DEF RangesInv
    <3> QED BY <1>2, <1>3, <1>a, <3>1, <3>2
  <2>3. Covered' = Covered \cup Span(b, n)
    <3>1. ASSUME NEW p \in Pages
          PROVE  NodeAt(p)' = NodeAt(p) \cup (IF p \in Span(b, n) THEN {s} ELSE {})
      <4>1. p \in Int
        BY <3>1, MemoryAssumption DEF Pages
      <4>2. node'[s].base <= p /\ p < node'[s].limit <=> p \in Span(b, n)
        BY <1>2, <1>3, <1>5, <4>1 DEF Span
      <4>3. \A j \in Live : node'[j].base <= p /\ p < node'[j].limit <=> node[j].base <= p /\ p < node[j].limit
        BY <1>1
      <4> QED BY <1>1, <4>2, <4>3 DEF NodeAt
    <3>2. ASSUME NEW p \in Pages
          PROVE  NodeAt(p)' # {} <=> NodeAt(p) # {} \/ p \in Span(b, n)
      BY <3>1
    <3> QED BY <2>1, <3>2 DEF Covered
  <2>4. Cardinality(Covered \cup Span(b, n)) = Cardinality(Covered) + n
    BY <1>2, <1>3, <2>1, <2>2, RangeCounts DEF Covered
  <2>5. Cardinality(Covered) \in Nat /\ Cardinality(Pages) \in Nat
    BY CountBound DEF Covered
  <2>6. free_count = Cardinality(Pages) - Cardinality(Covered)
    BY DEF RangesInv, Counted
  <2>7. Cardinality(Covered') = Cardinality(Covered) + n
    BY <2>3, <2>4
  <2> QED BY <1>3, <1>4, <2>5, <2>6, <2>7 DEF Counted
<1> QED BY <1>6, <1>7, <1>8 DEF RangesInv

\* A change of flags only leaves every range where it is.
LEMMA SameRanges ==
  ASSUME RangesInv, local' = local, free_count' = free_count, Live' = Live,
         node' \in [NodeIds -> NodeT \cup {NoNode}],
         \A i \in Live : /\ node'[i].base = node[i].base /\ node'[i].limit = node[i].limit
                         /\ node'[i].guard = node[i].guard /\ node'[i].vpn = node[i].vpn
                         /\ node'[i].count = node[i].count
  PROVE  RangesInv'
<1>1. NodesOK'
  <2> SUFFICES ASSUME NEW i \in Live PROVE NodeOK(i)'
    BY DEF NodesOK
  <2>1. NodeOK(i)
    BY DEF RangesInv, NodesOK
  <2> QED BY <2>1 DEF NodeOK, Usable
<1>2. Apart'
  BY DEF RangesInv, Apart
<1>3. \A p \in Pages : NodeAt(p)' = NodeAt(p)
  BY DEF NodeAt
<1>4. Covered' = Covered
  BY <1>3 DEF Covered
<1> QED BY <1>1, <1>2, <1>4 DEF RangesInv, Counted

\* Live ranges that end at one page are one range.
LEMMA OneEnd ==
  ASSUME RangesInv, NEW i \in Live, NEW j \in Live, node[i].limit = node[j].limit
  PROVE  i = j
<1>1. /\ node[i].base \in Int /\ node[i].limit \in Int /\ node[i].base < node[i].limit
      /\ node[j].base \in Int /\ node[j].limit \in Int /\ node[j].base < node[j].limit
  BY NodeFields DEF RangesInv
<1> QED BY <1>1 DEF RangesInv, Apart

\* A page belongs to one reservation at most.
LEMMA OneOwner ==
  ASSUME RangesInv, NEW p \in Int, NEW i \in NodeAt(p), NEW j \in NodeAt(p)
  PROVE  i = j
<1>1. i \in Live /\ j \in Live /\ node[i].base <= p /\ p < node[i].limit
      /\ node[j].base <= p /\ p < node[j].limit
  BY DEF NodeAt
<1>2. /\ node[i].base \in Int /\ node[i].limit \in Int
      /\ node[j].base \in Int /\ node[j].limit \in Int
  BY <1>1, NodeFields DEF RangesInv
<1> QED BY <1>1, <1>2 DEF RangesInv, Apart

\* StVmm_Release of a range that is found: that reservation goes.
LEMMA ReleaseKeeps ==
  ASSUME Counting, RangesInv, NEW i \in Live, node' = [node EXCEPT ![i] = NoNode],
         free_count' = free_count + (node[i].limit - node[i].base), local' = local
  PROVE  /\ RangesInv' /\ Live' = Live \ {i}
         /\ \A j \in Live' : node'[j] = node[j]
<1> DEFINE b == node[i].base
           n == node[i].limit - node[i].base
<1>1. i \in NodeIds /\ node \in [NodeIds -> NodeT \cup {NoNode}]
  BY DEF RangesInv, NodesOK, Live
<1>2. /\ node' \in [NodeIds -> NodeT \cup {NoNode}] /\ node'[i] = NoNode
      /\ \A j \in NodeIds : j # i => node'[j] = node[j]
  BY <1>1
<1>3. Live' = Live \ {i} /\ \A j \in Live' : node'[j] = node[j]
  BY <1>1, <1>2 DEF Live
<1>4. /\ b \in Int /\ n \in Nat /\ node[i].limit = b + n /\ FirstPage <= b
      /\ b + n <= LastPage + 1 /\ FirstPage \in Int /\ LastPage \in Int
  <2>1. /\ node[i].base \in Int /\ node[i].limit \in Int /\ node[i].base < node[i].limit
        /\ NodeOK(i)
    BY NodeFields DEF RangesInv, NodesOK
  <2> QED BY <2>1, MemoryAssumption DEF NodeOK
<1> HIDE DEF b, n
<1>5. NodesOK'
  <2> SUFFICES ASSUME NEW j \in Live' PROVE NodeOK(j)'
    BY <1>2 DEF NodesOK
  <2>1. NodeOK(j) /\ node'[j] = node[j]
    BY <1>3 DEF RangesInv, NodesOK
  <2> QED BY <2>1 DEF NodeOK, Usable
<1>6. Apart'
  BY <1>3 DEF RangesInv, Apart
<1>7. Counted'
  <2>1. Span(b, n) \subseteq Pages
    BY <1>4 DEF Span, Pages
  <2>2. ASSUME NEW p \in Pages
        PROVE  NodeAt(p)' = NodeAt(p) \ {i} /\ (p \in Span(b, n) <=> i \in NodeAt(p))
    <3>1. p \in Int
      BY <2>2, MemoryAssumption DEF Pages
    <3>2. p \in Span(b, n) <=> i \in NodeAt(p)
      BY <1>4, <3>1 DEF Span, NodeAt, b
    <3>3. NodeAt(p)' = NodeAt(p) \ {i}
      BY <1>3 DEF NodeAt
    <3> QED BY <3>2, <3>3
  <2>3. ASSUME NEW p \in Span(b, n) PROVE NodeAt(p) = {i}
    <3>1. p \in Pages /\ p \in Int
      BY <2>1, <2>3, MemoryAssumption DEF Pages
    <3>2. i \in NodeAt(p)
      BY <2>2, <2>3, <3>1
    <3> QED BY <3>1, <3>2, OneOwner
  <2>4. Covered' \subseteq Pages /\ Covered' \cap Span(b, n) = {}
    BY <2>2, <2>3 DEF Covered
  <2>5. Covered = Covered' \cup Span(b, n)
    BY <2>1, <2>2, <2>3 DEF Covered
  <2>6. Cardinality(Covered' \cup Span(b, n)) = Cardinality(Covered') + n
    BY <1>4, <2>1, <2>4, RangeCounts
  <2>7. Cardinality(Covered') \in Nat /\ Cardinality(Pages) \in Nat
    BY <2>4, CountBound
  <2>8. free_count = Cardinality(Pages) - Cardinality(Covered)
    BY DEF RangesInv, Counted
  <2>9. Cardinality(Covered) = Cardinality(Covered') + n /\ free_count' = free_count + n
    BY <2>5, <2>6 DEF n
  <2> QED BY <1>4, <2>7, <2>8, <2>9 DEF Counted
<1> QED BY <1>3, <1>5, <1>6, <1>7 DEF RangesInv

\* StVmm_ResolveLocalPage on a guard page: the reservation takes the page below.
LEMMA GrowKeeps ==
  ASSUME Counting, RangesInv, local, NEW i \in Live, NEW p, CanGrow(i, p),
         node' = [node EXCEPT ![i].base = @ - 1], free_count' = free_count - 1, local' = local
  PROVE  /\ RangesInv' /\ Live' = Live /\ Usable(i)' = Usable(i) - 1
         /\ node'[i].base = node[i].base - 1 /\ node'[i].limit = node[i].limit
         /\ \A j \in Live \ {i} : node'[j] = node[j]
<1> DEFINE b == node[i].base - 1
<1>1. i \in NodeIds /\ node \in [NodeIds -> NodeT \cup {NoNode}] /\ NodeOK(i)
  BY DEF RangesInv, NodesOK, Live
<1>2. /\ node[i] \in NodeT /\ node[i].base \in Int /\ node[i].limit \in Int
      /\ node[i].guard \in {0, 1} /\ node[i].vpn \in Int /\ node[i].count \in Int
      /\ Usable(i) \in Int /\ node[i].base <= Usable(i) /\ Usable(i) < node[i].limit
  BY NodeFields DEF RangesInv
<1>a. /\ node[i].guard = 1 /\ node[i].base # FirstPage
      /\ \A j \in Live \ {i} : node[j].limit <= node[i].base - 1 \/ node[j].base > node[i].base
  BY DEF CanGrow
<1>3. /\ [node[i] EXCEPT !.base = b] \in NodeT
      /\ \A f \in {"limit", "guard", "vpn", "count"} : [node[i] EXCEPT !.base = b][f] = node[i][f]
      /\ [node[i] EXCEPT !.base = b].base = b
  BY <1>2 DEF NodeT
<1>4. /\ node' \in [NodeIds -> NodeT \cup {NoNode}]
      /\ node'[i] \in NodeT /\ node'[i].base = b /\ node'[i].limit = node[i].limit
      /\ node'[i].guard = node[i].guard /\ node'[i].vpn = node[i].vpn
      /\ node'[i].count = node[i].count
      /\ \A j \in NodeIds : j # i => node'[j] = node[j]
  BY <1>1, <1>2, <1>3 DEF NodeT
<1>5. Live' = Live /\ \A j \in Live \ {i} : node'[j] = node[j]
  <2>1. \A x \in NodeT : x # NoNode
    BY DEF NodeT, NoNode
  <2> QED BY <1>1, <1>4, <2>1 DEF Live
<1>6. b \in Int /\ FirstPage <= b /\ b <= LastPage /\ FirstPage \in Int /\ LastPage \in Int
  BY <1>1, <1>2, <1>a, MemoryAssumption DEF NodeOK
<1>b. Usable(i)' = Usable(i) - 1
  BY <1>2, <1>4 DEF Usable
<1> HIDE DEF b
<1>7. NodesOK'
  <2>1. NodeOK(i)'
    BY SMTT(30), SMTT(45), SMTT(60), <1>1, <1>2, <1>4, <1>6, <1>a, <1>b DEF NodeOK
  <2>2. ASSUME NEW j \in Live \ {i} PROVE NodeOK(j)'
    <3>1. NodeOK(j) /\ node'[j] = node[j]
      BY <1>5 DEF RangesInv, NodesOK
    <3> QED BY <3>1 DEF NodeOK, Usable
  <2> QED BY <1>4, <1>5, <2>1, <2>2 DEF NodesOK
<1>8. Apart'
  <2>1. ASSUME NEW j \in Live \ {i}
        PROVE  node'[i].limit <= node'[j].base \/ node'[j].limit <= node'[i].base
    <3>1. node[j].base \in Int /\ node[j].limit \in Int /\ node[j].base < node[j].limit
      BY NodeFields DEF RangesInv
    <3>2. node[i].limit <= node[j].base \/ node[j].limit <= node[i].base
      BY DEF RangesInv, Apart
    <3> QED BY <1>2, <1>4, <1>5, <1>a, <3>1, <3>2 DEF b
  <2>2. \A j, k \in Live \ {i} : j # k => node'[j].limit <= node'[k].base \/ node'[k].limit <= node'[j].base
    BY <1>5 DEF RangesInv, Apart
  <2> QED BY <1>5, <2>1, <2>2 DEF Apart
<1>9. Counted'
  <2>1. Span(b, 1) \subseteq Pages /\ Span(b, 1) = {b}
    BY <1>6 DEF Span, Pages
  <2>2. NodeAt(b) = {}
    <3> SUFFICES ASSUME NEW j \in NodeAt(b) PROVE FALSE
      OBVIOUS
    <3>1. j \in Live /\ node[j].base <= b /\ b < node[j].limit
      BY DEF NodeAt
    <3>2. node[j].base \in Int /\ node[j].limit \in Int
      BY <3>1, NodeFields DEF RangesInv
    <3> QED BY <1>2, <1>a, <3>1, <3>2 DEF b
  <2>3. Covered \subseteq Pages /\ Covered \cap Span(b, 1) = {}
    BY <2>1, <2>2 DEF Covered
  <2>4. Covered' = Covered \cup Span(b, 1)
    <3>1. ASSUME NEW q \in Pages
          PROVE  NodeAt(q)' = NodeAt(q) \cup (IF q = b THEN {i} ELSE {})
      <4>1. q \in Int
        BY <3>1, MemoryAssumption DEF Pages
      <4>2. node'[i].base <= q /\ q < node'[i].limit <=>
              (node[i].base <= q /\ q < node[i].limit) \/ q = b
        BY <1>2, <1>4, <4>1 DEF b
      <4> QED BY <1>5, <4>2 DEF NodeAt
    <3>2. ASSUME NEW q \in Pages PROVE NodeAt(q)' # {} <=> NodeAt(q) # {} \/ q = b
      BY <3>1
    <3> QED BY <2>1, <3>2 DEF Covered
  <2>5. Cardinality(Covered \cup Span(b, 1)) = Cardinality(Covered) + 1
    BY ZenonT(60), <1>6, <2>1, <2>3, RangeCounts
  <2>6. Cardinality(Covered) \in Nat /\ Cardinality(Pages) \in Nat
    BY <2>3, CountBound
  <2>7. free_count = Cardinality(Pages) - Cardinality(Covered)
    BY DEF RangesInv, Counted
  <2>8. Cardinality(Covered') = Cardinality(Covered) + 1
    BY <2>4, <2>5
  <2> QED BY <2>6, <2>7, <2>8 DEF Counted
<1> QED BY <1>4, <1>5, <1>7, <1>8, <1>9, <1>b DEF RangesInv, b

-----------------------------------------------------------------------------
(* Page table entries and frames.                                            *)

\* Where writing entries stops: inside the range, before the first present page.
LEMMA StopsBound ==
  ASSUME Counting, NEW v \in Int, NEW n \in Nat, NEW stop \in Stops(v, n)
  PROVE  stop \in Int /\ v <= stop /\ stop <= v + n /\ \A p \in v..(stop - 1) : ~Present(p)
<1> DEFINE present == {p \in Span(v, n) : Present(p)}
           last == IF present = {} THEN v + n ELSE Min(present)
<1>1. present \in SUBSET Int /\ \A x \in present : v <= x /\ x <= v + n - 1
  BY DEF Span
<1>2. present # {} => Min(present) \in present /\ \A y \in present : Min(present) <= y
  <2> HIDE DEF present
  <2> QED BY ZenonT(60), <1>1, MinIsLeast
<1>3. last \in Int /\ v <= last /\ last <= v + n /\ \A p \in v..(last - 1) : ~Present(p)
  <2>1. CASE present = {}
    BY <2>1 DEF Span
  <2>2. CASE present # {}
    <3>1. last = Min(present)
      BY <2>2
    <3>2. ASSUME NEW p \in v..(Min(present) - 1) PROVE ~Present(p)
      <4>1. Min(present) \in present /\ Min(present) \in Int /\ Min(present) <= v + n - 1
        BY <1>1, <1>2, <2>2
      <4> HIDE DEF present
      <4>2. p \in Int /\ p < Min(present) /\ v <= p /\ p <= v + n - 1
        BY <4>1
      <4>3. p \notin present
        BY <1>2, <2>2, <4>1, <4>2
      <4> QED BY <4>2, <4>3 DEF present, Span
    <3>3. Min(present) \in Int /\ v <= Min(present) /\ Min(present) <= v + n
      <4> HIDE DEF present
      <4>1. Min(present) \in present
        BY <1>2, <2>2
      <4>2. Min(present) \in Int /\ v <= Min(present) /\ Min(present) <= v + n - 1
        BY ZenonT(60), <1>1, <4>1
      <4> QED BY <4>2
    <3> HIDE DEF present, last
    <3> QED BY <3>1, <3>2, <3>3
  <2> QED BY <2>1, <2>2
<1>4. stop = last \/ (stop \in Span(v, n) /\ stop < last)
  BY DEF Stops
<1> HIDE DEF present, last
<1>5. CASE stop = last
  BY <1>3, <1>5
<1>6. CASE stop \in Span(v, n) /\ stop < last
  BY <1>3, <1>6 DEF Span
<1> QED BY <1>4, <1>5, <1>6

\* map_memory writes entries of the domain only.
LEMMA MapKeeps ==
  ASSUME EntriesOK, NEW v \in Int, NEW stop \in Int, v..(stop - 1) \subseteq Pages,
         NEW f \in 0..NumFrames, MapTo(v, stop, f)
  PROVE  EntriesOK'
<1>1. ASSUME NEW p \in v..(stop - 1) PROVE Entry(f + (p - v)) \in Entries
  <2>1. p \in Pages /\ v \in Pages
    BY <1>1
  <2>2. /\ p \in Int /\ p - v \in Int /\ 0 <= p - v /\ p - v <= LastPage - FirstPage
        /\ f \in Int /\ 0 <= f /\ f <= NumFrames /\ NumFrames \in Int
    BY <1>1, <2>1, MemoryAssumption DEF Pages
  <2>3. f + (p - v) \in 0..(NumFrames + LastPage - FirstPage)
    BY <2>2, MemoryAssumption
  <2> QED BY <2>3 DEF Entry, Entries
<1>2. pt' \in [Pages -> Entries]
  BY <1>1 DEF EntriesOK, MapTo
<1>3. tables' \subseteq {Table(p) : p \in Pages}
  BY DEF EntriesOK, MapTo
<1> QED BY ZenonT(60), <1>2, <1>3 DEF EntriesOK

\* So does set_managed_memory.
LEMMA ManageKeeps ==
  ASSUME EntriesOK, NEW v \in Int, NEW n \in Nat, NEW stop \in Int, v..(stop - 1) \subseteq Pages,
         SetManaged(v, n, stop)
  PROVE  EntriesOK'
<1>1. Managed \in Entries
  BY DEF Entries
<1>2. pt' \in [Pages -> Entries]
  BY <1>1 DEF EntriesOK, SetManaged
<1>3. tables' \subseteq {Table(p) : p \in Pages}
  BY DEF EntriesOK, SetManaged
<1> QED BY <1>2, <1>3 DEF EntriesOK

\* Clearing entries.
LEMMA ClearKeeps ==
  ASSUME EntriesOK, NEW S, pt' = Unmapped(S) \/ pt' = Unmanaged(S) \/ pt' = pt, tables' = tables
  PROVE  EntriesOK'
<1>1. Empty \in Entries
  BY DEF Entries
<1> QED BY <1>1 DEF EntriesOK, Unmapped, Unmanaged

\* The lowest free run of frames is free.
LEMMA LowestSound ==
  ASSUME NEW size \in Int, size > 0, NEW b \in LowestBlock(size)
  PROVE  /\ b \in [pfn : Int, size : Nat \ {0}] /\ b.size = size
         /\ b.pfn \in 0..NumFrames /\ FramesOf(b) \subseteq FreeFrames
<1>1. PICK f \in Runs(size) : b = [pfn |-> f, size |-> size]
  BY DEF LowestBlock
<1>2. f \in 0..(NumFrames - 1) /\ Span(f, size) \subseteq FreeFrames
  BY DEF Runs, FreeFrames
<1>3. f \in Int /\ f \in 0..NumFrames
  BY <1>2, MemoryAssumption
<1> QED BY <1>1, <1>2, <1>3 DEF FramesOf

\* StPmm_AllocateFrame for n frames: at least n, all of them free.
LEMMA BlockForSound ==
  ASSUME NEW n \in Nat, n > 0, NEW b \in BlockFor(n)
  PROVE  /\ b \in [pfn : Int, size : Nat \ {0}] /\ b.size >= n
         /\ b.pfn \in 0..NumFrames /\ FramesOf(b) \subseteq FreeFrames
<1>1. PICK size \in n..(2 * n - 1) : b \in LowestBlock(size)
  BY DEF BlockFor
<1>2. size \in Int /\ size > 0 /\ size >= n
  BY <1>1
<1> QED BY <1>1, <1>2, LowestSound

\* One batch of the sparse loop: no more frames than pages are left.
LEMMA BatchSound ==
  ASSUME NEW left \in Nat, NEW b \in BatchBlock(left)
  PROVE  /\ b \in [pfn : Int, size : Nat \ {0}] /\ b.size <= left
         /\ b.pfn \in 0..NumFrames /\ FramesOf(b) \subseteq FreeFrames
<1>1. PICK size \in 1..left : b \in LowestBlock(size)
  BY DEF BatchBlock
<1>2. size \in Int /\ size > 0 /\ size <= left
  BY <1>1
<1> QED BY <1>1, <1>2, LowestSound

\* Taking a block of free frames, and giving blocks back.
LEMMA BlocksKeep ==
  ASSUME BlocksOK,
         \/ blocks' \subseteq blocks
         \/ \E b \in [pfn : Int, size : Nat \ {0}] :
              FramesOf(b) \subseteq FreeFrames /\ blocks' = blocks \cup {b}
  PROVE  BlocksOK'
BY ZenonT(60) DEF BlocksOK, FreeFrames, FramesOf

-----------------------------------------------------------------------------
(* Calls in progress.                                                        *)

\* The record of a call says which of the three it is.
LEMMA OpCases ==
  ASSUME CallsInv, NEW t \in Threads
  PROVE  /\ op[t] = Idle \/ op[t] \in Waiting \/ op[t] \in Calls
         /\ op[t].st = "reserve" => op[t] \in Waiting
         /\ op[t].st \notin {"idle", "reserve"} => op[t] \in Calls /\ Shape(op[t])
         /\ Working(t) => op[t] \in Calls /\ Shape(op[t]) /\ Inside(op[t])
<1>1. op[t] \in {Idle} \cup Waiting \cup Calls
  BY DEF CallsInv, OpsOK
<1>2. Idle.st = "idle" /\ (\A w \in Waiting : w.st = "reserve")
  BY DEF Idle, Waiting
<1>3. \A c \in Calls : c.st \notin {"idle", "reserve"}
  BY DEF Calls
<1>4. op[t].st \notin {"idle", "reserve"} => op[t] \in Calls
  BY <1>1, <1>2
<1>5. op[t].st = "reserve" => op[t] \in Waiting
  BY <1>1, <1>2, <1>3
<1>6. op[t] \in Calls => Shape(op[t])
  BY DEF CallsInv, OpsOK
<1>7. Working(t) => Inside(op[t])
  BY DEF CallsInv, CallsInside
<1> QED BY <1>1, <1>4, <1>5, <1>6, <1>7 DEF Working

\* What the calls at work have in the tree of reservations is left alone.
CallsUndisturbed(t) ==
  \A u \in Threads : u # t /\ Working(u) => node'[op[u].id] = node[op[u].id]

\* One thread's call moves on to c.
LEMMA CallMoves ==
  ASSUME CallsInv, NEW t \in Threads, NEW c \in {Idle} \cup Waiting \cup Calls,
         op' = [op EXCEPT ![t] = c], CallsUndisturbed(t), c \in Calls => Shape(c),
         c.st \notin {"idle", "reserve", "unframe"} =>
           Inside(c)' /\ \A u \in Threads : u # t /\ Working(u) => op[u].id # c.id
  PROVE  CallsInv'
<1>1. op \in [Threads -> {Idle} \cup Waiting \cup Calls]
  BY DEF CallsInv, OpsOK
<1>2. /\ op' \in [Threads -> {Idle} \cup Waiting \cup Calls] /\ op'[t] = c
      /\ \A u \in Threads : u # t => op'[u] = op[u]
  BY ZenonT(60), <1>1
<1>3. OpsOK'
  BY <1>2 DEF CallsInv, OpsOK
<1>4. Working(t)' <=> c.st \notin {"idle", "reserve", "unframe"}
  BY <1>2 DEF Working
<1>5. \A u \in Threads : u # t => (Working(u)' <=> Working(u))
  BY <1>2 DEF Working
<1>6. CallsInside'
  <2> SUFFICES ASSUME NEW u \in Threads, Working(u)' PROVE Inside(op[u])'
    BY DEF CallsInside
  <2>1. CASE u = t
    BY ZenonT(60), <1>2, <1>4, <2>1 DEF Inside, Usable, Dropped, Live
  <2>2. CASE u # t
    <3>1. Working(u) /\ op'[u] = op[u] /\ Inside(op[u]) /\ node'[op[u].id] = node[op[u].id]
      BY ZenonT(60), <1>2, <1>5, <2>2 DEF CallsInv, CallsInside, CallsUndisturbed
    <3> QED BY ZenonT(60), <3>1 DEF Inside, Usable, Dropped, Live
  <2> QED BY <2>1, <2>2
<1>7. Alone'
  <2>1. ASSUME NEW u \in Threads, u # t, Working(t)', Working(u)' PROVE op'[u].id # op'[t].id
    BY ZenonT(60), <1>2, <1>4, <1>5, <2>1
  <2>2. ASSUME NEW u \in Threads, NEW w \in Threads, u # t, w # t, u # w, Working(u)', Working(w)'
        PROVE  op'[u].id # op'[w].id
    BY <1>2, <1>5, <2>2 DEF CallsInv, Alone
  <2> QED BY <2>1, <2>2 DEF Alone
<1> QED BY <1>3, <1>6, <1>7 DEF CallsInv

\* Nobody's call moves.
LEMMA CallsStay ==
  ASSUME CallsInv, op' = op, \A u \in Threads : Working(u) => node'[op[u].id] = node[op[u].id]
  PROVE  CallsInv'
<1>1. OpsOK'
  BY DEF CallsInv, OpsOK
<1>2. CallsInside'
  <2> SUFFICES ASSUME NEW u \in Threads, Working(u) PROVE Inside(op[u])'
    BY DEF CallsInside, Working
  <2>1. Inside(op[u]) /\ node'[op[u].id] = node[op[u].id]
    BY ZenonT(60) DEF CallsInv, CallsInside
  <2> QED BY ZenonT(60), <2>1 DEF Inside, Usable, Dropped, Live
<1>3. Alone'
  BY DEF CallsInv, Alone, Working
<1> QED BY ZenonT(60), <1>1, <1>2, <1>3 DEF CallsInv

\* A call that goes on stays with its reservation and its pages.
LEMMA CallGoesOn ==
  ASSUME CallsInv, NEW t \in Threads, Working(t), UNCHANGED node, NEW c \in Calls, Shape(c),
         c.id = op[t].id, c.vpn = op[t].vpn, c.count = op[t].count, c.fam = op[t].fam,
         op' = [op EXCEPT ![t] = c]
  PROVE  CallsInv'
<1>1. Inside(op[t]) /\ \A u \in Threads : u # t /\ Working(u) => op[u].id # op[t].id
  BY DEF CallsInv, CallsInside, Alone
<1>2. Inside(c)'
  BY ZenonT(60), <1>1 DEF Inside, Usable, Dropped, Live
<1>3. CallsUndisturbed(t)
  BY DEF CallsUndisturbed
<1> QED BY ZenonT(60), <1>1, <1>2, <1>3, CallMoves

\* A call that returns.
LEMMA CallReturns ==
  ASSUME CallsInv, NEW t \in Threads, CallsUndisturbed(t), op' = [op EXCEPT ![t] = Idle]
  PROVE  CallsInv'
<1>1. Idle.st = "idle" /\ Idle \notin Calls
  BY DEF Idle, Calls
<1> QED BY ZenonT(60), <1>1, CallMoves

\* A call that begins on the reservation it has just made.
LEMMA CallBegins ==
  ASSUME Counting, RangesInv, CallsInv, local \in BOOLEAN, NEW t \in Threads,
         NEW r \in Requests, NEW at \in Places(r), Reserve(r, at), local' = local,
         NEW c \in Calls, Shape(c), c.fam \in {"map", "contiguous", "sparse"},
         c.id = at[2], c.vpn = at[1] + Guard(r), c.count = r.count, op' = [op EXCEPT ![t] = c]
  PROVE  RangesInv' /\ CallsInv'
<1>1. RangesInv'
  BY ZenonT(60), ReserveKeeps
<1>2. /\ node' \in [NodeIds -> NodeT \cup {NoNode}] /\ Live' = Live \cup {at[2]}
      /\ node'[at[2]] = NodeFor(r, at[1])
      /\ \A j \in Live : j # at[2] /\ node'[j] = node[j]
  BY ZenonT(60), ReserveAdds
<1>3. at[1] \in Int /\ at[2] \notin Live
  BY ZenonT(60), PlacesSound
<1>4. /\ node'[c.id].base = at[1] /\ node'[c.id].limit = at[1] + Total(r)
      /\ node'[c.id].guard = Guard(r)
  BY <1>2, <1>3, NodeForType
<1>5. r.count \in Nat /\ Guard(r) \in {0, 1} /\ Total(r) = r.count + Guard(r)
  BY ZenonT(60), RequestSizes
<1>6. Inside(c)'
  BY SMTT(30), SMTT(45), SMTT(60), <1>2, <1>3, <1>4, <1>5 DEF Inside, Usable
<1>7. \A u \in Threads : Working(u) => op[u].id \in Live
  BY ZenonT(60) DEF CallsInv, CallsInside, Inside
<1>8. CallsUndisturbed(t)
  BY ZenonT(60), <1>2, <1>7 DEF CallsUndisturbed
<1>9. \A u \in Threads : u # t /\ Working(u) => op[u].id # c.id
  BY ZenonT(60), <1>3, <1>7
<1>10. CallsInv'
  BY ZenonT(60), <1>6, <1>8, <1>9, CallMoves
<1> QED BY ZenonT(60), <1>1, <1>10

\* A step that leaves the reservations alone.
LEMMA RangesStay ==
  ASSUME RangesInv, UNCHANGED <<local, node, free_count>>
  PROVE  RangesInv'
<1>1. Live' = Live /\ node' \in [NodeIds -> NodeT \cup {NoNode}]
  BY DEF RangesInv, NodesOK, Live
<1> QED BY <1>1, SameRanges

\* A step in the life of the process.
LEMMA PhasesStay ==
  ASSUME Phases, UNCHANGED <<local, phase>>, panicked' \in BOOLEAN,
         phase # "removed" \/ op' = op
  PROVE  Phases'
BY DEF Phases, AllIdle

\* A call is in progress only while the address space exists.
LEMMA NotRemoved ==
  ASSUME Phases, NEW t \in Threads, op[t].st # "idle"
  PROVE  phase # "removed"
BY SMTT(30), SMTT(45), SMTT(60) DEF Phases, AllIdle, Idle

\* A thread at work: its call, its range, and the others'.
LEMMA AtWork ==
  ASSUME MemInv, NEW t \in Threads, Working(t)
  PROVE  /\ op[t] \in Calls /\ Shape(op[t]) /\ Inside(op[t]) /\ op[t].id \in Live
         /\ op[t].vpn \in Int /\ op[t].count \in Nat /\ op[t].done \in Nat /\ op[t].n \in Nat
         /\ op[t].count > 0 /\ op[t].done <= op[t].count
         /\ Span(op[t].vpn, op[t].count) \subseteq Pages
         /\ phase # "removed" /\ local \in BOOLEAN /\ panicked \in BOOLEAN
<1>1. op[t] \in Calls /\ Shape(op[t]) /\ Inside(op[t])
  BY OpCases DEF MemInv
<1>2. /\ op[t].vpn \in Int /\ op[t].count \in Nat /\ op[t].done \in Nat /\ op[t].n \in Nat
      /\ op[t].count > 0 /\ op[t].done <= op[t].count
  BY ZenonT(60), <1>1 DEF Calls, Shape
<1>3. op[t].id \in Live /\ node[op[t].id].base <= op[t].vpn
      /\ op[t].vpn + op[t].count <= node[op[t].id].limit
  BY <1>1 DEF Inside
<1>4. /\ node[op[t].id].base \in Int /\ node[op[t].id].limit \in Int
      /\ FirstPage <= node[op[t].id].base /\ node[op[t].id].limit <= LastPage + 1
  BY ZenonT(60), <1>3, NodeFields DEF MemInv, RangesInv, NodesOK, NodeOK
<1>5. Span(op[t].vpn, op[t].count) \subseteq Pages
  BY SMTT(30), SMTT(45), SMTT(60), <1>2, <1>3, <1>4, MemoryAssumption DEF Span, Pages
<1>6. phase # "removed" /\ local \in BOOLEAN /\ panicked \in BOOLEAN
  BY NotRemoved DEF MemInv, Phases, Working
<1> QED BY SMTT(30), SMTT(45), SMTT(60), <1>1, <1>2, <1>3, <1>5, <1>6

\* A call that begins on a reservation nobody works on.
LEMMA CallEnters ==
  ASSUME CallsInv, NEW t \in Threads, UNCHANGED node, NEW c \in Calls, Shape(c), Inside(c),
         \A u \in Threads : u # t /\ Working(u) => op[u].id # c.id, op' = [op EXCEPT ![t] = c]
  PROVE  CallsInv'
<1>1. Inside(c)'
  BY ZenonT(60) DEF Inside, Usable, Dropped, Live
<1> QED BY ZenonT(60), <1>1, CallMoves DEF CallsUndisturbed

\* The range that StMm_Free walks ends with its reservation, and begins where
\* the VMM will look for it unless the guard flag was dropped after growth.
LEMMA FreeCallSound ==
  ASSUME RangesInv, local \in BOOLEAN, NEW i \in Live, NEW v, NEW n,
         (v = node[i].vpn /\ n = node[i].count) \/ (v = Usable(i) /\ n = UsableCount(i))
  PROVE  /\ FreeCall(i, v, n) \in Calls /\ Shape(FreeCall(i, v, n)) /\ Inside(FreeCall(i, v, n))
         /\ FreeCall(i, v, n).id = i /\ FreeCall(i, v, n).st = "free"
         /\ FreeCall(i, v, n).done = 0
<1>1. /\ node[i] \in NodeT /\ node[i].base \in Int /\ node[i].limit \in Int
      /\ node[i].guard \in {0, 1} /\ node[i].vpn \in Int /\ node[i].count \in Int
      /\ Usable(i) \in Int /\ node[i].base <= Usable(i) /\ Usable(i) < node[i].limit
      /\ i \in NodeIds /\ NodeOK(i)
  BY SMTT(30), SMTT(45), SMTT(60), NodeFields DEF RangesInv, NodesOK, Live
<1>2. /\ node[i].vpn < node[i].limit /\ node[i].limit = node[i].vpn + node[i].count
      /\ Usable(i) <= node[i].vpn /\ (Usable(i) < node[i].vpn => local /\ node[i].guard = 1)
  BY SMTT(30), SMTT(45), SMTT(60), <1>1 DEF NodeOK
<1>3. v \in Int /\ n \in Nat /\ n > 0 /\ v + n = node[i].limit /\ Usable(i) <= v
  BY SMTT(30), SMTT(45), SMTT(60), <1>1, <1>2 DEF UsableCount
<1>4. PICK w, m : /\ w \in Int /\ m \in Nat /\ m > 0 /\ w + m = node[i].limit /\ node[i].base <= w
                  /\ w = node[i].base \/ w = Usable(i) \/ Dropped(i)
                  /\ FreeCall(i, v, n) = Call("free", "free", i, w, m)
  <2>1. CASE local /\ node[i].guarded
    <3>1. node[i].limit - node[i].base \in Nat /\ node[i].limit - node[i].base > 0
          /\ node[i].base + (node[i].limit - node[i].base) = node[i].limit
      BY <1>1
    <3>2. FreeCall(i, v, n) = Call("free", "free", i, node[i].base, node[i].limit - node[i].base)
      BY ZenonT(60), <2>1 DEF FreeCall
    <3> QED BY SMTT(30), SMTT(45), SMTT(60), <1>1, <3>1, <3>2
  <2>2. CASE ~(local /\ node[i].guarded)
    <3>1. FreeCall(i, v, n) = Call("free", "free", i, v, n)
      BY ZenonT(60), <2>2 DEF FreeCall
    <3>2. v = Usable(i) \/ Dropped(i)
      <4>1. CASE v = Usable(i)
        BY <4>1
      <4>2. CASE v = node[i].vpn /\ Usable(i) < node[i].vpn
        <5>1. local /\ node[i].guard = 1 /\ ~node[i].guarded
          BY SMTT(30), SMTT(45), SMTT(60), <1>2, <2>2, <4>2
        <5>2. node[i].base + 1 < node[i].vpn
          BY <1>1, <4>2, <5>1 DEF Usable
        <5> QED BY ZenonT(60), <5>1, <5>2 DEF Dropped
      <4> QED BY SMTT(30), SMTT(45), SMTT(60), <1>1, <1>2, <4>1, <4>2
    <3> QED BY SMTT(30), SMTT(45), SMTT(60), <1>1, <1>3, <3>1, <3>2
  <2> QED BY ZenonT(60), <2>1, <2>2
<1>5. PICK c : c = FreeCall(i, v, n)
  BY ZenonT(60)
<1>6. /\ c.st = "free" /\ c.fam = "free" /\ c.id = i /\ c.vpn = w /\ c.count = m
      /\ c.done = 0 /\ c.pfn = Frameless /\ c.n = m
  BY SMTT(30), SMTT(45), SMTT(60), <1>4, <1>5 DEF Call
<1>7. c \in Calls
  BY SMTT(30), SMTT(45), SMTT(60), <1>1, <1>4, <1>5 DEF Call, Calls
<1>8. Shape(c)
  BY SMTT(30), SMTT(45), SMTT(60), <1>4, <1>6 DEF Shape
<1>9. Inside(c)
  BY <1>4, <1>6 DEF Inside
<1> QED BY ZenonT(60), <1>5, <1>6, <1>7, <1>8, <1>9

\* A release takes the reservation its call works on, or none.
LEMMA ReleaseStep ==
  ASSUME Counting, RangesInv, CallsInv, NEW t \in Threads, op[t].st = "release",
         ReleasePages(op[t].vpn, op[t].count), local' = local
  PROVE  /\ RangesInv' /\ CallsUndisturbed(t)
         /\ Releasable(op[t].vpn, op[t].count) \subseteq {op[t].id}
         /\ \/ Releasable(op[t].vpn, op[t].count) = {} /\ UNCHANGED node
            \/ op[t].id \in Live /\ Live' = Live \ {op[t].id} /\ \A j \in Live' : node'[j] = node[j]
<1>1. /\ op[t] \in Calls /\ Shape(op[t]) /\ Inside(op[t]) /\ Working(t)
  BY OpCases DEF Working
<1>2. op[t].id \in Live /\ op[t].vpn + op[t].count = node[op[t].id].limit
  BY ZenonT(60), <1>1 DEF Shape, Inside
<1>3. \A i \in Releasable(op[t].vpn, op[t].count) : i = op[t].id /\ i \in Live
  BY <1>2, OneEnd DEF Releasable
<1>4. \A u \in Threads : u # t /\ Working(u) => op[u].id # op[t].id /\ op[u].id \in Live
  BY ZenonT(60), <1>1 DEF CallsInv, Alone, CallsInside, Inside
<1>5. CASE Releasable(op[t].vpn, op[t].count) = {} /\ UNCHANGED <<node, free_count>>
  BY ZenonT(60), <1>5, RangesStay DEF CallsUndisturbed
<1>6. CASE \E i \in Releasable(op[t].vpn, op[t].count) :
             /\ node' = [node EXCEPT ![i] = NoNode]
             /\ free_count' = free_count + (node[i].limit - node[i].base)
  <2>1. PICK i \in Live : /\ i = op[t].id /\ node' = [node EXCEPT ![i] = NoNode]
                          /\ free_count' = free_count + (node[i].limit - node[i].base)
    BY ZenonT(60), <1>3, <1>6
  <2>2. /\ RangesInv' /\ Live' = Live \ {i}
        /\ \A j \in Live' : node'[j] = node[j]
    BY ZenonT(60), <2>1, ReleaseKeeps
  <2> QED BY ZenonT(60), <1>3, <1>4, <2>1, <2>2 DEF CallsUndisturbed
<1> QED BY ZenonT(60), <1>5, <1>6 DEF ReleasePages

=============================================================================
