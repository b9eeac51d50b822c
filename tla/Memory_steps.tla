---------------------------- MODULE Memory_steps ----------------------------
(***************************************************************************)
(* The calls of module Memory keep the invariant of Memory_lemmas: one     *)
(* lemma per action.                                                       *)
(***************************************************************************)
EXTENDS Memory_lemmas

-----------------------------------------------------------------------------
(* Calls that make a reservation.                                            *)

\* StMm_Reserve*.
LEMMA Mem_MakeReservation ==
  ASSUME Counting, MemInv, NEW r \in Requests, MakeReservation(r)
  PROVE  MemInv'
<1>1. PICK at \in Places(r) : Reserve(r, at)
  BY DEF MakeReservation
<1>2. UNCHANGED <<local, pt, tables, blocks, op, phase, panicked>> /\ local \in BOOLEAN
  BY DEF MakeReservation, MemInv, Phases
<1>3. Phases'
  BY <1>2, PhasesStay DEF MemInv, Phases
<1>4. RangesInv'
  BY <1>1, <1>2, ReserveKeeps DEF MemInv
<1>5. EntriesOK' /\ BlocksOK'
  BY <1>2 DEF MemInv, EntriesOK, BlocksOK, FramesOf
<1>6. CallsInv'
  <2>1. \A j \in Live : node'[j] = node[j]
    BY ZenonT(60), <1>1, <1>2, ReserveAdds DEF MemInv
  <2>2. \A u \in Threads : Working(u) => op[u].id \in Live
    BY DEF MemInv, CallsInv, CallsInside, Inside
  <2> QED BY <1>2, <2>1, <2>2, CallsStay DEF MemInv
<1> QED BY <1>3, <1>4, <1>5, <1>6 DEF MemInv

\* StMm_Map*: the range is reserved, its entries come next.
LEMMA Mem_ReserveToMap ==
  ASSUME Counting, MemInv, NEW t \in Threads, Ready(t), NEW r \in Requests, ReserveToMap(t, r)
  PROVE  MemInv'
<1>1. PICK at \in Places(r) :
        /\ Reserve(r, at)
        /\ op' = [op EXCEPT ![t] = [Call("map", "map", at[2], at[1] + Guard(r), r.count)
                                      EXCEPT !.pfn = NumFrames]]
  BY ZenonT(60) DEF ReserveToMap
<1>2. /\ UNCHANGED <<local, pt, tables, blocks, phase, panicked>>
      /\ local \in BOOLEAN /\ phase = "open" /\ panicked \in BOOLEAN
  BY DEF ReserveToMap, MemInv, Phases, Ready
<1>3. PICK c : c = [Call("map", "map", at[2], at[1] + Guard(r), r.count) EXCEPT !.pfn = NumFrames]
  BY ZenonT(60)
<1>4. /\ r.count \in Nat /\ r.count > 0 /\ at[2] \in NodeIds
      /\ at[1] + Guard(r) \in Int /\ NumFrames \in 0..NumFrames
  BY PlacesSound, RequestSizes, MemoryAssumption
<1>5. c \in Calls /\ Shape(c)
  BY <1>3, <1>4, MemoryAssumption DEF Call, Calls, Shape
<1>6. RangesInv' /\ CallsInv'
  <2>1. /\ c.fam = "map" /\ c.id = at[2] /\ c.vpn = at[1] + Guard(r) /\ c.count = r.count
        /\ op' = [op EXCEPT ![t] = c]
    BY <1>1, <1>3 DEF Call
  <2> QED BY ZenonT(60), <1>1, <1>2, <1>5, <2>1, CallBegins DEF MemInv
<1>7. EntriesOK' /\ BlocksOK' /\ Phases'
  BY <1>2, PhasesStay DEF MemInv, EntriesOK, BlocksOK, FramesOf
<1> QED BY <1>6, <1>7 DEF MemInv

\* StMm_Allocate*Sparse: the range is reserved, the batches come next.
LEMMA Mem_InBatches ==
  ASSUME Counting, MemInv, NEW t \in Threads, Ready(t), NEW r \in Requests, InBatches(t, r)
  PROVE  MemInv'
<1>1. PICK at \in Places(r) :
        /\ Reserve(r, at)
        /\ op' = [op EXCEPT ![t] = Call("batch", "sparse", at[2], at[1] + Guard(r), r.count)]
  BY ZenonT(60) DEF InBatches
<1>2. /\ UNCHANGED <<local, pt, tables, blocks, phase, panicked>>
      /\ local \in BOOLEAN /\ phase = "open" /\ panicked \in BOOLEAN
  BY DEF InBatches, MemInv, Phases, Ready
<1>3. PICK c : c = Call("batch", "sparse", at[2], at[1] + Guard(r), r.count)
  OBVIOUS
<1>4. r.count \in Nat /\ r.count > 0 /\ at[2] \in NodeIds /\ at[1] + Guard(r) \in Int
  BY PlacesSound, RequestSizes
<1>5. c \in Calls /\ Shape(c)
  BY <1>3, <1>4, MemoryAssumption DEF Call, Calls, Shape
<1>6. RangesInv' /\ CallsInv'
  <2>1. /\ c.fam = "sparse" /\ c.id = at[2] /\ c.vpn = at[1] + Guard(r) /\ c.count = r.count
        /\ op' = [op EXCEPT ![t] = c]
    BY <1>1, <1>3 DEF Call
  <2> QED BY ZenonT(60), <1>1, <1>2, <1>5, <2>1, CallBegins DEF MemInv
<1>7. EntriesOK' /\ BlocksOK' /\ Phases'
  BY <1>2, PhasesStay DEF MemInv, EntriesOK, BlocksOK, FramesOf
<1> QED BY <1>6, <1>7 DEF MemInv

\* StMm_Allocate*Contiguous: the frames first.
LEMMA Mem_FramesFirst ==
  ASSUME MemInv, NEW t \in Threads, Ready(t), NEW r \in Requests, FramesFirst(t, r)
  PROVE  MemInv'
<1>1. PICK b \in BlockFor(r.count) :
        /\ blocks' = blocks \cup {b}
        /\ op' = [op EXCEPT ![t] = [st |-> "reserve", req |-> r, pfn |-> b.pfn]]
  BY ZenonT(60) DEF FramesFirst
<1>2. /\ UNCHANGED <<local, node, free_count, pt, tables, phase, panicked>>
      /\ phase = "open" /\ panicked \in BOOLEAN
  BY DEF FramesFirst, MemInv, Phases, Ready
<1>3. /\ b \in [pfn : Int, size : Nat \ {0}] /\ b.pfn \in 0..NumFrames
      /\ FramesOf(b) \subseteq FreeFrames
  BY RequestSizes, BlockForSound
<1>4. PICK c : c = [st |-> "reserve", req |-> r, pfn |-> b.pfn]
  BY ZenonT(60)
<1>5. c \in Waiting /\ c \notin Calls /\ c.st = "reserve"
  BY <1>3, <1>4 DEF Waiting, Calls
<1>6. CallsInv'
  BY ZenonT(60), <1>1, <1>2, <1>4, <1>5, CallMoves DEF CallsUndisturbed, MemInv
<1>7. BlocksOK'
  BY <1>1, <1>3, BlocksKeep DEF MemInv
<1>8. EntriesOK' /\ RangesInv' /\ Phases'
  BY <1>2, PhasesStay, RangesStay DEF MemInv, EntriesOK
<1> QED BY <1>6, <1>7, <1>8 DEF MemInv

\* ... then the range; without one the frames go back.
LEMMA Mem_ReserveForFrames ==
  ASSUME Counting, MemInv, NEW t \in Threads, ReserveForFrames(t)
  PROVE  MemInv'
<1>1. op[t].st = "reserve" /\ UNCHANGED <<local, pt, tables, phase, panicked>>
  BY DEF ReserveForFrames
<1>2. op[t] \in Waiting /\ op[t].req \in Requests /\ op[t].pfn \in 0..NumFrames
  BY <1>1, OpCases DEF MemInv, Waiting
<1>3. PICK r \in Requests : r = op[t].req
  BY <1>2
<1>4. phase # "removed" /\ local \in BOOLEAN /\ panicked \in BOOLEAN
  BY ZenonT(60), <1>1, NotRemoved DEF MemInv, Phases
<1>5. Phases' /\ EntriesOK'
  BY <1>1, <1>4, PhasesStay DEF MemInv, EntriesOK
<1>6. CASE \E at \in Places(r) :
             /\ Reserve(r, at)
             /\ op' = [op EXCEPT ![t] =
                         [Call("map", "contiguous", at[2], at[1] + Guard(r), r.count)
                            EXCEPT !.pfn = op[t].pfn]]
             /\ UNCHANGED blocks
  <2>1. PICK at \in Places(r) :
          /\ Reserve(r, at)
          /\ op' = [op EXCEPT ![t] =
                      [Call("map", "contiguous", at[2], at[1] + Guard(r), r.count)
                         EXCEPT !.pfn = op[t].pfn]]
          /\ UNCHANGED blocks
    BY ZenonT(60), <1>6
  <2>2. PICK c : c = [Call("map", "contiguous", at[2], at[1] + Guard(r), r.count)
                        EXCEPT !.pfn = op[t].pfn]
    BY ZenonT(60)
  <2>3. r.count \in Nat /\ r.count > 0 /\ at[2] \in NodeIds /\ at[1] + Guard(r) \in Int
    BY PlacesSound, RequestSizes
  <2>4. op[t].pfn # Frameless
    BY <1>2, MemoryAssumption
  <2>5. c \in Calls /\ Shape(c)
    BY <1>2, <2>2, <2>3, <2>4 DEF Call, Calls, Shape
  <2>6. /\ c.fam = "contiguous" /\ c.id = at[2] /\ c.vpn = at[1] + Guard(r) /\ c.count = r.count
        /\ op' = [op EXCEPT ![t] = c]
    BY <2>1, <2>2 DEF Call
  <2>7. RangesInv' /\ CallsInv'
    <3>1. RangesInv /\ CallsInv /\ local \in BOOLEAN /\ local' = local /\ Reserve(r, at)
      BY ZenonT(60), <1>1, <1>4, <2>1 DEF MemInv
    <3> QED BY ZenonT(60), <2>5, <2>6, <3>1, CallBegins
  <2>8. BlocksOK'
    BY <2>1, BlocksKeep DEF MemInv
  <2> QED BY <1>5, <2>7, <2>8 DEF MemInv
<1>7. CASE /\ Places(r) = {} /\ blocks' = blocks \ BlockAt(op[t].pfn)
           /\ Return(t) /\ UNCHANGED <<node, free_count>>
  <2>1. RangesInv'
    BY <1>1, <1>7, RangesStay DEF MemInv
  <2>2. BlocksOK'
    BY <1>7, BlocksKeep DEF MemInv
  <2>3. CallsInv'
    BY ZenonT(60), <1>7, CallReturns DEF MemInv, CallsUndisturbed, Return
  <2> QED BY <1>5, <2>1, <2>2, <2>3 DEF MemInv
<1> QED BY <1>3, <1>6, <1>7 DEF ReserveForFrames

\* Lazy user ranges: the entries are marked, then the range is recorded.
LEMMA Mem_Lazily ==
  ASSUME Counting, MemInv, NEW r \in Requests, Lazily(r)
  PROVE  MemInv'
<1>0. PICK at \in Places(r) : \E stop \in Stops(at[1] + Guard(r), r.count) :
        /\ SetManaged(at[1] + Guard(r), r.count, stop)
        /\ IF stop = at[1] + Guard(r) + r.count THEN Reserve(r, at)
           ELSE UNCHANGED <<node, free_count>>
  BY DEF Lazily
<1>1. PICK stop \in Stops(at[1] + Guard(r), r.count) :
        /\ SetManaged(at[1] + Guard(r), r.count, stop)
        /\ IF stop = at[1] + Guard(r) + r.count THEN Reserve(r, at)
           ELSE UNCHANGED <<node, free_count>>
  BY <1>0
<1>2. UNCHANGED <<local, blocks, op, phase, panicked>> /\ local \in BOOLEAN
  BY DEF Lazily, MemInv, Phases
<1>3. Phases' /\ BlocksOK'
  BY <1>2, PhasesStay, BlocksKeep DEF MemInv, Phases
<1>4. /\ at[1] \in Int /\ FreeRange(at[1], Total(r)) /\ Guard(r) \in {0, 1}
      /\ r.count \in Nat /\ Total(r) = r.count + Guard(r) /\ at[1] + Guard(r) \in Int
  BY PlacesSound, RequestSizes
<1>5. EntriesOK'
  <2>1. stop \in Int /\ stop <= at[1] + Guard(r) + r.count
    BY <1>4, StopsBound
  <2>2. (at[1] + Guard(r))..(stop - 1) \subseteq Pages
    BY <1>4, <2>1, MemoryAssumption DEF FreeRange, Pages
  <2> QED BY ZenonT(60), <1>1, <1>4, <2>1, <2>2, ManageKeeps DEF MemInv
<1>6. RangesInv' /\ \A j \in Live : node'[j] = node[j]
  <2>1. CASE Reserve(r, at)
    BY <1>2, <2>1, ReserveKeeps, ReserveAdds DEF MemInv
  <2>2. CASE UNCHANGED <<node, free_count>>
    BY <1>2, <2>2, RangesStay DEF MemInv
  <2> QED BY <1>1, <2>1, <2>2
<1>7. CallsInv'
  <2>1. \A u \in Threads : Working(u) => op[u].id \in Live
    BY DEF MemInv, CallsInv, CallsInside, Inside
  <2> QED BY SMTT(30), SMTT(45), SMTT(60), <1>2, <1>6, <2>1, CallsStay DEF MemInv
<1> QED BY ZenonT(60), <1>3, <1>5, <1>6, <1>7 DEF MemInv

-----------------------------------------------------------------------------
(* Commit, the batches and mapping.                                          *)

\* StMm_Commit*: part of a reservation nobody works on.
LEMMA Mem_Commit ==
  ASSUME MemInv, NEW t \in Threads, NEW i \in NodeIds, NEW v \in Pages, NEW n \in 1..MaxCommit,
         Commit(t, i, v, n)
  PROVE  MemInv'
<1>1. /\ i \in Live /\ Usable(i) <= v /\ v + n <= node[i].limit /\ ~Busy(i) /\ phase = "open"
      /\ UNCHANGED <<local, node, free_count, pt, tables, phase, panicked>>
  BY DEF Commit, ValidCommit, Ready
<1>2. /\ v \in Int /\ n \in Nat /\ n > 0 /\ node[i].base \in Int /\ node[i].guard \in {0, 1}
      /\ Usable(i) \in Int /\ node[i].base <= Usable(i)
  BY SMTT(30), SMTT(45), SMTT(60), <1>1, NodeFields, MemoryAssumption DEF MemInv, RangesInv, Pages
<1>3. \A u \in Threads : Working(u) => op[u].id # i
  BY ZenonT(60), <1>1 DEF Busy, Working
<1>4. Phases' /\ RangesInv' /\ EntriesOK'
  BY <1>1, PhasesStay, RangesStay DEF MemInv, Phases, EntriesOK
<1>5. ASSUME NEW c, c \in Calls, Shape(c), c.id = i, c.vpn = v, c.count = n,
             c.fam \in {"commit", "commit_run"}, op' = [op EXCEPT ![t] = c]
      PROVE  CallsInv'
  <2>1. Inside(c)
    BY SMTT(30), SMTT(45), SMTT(60), <1>1, <1>2, <1>5 DEF Inside
  <2> QED BY ZenonT(60), <1>1, <1>3, <1>5, <2>1, CallEnters DEF MemInv
<1>6. CASE CommitContiguous(t, i, v, n)
  <2>1. PICK b \in BlockFor(n) :
          /\ blocks' = blocks \cup {b}
          /\ op' = [op EXCEPT ![t] = [Call("map", "commit_run", i, v, n) EXCEPT !.pfn = b.pfn]]
    BY ZenonT(60), <1>6 DEF CommitContiguous
  <2>2. /\ b \in [pfn : Int, size : Nat \ {0}] /\ b.pfn \in 0..NumFrames
        /\ FramesOf(b) \subseteq FreeFrames
    BY <1>2, BlockForSound
  <2>3. BlocksOK'
    BY <2>1, <2>2, BlocksKeep DEF MemInv
  <2>4. PICK c : c = [Call("map", "commit_run", i, v, n) EXCEPT !.pfn = b.pfn]
    BY ZenonT(60)
  <2>5. b.pfn # Frameless
    BY <2>2, MemoryAssumption
  <2>6. c \in Calls /\ Shape(c)
    BY <1>2, <2>2, <2>4, <2>5 DEF Call, Calls, Shape
  <2>7. c.id = i /\ c.vpn = v /\ c.count = n /\ c.fam = "commit_run"
    BY <2>4 DEF Call
  <2>8. CallsInv'
    BY ZenonT(60), <1>5, <2>1, <2>4, <2>6, <2>7
  <2> QED BY ZenonT(60), <1>4, <2>3, <2>8 DEF MemInv
<1>7. CASE CommitSparse(t, i, v, n)
  <2>1. op' = [op EXCEPT ![t] = Call("batch", "commit", i, v, n)] /\ UNCHANGED blocks
    BY <1>7 DEF CommitSparse
  <2>2. PICK c : c = Call("batch", "commit", i, v, n)
    OBVIOUS
  <2>3. c \in Calls /\ Shape(c) /\ c.id = i /\ c.vpn = v /\ c.count = n /\ c.fam = "commit"
    BY <1>2, <2>2 DEF Call, Calls, Shape
  <2>4. CallsInv'
    BY ZenonT(60), <1>5, <2>1, <2>2, <2>3
  <2> QED BY <1>4, <2>1, <2>4, BlocksKeep DEF MemInv
<1> QED BY <1>6, <1>7 DEF Commit

\* One turn of the sparse loop takes frames, or turns to the error path.
LEMMA Mem_AllocateBatch ==
  ASSUME MemInv, NEW t \in Threads, AllocateBatch(t)
  PROVE  MemInv'
<1>1. op[t].st = "batch" /\ UNCHANGED <<local, node, free_count, pt, tables, phase, panicked>>
  BY ZenonT(60) DEF AllocateBatch
<1>2. /\ Working(t) /\ op[t] \in Calls /\ Shape(op[t]) /\ phase # "removed"
      /\ op[t].count \in Nat /\ op[t].done \in Nat /\ panicked \in BOOLEAN
  BY ZenonT(60), <1>1, AtWork DEF Working
<1>3. /\ op[t].fam \in {"sparse", "commit"} /\ op[t].done < op[t].count /\ op[t].count > 0
      /\ op[t].count - op[t].done \in Nat
  BY SMTT(30), SMTT(45), SMTT(60), <1>1, <1>2 DEF Shape
<1>4. Phases' /\ RangesInv' /\ EntriesOK'
  BY <1>1, <1>2, PhasesStay, RangesStay DEF MemInv, EntriesOK
<1>5. CASE \E b \in BatchBlock(op[t].count - op[t].done) :
             /\ blocks' = blocks \cup {b}
             /\ op' = [op EXCEPT ![t].st = "map", ![t].pfn = b.pfn, ![t].n = b.size]
  <2>1. PICK b \in BatchBlock(op[t].count - op[t].done) :
          /\ blocks' = blocks \cup {b}
          /\ op' = [op EXCEPT ![t].st = "map", ![t].pfn = b.pfn, ![t].n = b.size]
    BY ZenonT(60), <1>5
  <2>2. /\ b \in [pfn : Int, size : Nat \ {0}] /\ b.size <= op[t].count - op[t].done
        /\ b.pfn \in 0..NumFrames /\ FramesOf(b) \subseteq FreeFrames
    BY <1>3, BatchSound
  <2>3. BlocksOK'
    BY <2>1, <2>2, BlocksKeep DEF MemInv
  <2>4. PICK c : c = [op[t] EXCEPT !.st = "map", !.pfn = b.pfn, !.n = b.size]
    OBVIOUS
  <2>5. b.pfn # Frameless /\ b.size \in Nat /\ b.size > 0
    BY <2>2, MemoryAssumption
  <2>6. /\ c \in Calls /\ c.st = "map" /\ c.pfn = b.pfn /\ c.n = b.size
        /\ c.id = op[t].id /\ c.vpn = op[t].vpn /\ c.count = op[t].count
        /\ c.fam = op[t].fam /\ c.done = op[t].done
    BY ZenonT(60), <1>2, <2>2, <2>4, <2>5 DEF Calls
  <2>7. Shape(c)
    BY SMTT(30), SMTT(45), SMTT(60), <1>2, <1>3, <2>2, <2>5, <2>6 DEF Shape
  <2>8. op' = [op EXCEPT ![t] = c]
    BY ZenonT(60), <2>1, <2>4 DEF MemInv, CallsInv, OpsOK
  <2>9. CallsInv'
    BY ZenonT(60), <1>1, <1>2, <2>6, <2>7, <2>8, CallGoesOn DEF MemInv
  <2> QED BY <1>4, <2>3, <2>9 DEF MemInv
<1>6. CASE Stage(t, "rollback") /\ UNCHANGED blocks
  <2>1. PICK c : c = [op[t] EXCEPT !.st = "rollback"]
    BY ZenonT(60)
  <2>2. /\ c \in Calls /\ c.st = "rollback" /\ c.id = op[t].id /\ c.vpn = op[t].vpn
        /\ c.count = op[t].count /\ c.fam = op[t].fam /\ c.done = op[t].done
    BY SMTT(30), SMTT(45), SMTT(60), <1>2, <2>1 DEF Calls
  <2>3. Shape(c)
    BY <1>2, <1>3, <2>2 DEF Shape
  <2>4. CallsInv'
    BY ZenonT(60), <1>1, <1>2, <1>6, <2>1, <2>2, <2>3, CallGoesOn DEF MemInv, Stage
  <2> QED BY <1>4, <1>6, <2>4, BlocksKeep DEF MemInv
<1> QED BY ZenonT(60), <1>5, <1>6 DEF AllocateBatch

\* The entries of one block are written, as far as they go.
LEMMA Mem_MapMemory ==
  ASSUME Counting, MemInv, NEW t \in Threads, MapMemory(t)
  PROVE  MemInv'
<1>1. op[t].st = "map" /\ UNCHANGED <<local, node, free_count, phase, panicked>>
  BY ZenonT(60) DEF MapMemory
<1>2. /\ Working(t) /\ op[t] \in Calls /\ Shape(op[t]) /\ phase # "removed" /\ op[t].vpn \in Int
      /\ op[t].count \in Nat /\ op[t].done \in Nat /\ op[t].n \in Nat /\ panicked \in BOOLEAN
      /\ op[t].count > 0 /\ Span(op[t].vpn, op[t].count) \subseteq Pages
  BY <1>1, AtWork DEF Working
<1> DEFINE After(c, v, stop) ==
             /\ MapTo(v, stop, c.pfn)
             /\ \/ /\ stop = v + c.n
                   /\ UNCHANGED blocks
                   /\ op' = [op EXCEPT ![t] = IF c.done + c.n = c.count THEN Idle
                                              ELSE [c EXCEPT !.st = "batch", !.done = @ + c.n,
                                                             !.pfn = Frameless]]
                \/ /\ stop < v + c.n /\ c.fam \in {"sparse", "commit", "commit_run"}
                   /\ blocks' = blocks \ BlockAt(c.pfn)
                   /\ op' = [op EXCEPT ![t] = IF c.fam = "commit_run" THEN Idle
                                              ELSE [c EXCEPT !.st = "rollback",
                                                             !.pfn = Frameless]]
                \/ /\ stop < v + c.n /\ c.fam \in {"map", "contiguous"}
                   /\ UNCHANGED blocks
                   /\ Stage(t, "release")
<1>a. \E c \in {op[t]} : \E v \in {c.vpn + c.done} : \E stop \in Stops(v, c.n) : After(c, v, stop)
  BY ZenonT(60) DEF MapMemory
<1> HIDE DEF After
<1>3. PICK c \in Calls : /\ c = op[t]
                         /\ \E stop \in Stops(c.vpn + c.done, c.n) : After(c, c.vpn + c.done, stop)
  BY ZenonT(60), <1>2, <1>a
<1>4. /\ c.fam \in {"map", "contiguous", "sparse", "commit", "commit_run"}
      /\ c.n > 0 /\ c.done + c.n <= c.count /\ c.pfn # Frameless
      /\ c.fam \in {"map", "contiguous", "commit_run"} => c.done = 0 /\ c.n = c.count
  BY ZenonT(60), <1>1, <1>2, <1>3 DEF Shape
<1>b. PICK stop \in Stops(c.vpn + c.done, c.n) : After(c, c.vpn + c.done, stop)
  BY <1>3
<1>5. /\ MapTo(c.vpn + c.done, stop, c.pfn)
      /\ \/ /\ UNCHANGED blocks
            /\ op' = [op EXCEPT ![t] = IF c.done + c.n = c.count THEN Idle
                                       ELSE [c EXCEPT !.st = "batch", !.done = @ + c.n,
                                                      !.pfn = Frameless]]
         \/ /\ c.fam \in {"sparse", "commit", "commit_run"}
            /\ blocks' = blocks \ BlockAt(c.pfn)
            /\ op' = [op EXCEPT ![t] = IF c.fam = "commit_run" THEN Idle
                                       ELSE [c EXCEPT !.st = "rollback", !.pfn = Frameless]]
         \/ c.fam \in {"map", "contiguous"} /\ UNCHANGED blocks /\ Stage(t, "release")
  BY ZenonT(60), <1>b DEF After
<1>6. EntriesOK'
  <2>1. /\ c.vpn + c.done \in Int /\ stop \in Int /\ stop <= c.vpn + c.done + c.n
        /\ c.pfn \in 0..NumFrames
    BY SMTT(30), SMTT(45), SMTT(60), <1>2, <1>3, <1>4, StopsBound DEF Calls
  <2>2. (c.vpn + c.done)..(stop - 1) \subseteq Span(c.vpn, c.count)
    BY <1>2, <1>3, <1>4, <2>1 DEF Span
  <2> QED BY ZenonT(60), <1>2, <1>3, <1>5, <2>1, <2>2, MapKeeps DEF MemInv
<1>7. Phases' /\ RangesInv' /\ BlocksOK'
  BY ZenonT(60), <1>1, <1>2, <1>5, PhasesStay, RangesStay, BlocksKeep DEF MemInv
<1>8. CASE op' = [op EXCEPT ![t] = Idle]
  BY ZenonT(60), <1>1, <1>6, <1>7, <1>8, CallReturns DEF MemInv, CallsUndisturbed
<1>9. ASSUME NEW d \in Calls, Shape(d), d.id = c.id, d.vpn = c.vpn, d.count = c.count,
             d.fam = c.fam, op' = [op EXCEPT ![t] = d]
      PROVE  MemInv'
  <2>1. CallsInv'
    BY ZenonT(60), <1>1, <1>2, <1>3, <1>9, CallGoesOn DEF MemInv
  <2> QED BY <1>6, <1>7, <2>1 DEF MemInv
<1>10. CASE /\ c.done + c.n # c.count
            /\ op' = [op EXCEPT ![t] = [c EXCEPT !.st = "batch", !.done = @ + c.n,
                                                 !.pfn = Frameless]]
  <2>1. PICK d : d = [c EXCEPT !.st = "batch", !.done = @ + c.n, !.pfn = Frameless]
    BY SMTT(30), SMTT(45), SMTT(60)
  <2>2. c.done + c.n \in Nat
    BY <1>2, <1>3
  <2>3. /\ d \in Calls /\ d.st = "batch" /\ d.id = c.id /\ d.vpn = c.vpn /\ d.count = c.count
        /\ d.fam = c.fam /\ d.done = c.done + c.n
    BY ZenonT(60), <1>3, <2>1, <2>2 DEF Calls
  <2>4. Shape(d)
    BY <1>2, <1>3, <1>4, <1>10, <2>3 DEF Shape
  <2> QED BY ZenonT(60), <1>9, <1>10, <2>1, <2>3, <2>4
<1>11. CASE /\ c.fam \in {"sparse", "commit"}
            /\ op' = [op EXCEPT ![t] = [c EXCEPT !.st = "rollback", !.pfn = Frameless]]
  <2>1. PICK d : d = [c EXCEPT !.st = "rollback", !.pfn = Frameless]
    OBVIOUS
  <2>3. /\ d \in Calls /\ d.st = "rollback" /\ d.id = c.id /\ d.vpn = c.vpn /\ d.count = c.count
        /\ d.fam = c.fam /\ d.done = c.done
    BY ZenonT(60), <1>3, <2>1 DEF Calls
  <2>4. Shape(d)
    BY ZenonT(60), <1>2, <1>3, <1>4, <1>11, <2>3 DEF Shape
  <2> QED BY ZenonT(60), <1>9, <1>11, <2>1, <2>3, <2>4
<1>12. CASE c.fam \in {"map", "contiguous"} /\ Stage(t, "release")
  <2>1. PICK d : d = [c EXCEPT !.st = "release"]
    BY ZenonT(60)
  <2>3. /\ d \in Calls /\ d.st = "release" /\ d.id = c.id /\ d.vpn = c.vpn /\ d.count = c.count
        /\ d.fam = c.fam /\ d.done = c.done
    BY <1>3, <2>1 DEF Calls
  <2>4. Shape(d)
    BY ZenonT(60), <1>2, <1>3, <1>4, <1>12, <2>3 DEF Shape
  <2>5. op' = [op EXCEPT ![t] = d]
    BY <1>3, <1>12, <2>1 DEF Stage
  <2> QED BY ZenonT(60), <1>9, <2>3, <2>4, <2>5
<1> QED BY <1>5, <1>8, <1>10, <1>11, <1>12

-----------------------------------------------------------------------------
(* Error paths, Free and Unmap.                                              *)

\* The frames of an abandoned sparse range go back.
LEMMA Mem_RollbackFrames ==
  ASSUME MemInv, NEW t \in Threads, RollbackFrames(t)
  PROVE  MemInv'
<1>1. /\ op[t].st = "rollback" /\ UNCHANGED <<local, node, free_count, pt, tables, phase, panicked>>
      /\ blocks' \subseteq blocks /\ Stage(t, "rollback_unmap")
  BY DEF RollbackFrames
<1>2. /\ Working(t) /\ op[t] \in Calls /\ Shape(op[t]) /\ phase # "removed"
      /\ panicked \in BOOLEAN
  BY <1>1, AtWork DEF Working
<1>3. PICK c : c = [op[t] EXCEPT !.st = "rollback_unmap"]
  BY ZenonT(60)
<1>4. /\ c \in Calls /\ c.st = "rollback_unmap" /\ c.id = op[t].id /\ c.vpn = op[t].vpn
      /\ c.count = op[t].count /\ c.fam = op[t].fam /\ c.done = op[t].done
  BY ZenonT(60), <1>2, <1>3 DEF Calls
<1>5. Shape(c)
  BY <1>1, <1>2, <1>4 DEF Shape
<1>6. CallsInv'
  BY ZenonT(60), <1>1, <1>2, <1>3, <1>4, <1>5, CallGoesOn DEF MemInv, Stage
<1>7. Phases' /\ RangesInv' /\ EntriesOK' /\ BlocksOK'
  BY ZenonT(60), <1>1, <1>2, PhasesStay, RangesStay, BlocksKeep DEF MemInv, EntriesOK
<1> QED BY <1>6, <1>7 DEF MemInv

\* ... then its entries.
LEMMA Mem_RollbackUnmap ==
  ASSUME MemInv, NEW t \in Threads, RollbackUnmap(t)
  PROVE  MemInv'
<1>1. /\ op[t].st = "rollback_unmap" /\ pt' = Unmapped(Span(op[t].vpn, op[t].done))
      /\ UNCHANGED <<local, node, free_count, tables, blocks, phase, panicked>>
  BY DEF RollbackUnmap
<1>2. /\ Working(t) /\ op[t] \in Calls /\ Shape(op[t]) /\ phase # "removed"
      /\ panicked \in BOOLEAN
  BY ZenonT(60), <1>1, AtWork DEF Working
<1>3. Phases' /\ RangesInv' /\ EntriesOK' /\ BlocksOK'
  BY <1>1, <1>2, PhasesStay, RangesStay, ClearKeeps, BlocksKeep DEF MemInv
<1>4. CASE op[t].fam = "commit" /\ Return(t)
  BY ZenonT(60), <1>1, <1>3, <1>4, CallReturns DEF MemInv, Return, CallsUndisturbed
<1>5. CASE op[t].fam # "commit" /\ Stage(t, "release")
  <2>1. PICK c : c = [op[t] EXCEPT !.st = "release"]
    BY ZenonT(60)
  <2>2. /\ c \in Calls /\ c.st = "release" /\ c.id = op[t].id /\ c.vpn = op[t].vpn
        /\ c.count = op[t].count /\ c.fam = op[t].fam /\ c.done = op[t].done
    BY <1>2, <2>1 DEF Calls
  <2>3. Shape(c)
    BY ZenonT(60), <1>1, <1>2, <1>5, <2>2 DEF Shape
  <2>4. CallsInv'
    BY ZenonT(60), <1>1, <1>2, <1>5, <2>1, <2>2, <2>3, CallGoesOn DEF MemInv, Stage
  <2> QED BY <1>3, <2>4 DEF MemInv
<1> QED BY <1>4, <1>5 DEF RollbackUnmap

\* StVmm_Release*Page.
LEMMA Mem_Release ==
  ASSUME Counting, MemInv, NEW t \in Threads, Release(t)
  PROVE  MemInv'
<1>1. /\ op[t].st = "release" /\ ReleasePages(op[t].vpn, op[t].count)
      /\ UNCHANGED <<local, pt, tables, blocks, phase, panicked>>
  BY DEF Release
<1>2. /\ Working(t) /\ op[t] \in Calls /\ Shape(op[t]) /\ phase # "removed"
      /\ panicked \in BOOLEAN
  BY ZenonT(60), <1>1, AtWork DEF Working
<1>3. RangesInv' /\ CallsUndisturbed(t)
  BY ZenonT(60), <1>1, ReleaseStep DEF MemInv
<1>4. Phases' /\ EntriesOK' /\ BlocksOK'
  BY <1>1, <1>2, PhasesStay, BlocksKeep DEF MemInv, EntriesOK
<1>5. CASE op[t].fam = "contiguous" /\ Stage(t, "unframe")
  <2>1. PICK c : c = [op[t] EXCEPT !.st = "unframe"]
    BY ZenonT(60)
  <2>2. /\ c \in Calls /\ c.st = "unframe" /\ c.count = op[t].count /\ c.fam = op[t].fam
        /\ c.done = op[t].done
    BY <1>2, <2>1 DEF Calls
  <2>3. Shape(c)
    BY ZenonT(60), <1>2, <1>5, <2>2 DEF Shape
  <2>4. CallsInv'
    BY ZenonT(60), <1>3, <1>5, <2>1, <2>2, <2>3, CallMoves DEF MemInv, Stage
  <2> QED BY <1>3, <1>4, <2>4 DEF MemInv
<1>6. CASE op[t].fam # "contiguous" /\ Return(t)
  BY ZenonT(60), <1>3, <1>4, <1>6, CallReturns DEF MemInv, Return
<1> QED BY <1>5, <1>6 DEF Release

\* The frames of a contiguous allocation that found no room.
LEMMA Mem_ReleaseFrames ==
  ASSUME MemInv, NEW t \in Threads, ReleaseFrames(t)
  PROVE  MemInv'
<1>1. /\ op[t].st = "unframe" /\ blocks' \subseteq blocks /\ Return(t)
      /\ UNCHANGED <<local, node, free_count, pt, tables, phase, panicked>>
  BY DEF ReleaseFrames
<1>2. phase # "removed" /\ panicked \in BOOLEAN
  BY <1>1, NotRemoved DEF MemInv, Phases
<1>3. CallsInv'
  BY ZenonT(60), <1>1, CallReturns DEF MemInv, Return, CallsUndisturbed
<1>4. Phases' /\ RangesInv' /\ EntriesOK' /\ BlocksOK'
  BY ZenonT(60), <1>1, <1>2, PhasesStay, RangesStay, BlocksKeep DEF MemInv, EntriesOK
<1> QED BY <1>3, <1>4 DEF MemInv

\* StMm_Free* begins its walk.
LEMMA Mem_FreeBegins ==
  ASSUME MemInv, NEW t \in Threads, NEW i \in Live, NEW v, NEW n,
         (v = node[i].vpn /\ n = node[i].count) \/ (v = Usable(i) /\ n = UsableCount(i)),
         \A u \in Threads : u # t /\ Working(u) => op[u].id # i, phase # "removed",
         op' = [op EXCEPT ![t] = FreeCall(i, v, n)],
         UNCHANGED <<local, node, free_count, pt, tables, blocks, phase, panicked>>
  PROVE  MemInv'
<1>1. PICK c : c = FreeCall(i, v, n)
  BY ZenonT(60)
<1>2. c \in Calls /\ Shape(c) /\ Inside(c) /\ c.id = i
  BY <1>1, FreeCallSound DEF MemInv, Phases
<1>3. /\ CallsInv /\ UNCHANGED node /\ op' = [op EXCEPT ![t] = c]
      /\ \A u \in Threads : u # t /\ Working(u) => op[u].id # c.id
  BY ZenonT(60), <1>1, <1>2 DEF MemInv
<1>5. CallsInv'
  BY ZenonT(60), <1>2, <1>3, CallEnters
<1>4. Phases' /\ RangesInv' /\ EntriesOK' /\ BlocksOK'
  BY PhasesStay, RangesStay, BlocksKeep DEF MemInv, EntriesOK, Phases
<1> QED BY <1>4, <1>5 DEF MemInv

LEMMA Mem_Free ==
  ASSUME MemInv, NEW t \in Threads, NEW i \in NodeIds, Free(t, i)
  PROVE  MemInv'
<1>1. /\ i \in Live /\ ~Busy(i) /\ phase = "open"
      /\ op' = [op EXCEPT ![t] = FreeCall(i, node[i].vpn, node[i].count)]
      /\ UNCHANGED <<local, node, free_count, pt, tables, blocks, phase, panicked>>
  BY DEF Free, Ready
<1>2. \A u \in Threads : Working(u) => op[u].id # i
  BY <1>1 DEF Busy, Working
<1> QED BY ZenonT(60), <1>1, <1>2, Mem_FreeBegins

\* One page of the walk: skipped, or its block given back.
LEMMA Mem_FreeFrame ==
  ASSUME Counting, MemInv, NEW t \in Threads, FreeFrame(t)
  PROVE  MemInv'
<1>1. /\ op[t].st = "free" /\ op[t].done < op[t].count
      /\ UNCHANGED <<local, node, free_count, pt, tables, phase>>
  BY ZenonT(60) DEF FreeFrame
<1>2. /\ Working(t) /\ op[t] \in Calls /\ Shape(op[t]) /\ phase # "removed"
      /\ op[t].count \in Nat /\ op[t].done \in Nat /\ op[t].count > 0 /\ panicked \in BOOLEAN
  BY ZenonT(60), <1>1, AtWork DEF Working
<1>3. op[t].fam = "free"
  BY <1>1, <1>2 DEF Shape
<1>4. CASE op' = [op EXCEPT ![t].done = @ + 1] /\ UNCHANGED <<blocks, panicked>>
  <2>1. PICK c : c = [op[t] EXCEPT !.done = op[t].done + 1]
    BY ZenonT(60)
  <2>0. op[t].done + 1 \in Nat
    BY <1>2
  <2>2. /\ c \in Calls /\ c.st = "free" /\ c.id = op[t].id /\ c.vpn = op[t].vpn
        /\ c.count = op[t].count /\ c.fam = op[t].fam /\ c.done = op[t].done + 1
    BY ZenonT(60), <1>1, <1>2, <2>0, <2>1 DEF Calls
  <2>3. Shape(c)
    BY SMTT(30), SMTT(45), SMTT(60), <1>1, <1>2, <1>3, <2>2 DEF Shape
  <2>4. CallsInv'
    BY ZenonT(60), <1>1, <1>2, <1>4, <2>1, <2>2, <2>3, CallGoesOn DEF MemInv
  <2>5. Phases' /\ RangesInv' /\ EntriesOK' /\ BlocksOK'
    BY ZenonT(60), <1>1, <1>2, <1>4, PhasesStay, RangesStay, BlocksKeep DEF MemInv, EntriesOK
  <2> QED BY <2>4, <2>5 DEF MemInv
<1> DEFINE p == op[t].vpn + op[t].done
           sizes == {op[t].count - op[t].done} \cup {b.size : b \in BlockAt(pt[p].pfn)}
<1>5. CASE /\ blocks' = blocks \ BlockAt(pt[p].pfn)
           /\ panicked' = (BlockAt(pt[p].pfn) = {})
           /\ op' = [op EXCEPT ![t].st = "unmap", ![t].n = Min(sizes)]
  <2>1. sizes \in SUBSET Int /\ (\A x \in sizes : 1 <= x) /\ op[t].count - op[t].done \in sizes
    BY SMTT(30), SMTT(45), SMTT(60), <1>1, <1>2 DEF BlockAt, MemInv, BlocksOK
  <2> HIDE DEF sizes
  <2>2. Min(sizes) \in sizes /\ Min(sizes) <= op[t].count - op[t].done
    <3>1. sizes # {} /\ 1 \in Int
      BY <2>1
    <3>2. Min(sizes) \in sizes /\ \A y \in sizes : Min(sizes) <= y
      BY Zenon, <2>1, <3>1, MinIsLeast
    <3> QED BY Zenon, <2>1, <3>2
  <2>3. /\ Min(sizes) \in Nat /\ Min(sizes) > 0
        /\ op[t].done + Min(sizes) <= op[t].count
    <3>1. PICK m : m = Min(sizes)
      OBVIOUS
    <3>2. m \in Int /\ 1 <= m /\ m <= op[t].count - op[t].done
      BY ZenonT(60), <2>1, <2>2, <3>1
    <3>3. m \in Nat /\ m > 0 /\ op[t].done + m <= op[t].count
      BY <1>2, <3>2
    <3> QED BY <3>1, <3>3
  <2>4. PICK c : c = [op[t] EXCEPT !.st = "unmap", !.n = Min(sizes)]
    OBVIOUS
  <2>5. /\ c \in Calls /\ c.st = "unmap" /\ c.id = op[t].id /\ c.vpn = op[t].vpn
        /\ c.count = op[t].count /\ c.fam = op[t].fam /\ c.done = op[t].done /\ c.n = Min(sizes)
    BY ZenonT(60), <1>2, <2>3, <2>4 DEF Calls
  <2>6. Shape(c)
    BY ZenonT(60), <1>2, <1>3, <2>3, <2>5 DEF Shape
  <2>7. op' = [op EXCEPT ![t] = c]
    BY ZenonT(60), <1>5, <2>4 DEF MemInv, CallsInv, OpsOK
  <2>8. CallsInv'
    BY ZenonT(60), <1>1, <1>2, <2>5, <2>6, <2>7, CallGoesOn DEF MemInv
  <2>9. panicked' \in BOOLEAN /\ blocks' \subseteq blocks
    BY ZenonT(60), <1>5
  <2>10. Phases' /\ RangesInv' /\ EntriesOK' /\ BlocksOK'
    BY SMTT(30), SMTT(45), SMTT(60), <1>1, <1>2, <2>9, PhasesStay, RangesStay, BlocksKeep DEF MemInv, EntriesOK
  <2> QED BY <2>8, <2>10 DEF MemInv
<1> QED BY ZenonT(60), <1>4, <1>5 DEF FreeFrame

\* ... and the pages it covered unmapped.
LEMMA Mem_FreeUnmap ==
  ASSUME MemInv, NEW t \in Threads, FreeUnmap(t)
  PROVE  MemInv'
<1>1. /\ op[t].st = "unmap" /\ pt' = Unmapped(Span(op[t].vpn + op[t].done, op[t].n))
      /\ panicked' \in BOOLEAN
      /\ op' = [op EXCEPT ![t].st = "free", ![t].done = @ + op[t].n]
      /\ UNCHANGED <<local, node, free_count, tables, blocks, phase>>
  BY DEF FreeUnmap
<1>2. /\ Working(t) /\ op[t] \in Calls /\ Shape(op[t]) /\ phase # "removed"
      /\ op[t].count \in Nat /\ op[t].done \in Nat /\ op[t].n \in Nat /\ op[t].count > 0
  BY <1>1, AtWork DEF Working
<1>3. op[t].fam = "free" /\ op[t].done + op[t].n <= op[t].count /\ op[t].done + op[t].n \in Nat
  BY <1>1, <1>2 DEF Shape
<1>4. PICK c : c = [op[t] EXCEPT !.st = "free", !.done = op[t].done + op[t].n]
  OBVIOUS
<1>5. /\ c \in Calls /\ c.st = "free" /\ c.id = op[t].id /\ c.vpn = op[t].vpn
      /\ c.count = op[t].count /\ c.fam = op[t].fam /\ c.done = op[t].done + op[t].n
  BY ZenonT(60), <1>2, <1>3, <1>4 DEF Calls
<1>6. Shape(c)
  BY ZenonT(60), <1>2, <1>3, <1>5 DEF Shape
<1>7. op' = [op EXCEPT ![t] = c]
  BY ZenonT(60), <1>1, <1>2, <1>4 DEF MemInv, CallsInv, OpsOK, Calls
<1>8. CallsInv'
  BY ZenonT(60), <1>1, <1>2, <1>5, <1>6, <1>7, CallGoesOn DEF MemInv
<1>9. Phases' /\ RangesInv' /\ EntriesOK' /\ BlocksOK'
  BY ZenonT(60), <1>1, <1>2, PhasesStay, RangesStay, ClearKeeps, BlocksKeep DEF MemInv
<1> QED BY <1>8, <1>9 DEF MemInv

\* The walk is over: what is left of demand paging goes, then the range.
LEMMA Mem_FreeRest ==
  ASSUME MemInv, NEW t \in Threads, FreeRest(t)
  PROVE  MemInv'
<1>1. /\ op[t].st = "free" /\ Stage(t, "release")
      /\ pt' = pt \/ pt' = Unmanaged(Span(op[t].vpn, op[t].count))
      /\ UNCHANGED <<local, node, free_count, tables, blocks, phase, panicked>>
  BY ZenonT(60) DEF FreeRest
<1>2. /\ Working(t) /\ op[t] \in Calls /\ Shape(op[t]) /\ phase # "removed"
      /\ panicked \in BOOLEAN
  BY ZenonT(60), <1>1, AtWork DEF Working
<1>3. PICK c : c = [op[t] EXCEPT !.st = "release"]
  BY ZenonT(60)
<1>4. /\ c \in Calls /\ c.st = "release" /\ c.id = op[t].id /\ c.vpn = op[t].vpn
      /\ c.count = op[t].count /\ c.fam = op[t].fam /\ c.done = op[t].done
  BY <1>2, <1>3 DEF Calls
<1>5. Shape(c)
  BY <1>1, <1>2, <1>4 DEF Shape
<1>6. CallsInv'
  BY ZenonT(60), <1>1, <1>2, <1>3, <1>4, <1>5, CallGoesOn DEF MemInv, Stage
<1>7. Phases' /\ RangesInv' /\ EntriesOK' /\ BlocksOK'
  BY ZenonT(60), <1>1, <1>2, PhasesStay, RangesStay, ClearKeeps, BlocksKeep DEF MemInv
<1> QED BY <1>6, <1>7 DEF MemInv

\* StMm_Unmap*: the entries at once, the range in the next step.
LEMMA Mem_UnmapBegins ==
  ASSUME MemInv, NEW t \in Threads, NEW i \in Live, UnmapCall(t, i),
         \A u \in Threads : u # t /\ Working(u) => op[u].id # i, phase # "removed",
         UNCHANGED <<local, node, free_count, tables, blocks, phase>>
  PROVE  MemInv'
<1>1. /\ pt' = Unmapped(Span(Usable(i), UsableCount(i))) /\ panicked' \in BOOLEAN
      /\ op' = [op EXCEPT ![t] = Call("release", "unmap", i, Usable(i), UsableCount(i))]
  BY ZenonT(60) DEF UnmapCall
<1>2. /\ i \in NodeIds /\ Usable(i) \in Int /\ Usable(i) < node[i].limit
      /\ node[i].base <= Usable(i) /\ node[i].limit \in Int
  BY ZenonT(60), NodeFields DEF MemInv, RangesInv, NodesOK, Live
<1>3. /\ UsableCount(i) \in Nat /\ UsableCount(i) > 0
      /\ Usable(i) + UsableCount(i) = node[i].limit
  BY <1>2 DEF UsableCount
<1>4. PICK c : c = Call("release", "unmap", i, Usable(i), UsableCount(i))
  BY ZenonT(60)
<1>5. /\ c \in Calls /\ c.st = "release" /\ c.fam = "unmap" /\ c.id = i /\ c.vpn = Usable(i)
      /\ c.count = UsableCount(i) /\ c.done = 0
  BY ZenonT(60), <1>2, <1>3, <1>4 DEF Call, Calls
<1>6. Shape(c) /\ Inside(c)
  BY SMTT(30), SMTT(45), SMTT(60), <1>2, <1>3, <1>5 DEF Shape, Inside
<1>7. /\ CallsInv /\ UNCHANGED node /\ op' = [op EXCEPT ![t] = c]
      /\ \A u \in Threads : u # t /\ Working(u) => op[u].id # c.id
  BY <1>1, <1>4, <1>5 DEF MemInv
<1>8. CallsInv'
  BY ZenonT(60), <1>5, <1>6, <1>7, CallEnters
<1>9. Phases' /\ RangesInv' /\ EntriesOK' /\ BlocksOK'
  BY ZenonT(60), <1>1, PhasesStay, RangesStay, ClearKeeps, BlocksKeep DEF MemInv
<1> QED BY <1>8, <1>9 DEF MemInv

LEMMA Mem_Unmap ==
  ASSUME MemInv, NEW t \in Threads, NEW i \in NodeIds, Unmap(t, i)
  PROVE  MemInv'
<1>1. /\ i \in Live /\ ~Busy(i) /\ phase = "open" /\ UnmapCall(t, i)
      /\ UNCHANGED <<local, node, free_count, tables, blocks, phase>>
  BY DEF Unmap, Ready
<1>2. \A u \in Threads : Working(u) => op[u].id # i
  BY <1>1 DEF Busy, Working
<1> QED BY <1>1, <1>2, Mem_UnmapBegins

\* StAllocationOwner_Close takes the next reservation of its list.
LEMMA Mem_CloseNext ==
  ASSUME Counting, MemInv, NEW t \in Threads, CloseNext(t)
  PROVE  MemInv'
<1>1. /\ phase = "closing" /\ AllIdle /\ Live # {}
      /\ UNCHANGED <<local, node, free_count, tables, blocks, phase>>
  BY DEF CloseNext
<1>2. Min(Live) \in Live
  <2>0. Live \subseteq NodeIds /\ NodeIds \subseteq Nat
    BY MemoryAssumption DEF Live
  <2>1. Live \in SUBSET Int /\ \A x \in Live : 0 <= x
    BY <2>0
  <2> QED BY <1>1, <2>1, MinIsLeast
<1>3. PICK i : i = Min(Live)
  OBVIOUS
<1>4. i \in Live
  BY <1>2, <1>3
<1>5. \A u \in Threads : ~Working(u)
  BY <1>1 DEF AllIdle, Working, Idle
<1>6. CASE /\ op' = [op EXCEPT ![t] = FreeCall(i, Usable(i), UsableCount(i))]
           /\ UNCHANGED <<pt, panicked>>
  BY ZenonT(60), <1>1, <1>4, <1>5, <1>6, Mem_FreeBegins
<1>7. CASE UnmapCall(t, i)
  BY ZenonT(60), <1>1, <1>4, <1>5, <1>7, Mem_UnmapBegins
<1> QED BY <1>3, <1>6, <1>7 DEF CloseNext

-----------------------------------------------------------------------------
(* Page faults, protection changes and the life of the address space.        *)

\* While no call is in progress the calls' part of the invariant is empty.
LEMMA IdleCalls ==
  ASSUME CallsInv, AllIdle, op' = op
  PROVE  CallsInv'
<1>1. \A u \in Threads : ~Working(u)
  BY DEF AllIdle, Working, Idle
<1> QED BY <1>1, CallsStay

\* StMm_HandlePageFault.
LEMMA Mem_Fault ==
  ASSUME Counting, MemInv, NEW p \in Pages, Fault(p)
  PROVE  MemInv'
<1>1. local /\ AllIdle /\ phase = "open" /\ UNCHANGED <<local, op, phase, panicked>>
  BY DEF Fault
<1> DEFINE Grown(i) ==
             \/ p >= Usable(i) /\ UNCHANGED <<node, free_count>>
             \/ /\ CanGrow(i, p)
                /\ node' = [node EXCEPT ![i].base = @ - 1]
                /\ free_count' = free_count - 1
           Filled ==
             \/ UNCHANGED <<pt, tables, blocks>>
             \/ \E b \in BlockFor(1), stop \in Stops(p, 1) :
                   /\ MapTo(p, stop, b.pfn)
                   /\ blocks' = IF stop = p THEN blocks ELSE blocks \cup {b}
<1>2. (\E i \in NodeAt(p) : Grown(i)) /\ Filled
  BY ZenonT(60) DEF Fault
<1>3. RangesInv'
  <2>1. PICK i \in NodeAt(p) : Grown(i)
    BY <1>2
  <2>2. i \in Live
    BY DEF NodeAt
  <2>3. CASE UNCHANGED <<node, free_count>>
    BY <1>1, <2>3, RangesStay DEF MemInv
  <2>4. CASE /\ CanGrow(i, p) /\ node' = [node EXCEPT ![i].base = @ - 1]
             /\ free_count' = free_count - 1
    BY ZenonT(60), <1>1, <2>2, <2>4, GrowKeeps DEF MemInv
  <2> QED BY <2>1, <2>3, <2>4
<1>4. EntriesOK' /\ BlocksOK'
  <2>1. CASE UNCHANGED <<pt, tables, blocks>>
    BY <2>1, BlocksKeep DEF MemInv, EntriesOK
  <2>2. CASE \E b \in BlockFor(1), stop \in Stops(p, 1) :
                /\ MapTo(p, stop, b.pfn)
                /\ blocks' = IF stop = p THEN blocks ELSE blocks \cup {b}
    <3>1. PICK b \in BlockFor(1), stop \in Stops(p, 1) :
                /\ MapTo(p, stop, b.pfn)
                /\ blocks' = IF stop = p THEN blocks ELSE blocks \cup {b}
      BY <2>2
    <3>2. /\ b \in [pfn : Int, size : Nat \ {0}] /\ b.pfn \in 0..NumFrames
          /\ FramesOf(b) \subseteq FreeFrames
      BY BlockForSound
    <3>3. p \in Int
      BY MemoryAssumption DEF Pages
    <3>4. stop \in Int /\ p <= stop /\ stop <= p + 1
      BY <3>3, StopsBound
    <3>5. p..(stop - 1) \subseteq Pages
      BY <3>3, <3>4
    <3>6. EntriesOK'
      BY SMTT(30), SMTT(45), SMTT(60), <3>1, <3>2, <3>3, <3>4, <3>5, MapKeeps DEF MemInv
    <3>7. BlocksOK'
      BY <3>1, <3>2, BlocksKeep DEF MemInv
    <3> QED BY <3>6, <3>7
  <2> QED BY <1>2, <2>1, <2>2
<1>5. Phases' /\ CallsInv'
  BY <1>1, IdleCalls, PhasesStay DEF MemInv, Phases
<1> QED BY <1>3, <1>4, <1>5 DEF MemInv

\* StVmm_SetLocalPageReservationMapFlags changes flags and no range.
LEMMA Mem_Protect ==
  ASSUME MemInv, NEW v, NEW n, Protect(v, n)
  PROVE  MemInv'
<1>1. AllIdle /\ phase = "open" /\ UNCHANGED <<local, free_count, pt, tables, blocks, op, phase, panicked>>
  BY ZenonT(60) DEF Protect
<1>2. PICK T : /\ T \subseteq Live
               /\ node' = [i \in NodeIds |-> IF i \in T
                                         THEN [node[i] EXCEPT !.guarded = FALSE, !.grow = FALSE]
                                         ELSE node[i]]
  <2> DEFINE stray(p) == \A i \in NodeAt(p) : p < Usable(i)
             touched == UNION {NodeAt(p) : p \in {p \in Span(v, n) : \A q \in v..p : ~stray(q)}}
             New(T) == node' = [i \in NodeIds |-> IF i \in T
                                         THEN [node[i] EXCEPT !.guarded = FALSE, !.grow = FALSE]
                                         ELSE node[i]]
  <2>1. New(touched)
    BY ZenonT(60) DEF Protect
  <2>2. touched \subseteq Live
    BY ZenonT(60) DEF NodeAt
  <2> HIDE DEF touched
  <2> QED BY ZenonT(60), <2>1, <2>2
<1>3. /\ node \in [NodeIds -> NodeT \cup {NoNode}] /\ \A x \in NodeT : x # NoNode
      /\ \A i \in Live : i \in NodeIds /\ node[i] \in NodeT
  BY NodeFields DEF MemInv, RangesInv, NodesOK, NodeT, NoNode, Live
<1>4. ASSUME NEW i \in Live
      PROVE  /\ node'[i] \in NodeT
             /\ node'[i].base = node[i].base /\ node'[i].limit = node[i].limit
             /\ node'[i].guard = node[i].guard /\ node'[i].vpn = node[i].vpn
             /\ node'[i].count = node[i].count
  BY ZenonT(60), <1>2, <1>3 DEF NodeT
<1>5. node' \in [NodeIds -> NodeT \cup {NoNode}]
  <2>1. \A i \in NodeIds : node'[i] \in NodeT \cup {NoNode}
    BY ZenonT(60), <1>2, <1>3, <1>4
  <2> QED BY ZenonT(60), <1>2, <2>1
<1>6. Live' = Live
  BY ZenonT(60), <1>2, <1>3, <1>4 DEF Live
<1>7. RangesInv'
  BY ZenonT(60), <1>1, <1>4, <1>5, <1>6, SameRanges DEF MemInv
<1>8. Phases' /\ EntriesOK' /\ BlocksOK' /\ CallsInv'
  BY <1>1, IdleCalls, PhasesStay, BlocksKeep DEF MemInv, Phases, EntriesOK
<1> QED BY <1>7, <1>8 DEF MemInv

\* An address space without reservations.
LEMMA NoRanges ==
  ASSUME Counting, node' = [i \in NodeIds |-> NoNode], free_count' = Cardinality(Pages),
         pt' = [p \in Pages |-> Empty], tables' \subseteq {Table(p) : p \in Pages}
  PROVE  RangesInv' /\ EntriesOK' /\ Live' = {}
<1>1. Live' = {} /\ NodesOK'
  BY DEF Live, NodesOK
<1>2. Apart'
  BY <1>1 DEF Apart
<1>3. Covered' = {}
  BY <1>1 DEF Covered, NodeAt
<1>4. Counted'
  BY <1>3 DEF Counting, Counted
<1>5. EntriesOK'
  BY DEF EntriesOK, Entries
<1> QED BY <1>1, <1>2, <1>4, <1>5 DEF RangesInv

LEMMA Mem_Close ==
  ASSUME MemInv, Close
  PROVE  MemInv'
<1>1. local /\ AllIdle /\ phase' = "closing" /\ UNCHANGED <<local, node, free_count, pt, tables, blocks, op, panicked>>
  BY DEF Close
<1>2. Phases'
  BY <1>1 DEF MemInv, Phases
<1> QED BY <1>1, <1>2, RangesStay, IdleCalls, BlocksKeep DEF MemInv, EntriesOK

LEMMA Mem_RemoveSpace ==
  ASSUME MemInv, RemoveSpace
  PROVE  MemInv'
<1>1. /\ phase = "closing" /\ AllIdle /\ phase' = "removed" /\ tables' = {}
      /\ UNCHANGED <<local, node, free_count, pt, blocks, op, panicked>>
  BY DEF RemoveSpace
<1>2. Phases'
  BY <1>1 DEF MemInv, Phases, AllIdle
<1>3. EntriesOK'
  BY <1>1 DEF MemInv, EntriesOK
<1> QED BY ZenonT(60), <1>1, <1>2, <1>3, RangesStay, IdleCalls, BlocksKeep DEF MemInv

LEMMA Mem_CreateSpace ==
  ASSUME Counting, MemInv, CreateSpace
  PROVE  MemInv'
<1>1. /\ phase = "removed" /\ phase' = "open" /\ pt' = [p \in Pages |-> Empty]
      /\ node' = [i \in NodeIds |-> NoNode] /\ free_count' = Cardinality(Pages)
      /\ UNCHANGED <<local, tables, blocks, op, panicked>>
  BY DEF CreateSpace
<1>2. Phases' /\ AllIdle
  BY <1>1 DEF MemInv, Phases
<1>3. RangesInv' /\ EntriesOK'
  BY <1>1, NoRanges DEF MemInv, EntriesOK
<1> QED BY ZenonT(60), <1>1, <1>2, <1>3, IdleCalls, BlocksKeep DEF MemInv

\* Nothing happens.
LEMMA Mem_Stutter ==
  ASSUME MemInv, UNCHANGED vars
  PROVE  MemInv'
<1>1. UNCHANGED <<local, node, free_count, pt, tables, blocks, op, phase, panicked>>
  BY ZenonT(60) DEF vars
<1>2. Phases' /\ RangesInv' /\ EntriesOK' /\ BlocksOK' /\ CallsInv'
  BY ZenonT(60), <1>1, PhasesStay, RangesStay, BlocksKeep, CallsStay DEF MemInv, EntriesOK, Phases
<1> QED BY <1>2 DEF MemInv

LEMMA NextMemInv ==
  ASSUME Counting, MemInv, [Next]_vars
  PROVE  MemInv'
<1>1. ASSUME NEW t \in Threads, Start(t) PROVE MemInv'
  <2>1. ASSUME NEW r \in IF local THEN LocalRequests ELSE GlobalRequests,
               \/ ReserveRange(t, r) \/ ReserveRangeTo(t, r)
               \/ MapRange(t, r) \/ MapRangeTo(t, r)
               \/ AllocateContiguous(t, r) \/ AllocateContiguousTo(t, r)
               \/ AllocateGlobalSparse(t, r) \/ AllocateGlobalSparseTo(t, r)
               \/ AllocateLocalSparse(t, r) \/ AllocateLocalSparseTo(t, r)
               \/ AllocateLocalImageTo(t, r)
        PROVE  MemInv'
    <3>1. r \in Requests
      BY ZenonT(60), MemoryAssumption
    <3>2. \/ MakeReservation(r)
          \/ Ready(t) /\ (ReserveToMap(t, r) \/ FramesFirst(t, r) \/ InBatches(t, r))
          \/ Lazily(r)
      BY <2>1 DEF ReserveRange, ReserveRangeTo, MapRange, MapRangeTo, AllocateContiguous,
         AllocateContiguousTo, AllocateGlobalSparse, AllocateGlobalSparseTo,
         AllocateLocalSparse, AllocateLocalSparseTo, AllocateLocalImageTo
    <3> QED BY SMTT(30), SMTT(45), SMTT(60), <3>1, <3>2, Mem_MakeReservation, Mem_ReserveToMap, Mem_FramesFirst,
               Mem_InBatches, Mem_Lazily
  <2>2. ASSUME NEW i \in NodeIds, Free(t, i) PROVE MemInv'
    BY <2>2, Mem_Free
  <2>3. ASSUME NEW i \in NodeIds, Unmap(t, i) PROVE MemInv'
    BY <2>3, Mem_Unmap
  <2>4. ASSUME NEW i \in NodeIds, NEW v \in Pages, NEW n \in 1..MaxCommit, Commit(t, i, v, n)
        PROVE  MemInv'
    BY ZenonT(60), <2>4, Mem_Commit
  <2> QED BY ZenonT(60), <1>1, <2>1, <2>2, <2>3, <2>4 DEF Start
<1>2. ASSUME NEW t \in Threads, Step(t) PROVE MemInv'
  BY ZenonT(60), <1>2, Mem_ReserveForFrames, Mem_AllocateBatch, Mem_MapMemory, Mem_RollbackFrames,
     Mem_RollbackUnmap, Mem_Release, Mem_ReleaseFrames, Mem_FreeFrame, Mem_FreeUnmap,
     Mem_FreeRest DEF Step
<1>3. ASSUME NEW t \in Threads, CloseNext(t) PROVE MemInv'
  BY <1>3, Mem_CloseNext
<1>4. ASSUME NEW p \in Pages, Fault(p) PROVE MemInv'
  BY <1>4, Mem_Fault
<1>5. ASSUME NEW p \in Pages, NEW n \in 1..MaxCommit, Protect(p, n) PROVE MemInv'
  BY <1>5, Mem_Protect
<1>6. CASE Close \/ RemoveSpace \/ CreateSpace
  BY <1>6, Mem_Close, Mem_RemoveSpace, Mem_CreateSpace
<1>7. CASE UNCHANGED vars
  BY <1>7, Mem_Stutter
<1> QED BY SMTT(30), SMTT(45), SMTT(60), <1>1, <1>2, <1>3, <1>4, <1>5, <1>6, <1>7 DEF Next

LEMMA InitMemInv ==
  ASSUME Counting, Init
  PROVE  MemInv
<1>1. Live = {} /\ NodesOK
  BY DEF Init, Live, NodesOK
<1>2. Apart
  BY <1>1 DEF Apart
<1>3. Covered = {}
  BY ZenonT(60), <1>1 DEF Covered, NodeAt
<1>4. Counted
  BY <1>3 DEF Counting, Counted, Init
<1>5. EntriesOK /\ BlocksOK /\ Phases
  BY ZenonT(60) DEF EntriesOK, Entries, BlocksOK, Phases, Init
<1>6. \A t \in Threads : op[t] = Idle
  BY DEF Init
<1>7. \A t \in Threads : ~Working(t) /\ op[t].st = "idle"
  BY <1>6 DEF Working, Idle
<1>8. OpsOK
  <2>1. \A t \in Threads : op[t] \notin Calls
    BY <1>7 DEF Calls
  <2> QED BY <2>1 DEF OpsOK, Init
<1>9. CallsInside /\ Alone
  BY ZenonT(60), <1>7 DEF CallsInside, Alone
<1> QED BY ZenonT(60), <1>1, <1>2, <1>4, <1>5, <1>8, <1>9 DEF MemInv, RangesInv, CallsInv

\* What the invariant says of the ranges ...
LEMMA MemInvRanges ==
  ASSUME Counting, MemInv
  PROVE  RangesExact
<1>1. \A i \in Live : /\ node[i].base \in Int /\ node[i].limit \in Int /\ node[i].guard \in {0, 1}
                      /\ node[i].base <= Usable(i) /\ Usable(i) < node[i].limit
                      /\ NodeOK(i) /\ Usable(i) \in Int
  BY ZenonT(60), NodeFields DEF MemInv, RangesInv, NodesOK
<1>2. \A i \in Live : node[i].guard \in 0..1 /\ {node[i].base, node[i].limit - 1} \subseteq Pages
  BY SMTT(30), SMTT(45), SMTT(60), <1>1, MemoryAssumption DEF NodeOK, Pages
<1>3. free_count \in 0..Cardinality(Pages)
  <2>1. Covered \subseteq Pages
    BY ZenonT(60) DEF Covered
  <2> QED BY <2>1, CountBound DEF MemInv, RangesInv, Counted
<1>4. \A t \in Threads : op[t] # Idle => op[t].pfn \in 0..NumFrames \cup {Frameless}
  BY ZenonT(60) DEF MemInv, CallsInv, OpsOK, Waiting, Calls
<1>5. TypeOK
  BY ZenonT(60), <1>2, <1>3, <1>4 DEF TypeOK, MemInv, Phases, EntriesOK, BlocksOK
<1>6. free_count = Cardinality(Pages) - Cardinality({p \in Pages : NodeAt(p) # {}})
  BY ZenonT(60) DEF MemInv, RangesInv, Counted, Covered
<1> QED BY ZenonT(60), <1>1, <1>5, <1>6 DEF RangesExact, MemInv, RangesInv, Apart

\* ... and of a call about to release one.
LEMMA MemInvRelease ==
  ASSUME MemInv
  PROVE  ReleaseFinds
<1> SUFFICES ASSUME NEW t \in Threads, op[t].st = "release"
             PROVE  \/ Releasable(op[t].vpn, op[t].count) = {op[t].id}
                    \/ Dropped(op[t].id)
  BY ZenonT(60) DEF ReleaseFinds, Dropped
<1>1. op[t] \in Calls /\ Shape(op[t]) /\ Inside(op[t])
  BY ZenonT(60), AtWork DEF Working, MemInv, CallsInv, CallsInside
<1>2. /\ op[t].id \in Live /\ op[t].vpn + op[t].count = node[op[t].id].limit
      /\ op[t].vpn = node[op[t].id].base \/ op[t].vpn = Usable(op[t].id) \/ Dropped(op[t].id)
  BY ZenonT(60), <1>1 DEF Shape, Inside
<1>3. ASSUME NEW j \in Releasable(op[t].vpn, op[t].count) PROVE j = op[t].id
  BY <1>2, OneEnd DEF Releasable, MemInv
<1> QED BY ZenonT(60), <1>2, <1>3 DEF Releasable

=============================================================================
