-------------------------------- MODULE Pool --------------------------------
(***************************************************************************)
(* The kernel's pool (strata/mm/pool.c): size classes with their subpools,  *)
(* large allocations, and threads that allocate, reallocate and free.       *)
(*                                                                         *)
(* The preemption lock protects the bitmaps and lists, but allocate_internal*)
(* reads entry and subpool before it takes the lock, and allocate_subpool   *)
(* reads the entry before it allocates pages: both are steps of their own.  *)
(* When the entry or the subpool was given up meanwhile the code goes on    *)
(* with a stale pointer; the model stops there ("stale").                   *)
(***************************************************************************)
EXTENDS Integers, Sequences, FiniteSets, FiniteSetsExt

CONSTANTS
    PageBits, MinAlignBits, MantissaBits, SubpoolPages,  \* powers of two and counts
    HeaderBytes, WordBits, WordBytes,                    \* subpool_header without its bitmap
    TableSize,     \* entries of subpool_table
    SubpoolIds,    \* 1, 2, ...: addresses of subpools; LargeIds those of large allocations
    LargeIds,
    PoolThreads,
    Loads          \* what happens: asks of each thread, [size, align]; how many blocks
                   \* the callers own, and how many subpools there are, at most

VARIABLES table, sub, large, owned, pcall, load

poolVars == <<table, sub, large, owned, pcall, load>>

PageSize == 2 ^ PageBits
Span == SubpoolPages * PageSize
Larger(a, b) == IF a > b THEN a ELSE b
AlignUp(x, unit) == ((x + unit - 1) \div unit) * unit
AlignDiv(x, unit) == (x + unit - 1) \div unit
LowestOf(S) == {x \in S : \A y \in S : x <= y}
Msb(x) == CHOOSE b \in 0 .. PageBits : 2 ^ b <= x /\ x < 2 ^ (b + 1)

-----------------------------------------------------------------------------
(* Size classes.                                                           *)

normalize_object_size_Truncating(size, align) ==
    LET least == Larger(MinAlignBits, align)
        quantum == Larger(Msb(size) + 1 - MantissaBits, least)
    IN  IF size <= 2 ^ least THEN 2 ^ least ELSE (size \div 2 ^ quantum) * 2 ^ quantum

normalize_object_size(size, align) ==
    LET least == Larger(MinAlignBits, align)
        quantum == Larger(Msb(size) + 1 - MantissaBits, least)
    IN  IF size <= 2 ^ least THEN 2 ^ least ELSE AlignUp(size, 2 ^ quantum)

HeaderSize(count, align) ==
    AlignUp(HeaderBytes + AlignDiv(count, WordBits) * WordBytes, 2 ^ align)

\* The loop of allocate_subpool: fewer objects until header and objects fit.
RECURSIVE ObjectCount(_, _, _)
ObjectCount(size, align, count) ==
    LET fewer == (Span - HeaderSize(count, align)) \div size
    IN  IF count = 0 \/ fewer = count THEN count ELSE ObjectCount(size, align, fewer)

-----------------------------------------------------------------------------
(* Entries and subpools; 0 is NULL.                                        *)

NoEntry == [size |-> 0, align |-> 0, first |-> 0, last |-> 0, free |-> 0]
NoSubpool == [st |-> "none", size |-> 0, align |-> 0, count |-> 0, header |-> 0, bits |-> {},
              prev |-> 0, next |-> 0, prevFree |-> 0, nextFree |-> 0]
PoolIdle == [at |-> "idle", ask |-> [size |-> 0, align |-> 0], entry |-> 0, header |-> 0, old |-> {}]

IsFull(h) == Cardinality(h.bits) >= h.count

\* The entry of a class, claimed when it is new; 0 when the table is full.
get_object_entry(t, size, align) ==
    LET same == {e \in DOMAIN t : t[e].size = size /\ t[e].align = align}
        unused == {e \in DOMAIN t : t[e].size = 0}
    IN  IF same # {} THEN <<Min(same), t>>
        ELSE IF unused = {} THEN <<0, t>>
        ELSE <<Min(unused), [t EXCEPT ![Min(unused)].size = size, ![Min(unused)].align = align]>>

\* Lists are in a world p = [t : entries, s : subpools].
remove_from_free_list(p, e, x) ==
    LET h == p.s[x]
        t1 == IF h.prevFree = 0 /\ p.t[e].free = x THEN [p.t EXCEPT ![e].free = h.nextFree] ELSE p.t
        s1 == IF h.prevFree # 0 THEN [p.s EXCEPT ![h.prevFree].nextFree = h.nextFree] ELSE p.s
        s2 == IF h.nextFree # 0 THEN [s1 EXCEPT ![h.nextFree].prevFree = h.prevFree] ELSE s1
    IN  [t |-> t1, s |-> [s2 EXCEPT ![x].prevFree = 0, ![x].nextFree = 0]]

push_to_free_list(p, e, x) ==
    LET head == p.t[e].free
        s1 == [p.s EXCEPT ![x].prevFree = 0, ![x].nextFree = head]
    IN  IF p.s[x].prevFree # 0 \/ p.s[x].nextFree # 0 \/ head = x THEN p
        ELSE [t |-> [p.t EXCEPT ![e].free = x],
              s |-> IF head = 0 THEN s1 ELSE [s1 EXCEPT ![head].prevFree = x]]

\* The tail of allocate_subpool, under the lock.
LinkSubpool(p, e, x) ==
    LET last == p.t[e].last
        s1 == [p.s EXCEPT ![x].prev = last]
        s2 == IF last = 0 THEN s1 ELSE [s1 EXCEPT ![last].next = x]
        t1 == [p.t EXCEPT ![e].last = x, ![e].first = IF last = 0 THEN x ELSE @]
    IN  push_to_free_list([t |-> t1, s |-> s2], e, x)

\* The pages stay until StMm_FreeGlobal.
unlink_subpool_locked(p0, e, x) ==
    LET p == remove_from_free_list(p0, e, x)
        h == p.s[x]
        t1 == IF p.t[e].first = x THEN [p.t EXCEPT ![e].first = h.next] ELSE p.t
        s1 == IF p.t[e].first # x /\ h.prev # 0 THEN [p.s EXCEPT ![h.prev].next = h.next] ELSE p.s
        t2 == IF t1[e].last = x THEN [t1 EXCEPT ![e].last = h.prev] ELSE t1
        s2 == IF t1[e].last # x THEN [s1 EXCEPT ![h.next].prev = h.prev] ELSE s1
    IN  [t |-> IF t2[e].first = 0 THEN [t2 EXCEPT ![e].size = 0, ![e].align = 0, ![e].free = 0] ELSE t2,
         s |-> [s2 EXCEPT ![x] = [NoSubpool EXCEPT !.st = "unlinked"]]]

-----------------------------------------------------------------------------
(* Allocation.                                                             *)

PoolInit ==
    /\ table = [e \in 1 .. TableSize |-> NoEntry]
    /\ sub = [x \in SubpoolIds |-> NoSubpool]
    /\ large = {}
    /\ owned = {}
    /\ load \in Loads
    /\ pcall = [th \in PoolThreads |-> PoolIdle]

NothingStale == \A th \in PoolThreads : pcall[th].at # "stale"
AtCall(th, at) == NothingStale /\ pcall[th].at = at
Fail(th) == pcall' = [pcall EXCEPT ![th] = PoolIdle] /\ owned' = owned \cup pcall[th].old

\* The call after its block was found: a reallocation goes on to free the old one.
Served(old) == IF old = {} THEN PoolIdle ELSE [PoolIdle EXCEPT !.at = "free", !.old = old]

Object(x, i, ask) == [kind |-> "object", at |-> x, i |-> i, ask |-> ask]
Large(x, ask) == [kind |-> "large", at |-> x, i |-> 0, ask |-> ask]

EffectiveSize(ask) == IF ask.size = 0 THEN 1 ELSE ask.size
EffectiveAlign(ask) == Larger(ask.align, MinAlignBits)
IsLarge(ask) ==
    IF EffectiveSize(ask) > PageSize \/ EffectiveAlign(ask) > PageBits THEN TRUE
    ELSE normalize_object_size(EffectiveSize(ask), EffectiveAlign(ask)) > PageSize

\* kept is what the caller still owns besides old, the block to be replaced.
allocate_large(th, ask, old, kept) ==
    /\ UNCHANGED <<table, sub>>
    /\ \/ \E x \in LowestOf(LargeIds \ large) :
             /\ large' = large \cup {x}
             /\ owned' = kept \cup {Large(x, ask)}
             /\ pcall' = [pcall EXCEPT ![th] = Served(old)]
       \/ UNCHANGED <<large, pcall>> /\ owned' = kept \cup old

ClassOf(ask) ==
    <<normalize_object_size(EffectiveSize(ask), EffectiveAlign(ask)), EffectiveAlign(ask)>>
HasClass(t, e, ask) == <<t[e].size, t[e].align>> = ClassOf(ask)

\* No lock is held.  The 0 of a table without room is not reached: there are
\* more entries than classes.
PickSubpool(th, ask, old, kept) ==
    /\ \E r \in {get_object_entry(table, ClassOf(ask)[1], ClassOf(ask)[2])} :
          /\ table' = r[2]
          /\ pcall' = [pcall EXCEPT ![th] = [at |-> IF r[2][r[1]].free = 0 THEN "subpool" ELSE "take",
                           ask |-> ask, entry |-> r[1], header |-> r[2][r[1]].free, old |-> old]]
    /\ owned' = kept
    /\ UNCHANGED <<sub, large>>

\* allocate_internal up to the lock.
Begin(th, ask, old, kept) ==
    \/ IsLarge(ask) /\ allocate_large(th, ask, old, kept)
    \/ ~IsLarge(ask) /\ PickSubpool(th, ask, old, kept)

StPool_Allocate(th) ==
    /\ AtCall(th, "idle") /\ Cardinality(owned) < load.blocks
    /\ \E ask \in load.asks[th] : Begin(th, ask, {}, owned)

\* The first half of allocate_subpool: the entry again, then the pages.
AllocatePages(th) ==
    /\ AtCall(th, "subpool")
    /\ \E r \in {get_object_entry(table, ClassOf(pcall[th].ask)[1], ClassOf(pcall[th].ask)[2])},
          c \in {ClassOf(pcall[th].ask)} :
       \E n \in {ObjectCount(c[1], c[2], Span \div c[1])} :
          /\ table' = r[2]
          /\ \/ \E x \in LowestOf({y \in 1 .. load.subpools : sub[y].st = "none"}) :
                   /\ sub' = [sub EXCEPT ![x] = [NoSubpool EXCEPT !.st = "new", !.size = c[1], !.align = c[2],
                                     !.count = n, !.header = HeaderSize(n, c[2])]]
                   /\ pcall' = [pcall EXCEPT ![th].header = x,
                         ![th].at = IF r[1] = pcall[th].entry THEN "link" ELSE "stale"]
                   /\ UNCHANGED owned
             \/ UNCHANGED sub /\ Fail(th)
    /\ UNCHANGED large

allocate_subpool(th) ==
    /\ AtCall(th, "link")
    /\ IF ~HasClass(table, pcall[th].entry, pcall[th].ask)
       THEN pcall' = [pcall EXCEPT ![th].at = "stale"] /\ UNCHANGED <<table, sub>>
       ELSE \E p \in {LinkSubpool([t |-> table, s |-> [sub EXCEPT ![pcall[th].header].st = "used"]],
                                  pcall[th].entry, pcall[th].header)} :
               table' = p.t /\ sub' = p.s /\ pcall' = [pcall EXCEPT ![th].at = "take"]
    /\ UNCHANGED <<large, owned>>

Give(th, ptr) ==
    /\ owned' = owned \cup {ptr}
    /\ pcall' = [pcall EXCEPT ![th] = Served(pcall[th].old)]


\* The first clear bit; a subpool that is full now leaves the free list.
TakeObject(th) ==
    LET x == pcall[th].header
        i == Min((0 .. sub[x].count - 1) \ sub[x].bits)
        p == [t |-> table, s |-> [sub EXCEPT ![x].bits = @ \cup {i}]]
        q == IF IsFull(p.s[x]) THEN remove_from_free_list(p, pcall[th].entry, x) ELSE p
    IN  table' = q.t /\ sub' = q.s /\ Give(th, Object(x, i, pcall[th].ask))

\* Others may have filled the subpool since it was picked.
allocate_internal(th) ==
    /\ AtCall(th, "take")
    /\ LET h == sub[pcall[th].header] IN
       CASE \/ h.st # "used" \/ <<h.size, h.align>> # ClassOf(pcall[th].ask)
            \/ ~HasClass(table, pcall[th].entry, pcall[th].ask) ->
              pcall' = [pcall EXCEPT ![th].at = "stale"] /\ UNCHANGED <<table, sub, owned>>
         [] h.st = "used" /\ <<h.size, h.align>> = ClassOf(pcall[th].ask)
            /\ HasClass(table, pcall[th].entry, pcall[th].ask) /\ IsFull(h) ->
              Fail(th) /\ UNCHANGED <<table, sub>>
         [] OTHER -> TakeObject(th)
    /\ UNCHANGED large

-----------------------------------------------------------------------------
(* Release.  Callers free what they own.                                   *)

FreeObject(th, ptr) ==
    LET x == ptr.at
        e == get_object_entry(table, sub[x].size, sub[x].align)[1]
        wasFull == IsFull(sub[x])
        p == [t |-> table, s |-> [sub EXCEPT ![x].bits = @ \ {ptr.i}]]
        q == CASE p.s[x].bits = {} -> unlink_subpool_locked(p, e, x)
               [] p.s[x].bits # {} /\ wasFull -> push_to_free_list(p, e, x)
               [] OTHER -> p
    IN  /\ table' = q.t /\ sub' = q.s
        /\ pcall' = [pcall EXCEPT ![th] = IF q.s[x].st = "used" THEN PoolIdle
                         ELSE [PoolIdle EXCEPT !.at = "pages", !.header = x]]
        /\ UNCHANGED large

\* The pages of a large block are given back without the lock.
FreePtr(th, ptr) ==
    IF ptr.kind = "object" THEN FreeObject(th, ptr)
    ELSE /\ large' = large \ {ptr.at}
         /\ pcall' = [pcall EXCEPT ![th] = PoolIdle]
         /\ UNCHANGED <<table, sub>>

StPool_Free(th) ==
    \/ AtCall(th, "idle") /\ \E ptr \in owned : FreePtr(th, ptr) /\ owned' = owned \ {ptr}
    \/ AtCall(th, "free") /\ (\E ptr \in pcall[th].old : FreePtr(th, ptr)) /\ UNCHANGED owned

FreePages(th) ==
    /\ AtCall(th, "pages")
    /\ sub' = [sub EXCEPT ![pcall[th].header] = NoSubpool]
    /\ pcall' = [pcall EXCEPT ![th] = PoolIdle]
    /\ UNCHANGED <<table, large, owned>>

\* The room of a block; a request that fits gets the same block back.
RoomOf(ptr) ==
    IF ptr.kind = "object" THEN sub[ptr.at].size ELSE AlignDiv(EffectiveSize(ptr.ask), PageSize) * PageSize

StPool_Reallocate(th) ==
    /\ AtCall(th, "idle")
    /\ \E ptr \in owned, ask \in load.asks[th] :
          /\ ask.size > RoomOf(ptr)
          /\ Begin(th, [size |-> ask.size, align |-> IF ptr.kind = "object" THEN sub[ptr.at].align
                                                   ELSE Larger(PageBits, ptr.ask.align)],
                   {ptr}, owned \ {ptr})

PoolNext ==
    /\ UNCHANGED load
    /\ \E th \in PoolThreads :
          \/ StPool_Allocate(th) \/ AllocatePages(th) \/ allocate_subpool(th)
          \/ allocate_internal(th) \/ StPool_Free(th) \/ FreePages(th) \/ StPool_Reallocate(th)

PoolSpec == PoolInit /\ [][PoolNext]_poolVars

-----------------------------------------------------------------------------
(* Properties.                                                             *)

RECURSIVE Chain(_, _)
Chain(x, Succ) == IF x = 0 THEN <<>> ELSE <<x>> \o Chain(Succ[x], Succ)
Backward(s) == [i \in DOMAIN s |-> s[Len(s) + 1 - i]]
ElemsOf(s) == {s[i] : i \in DOMAIN s}

\* Both lists of every entry agree in both directions; the entry has exactly
\* the subpools of its class, and its free list exactly those with room.
ListsAgree ==
    \A e \in DOMAIN table :
        LET all == Chain(table[e].first, [x \in SubpoolIds |-> sub[x].next])
            back == Chain(table[e].last, [x \in SubpoolIds |-> sub[x].prev])
            free == Chain(table[e].free, [x \in SubpoolIds |-> sub[x].nextFree])
            mine == {x \in SubpoolIds : sub[x].st = "used" /\ sub[x].size = table[e].size
                                        /\ sub[x].align = table[e].align}
        IN  /\ all = Backward(back)
            /\ ElemsOf(all) = mine /\ Len(all) = Cardinality(mine)
            /\ ElemsOf(free) = {x \in mine : ~IsFull(sub[x])} /\ Len(free) = Cardinality(ElemsOf(free))

Blocks == owned \cup UNION {pcall[th].old : th \in PoolThreads}

\* A set bit is a block somebody owns, no two of them the same; the block is
\* aligned, holds what was asked for and stays within the subpool, behind the
\* header and its bitmap.
BlocksSound ==
    /\ \A x \in SubpoolIds : sub[x].st = "used" =>
          /\ sub[x].bits = {ptr.i : ptr \in {b \in Blocks : b.kind = "object" /\ b.at = x}}
          /\ sub[x].header >= HeaderBytes + AlignDiv(sub[x].count, WordBits) * WordBytes
          /\ sub[x].header + sub[x].count * sub[x].size <= Span
          /\ sub[x].header + (sub[x].count + 1) * sub[x].size > Span
    /\ Cardinality(Blocks) = Cardinality({<<b.kind, b.at, b.i>> : b \in Blocks})
    /\ \A b \in Blocks : b.kind = "object" =>
          /\ sub[b.at].st = "used" /\ b.i < sub[b.at].count /\ b.ask.size <= sub[b.at].size
          /\ (sub[b.at].header + b.i * sub[b.at].size) % 2 ^ b.ask.align = 0
    /\ large = {b.at : b \in {c \in Blocks : c.kind = "large"}}

=============================================================================
