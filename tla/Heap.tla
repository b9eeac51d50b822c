-------------------------------- MODULE Heap --------------------------------
(***************************************************************************)
(* The loader's malloc, calloc, realloc and free (lib/liballoc).  Memory   *)
(* comes from the system in majors, runs of pages with a header; every     *)
(* allocation is a minor, a header and its bytes, inside one of them.      *)
(*                                                                         *)
(* hp.maj is the list of majors from l_memRoot, each with the list of its  *)
(* minors; addresses and sizes are bytes.  hlive gives for every pointer   *)
(* the callers hold the bytes they may use.  hdead are the freed minors    *)
(* whose headers nothing has been written over.  hlost: calloc or realloc  *)
(* went on with a NULL from malloc and wrote to address 0.  hwaste: a call *)
(* went to the system, or failed, although a major had room.               *)
(***************************************************************************)
EXTENDS Integers, FiniteSets, Sequences, SequencesExt

CONSTANTS
  HeapSizes,    \* sizes asked for, in bytes
  HeapPages,    \* pages the system has for the heap
  HeapHolds,    \* allocations held at the same time at most
  HeapCalls     \* calls at most

VARIABLES hp, hlive, hdead, hcalls, hlost, hwaste

heapVars == <<hp, hlive, hdead, hcalls, hlost, hwaste>>

ALIGNMENT == 16
ALIGN_INFO == 16
MajorSize == 24          \* sizeof(struct liballoc_major) and _minor on ia32
MinorSize == 24
l_pageSize == 4096
l_pageCount == 16
NoMajor == 0

-----------------------------------------------------------------------------
(* Majors and the system's pages *)

\* ALIGN(): room for the note in front of the pointer, then up to the alignment.
ALIGN(p) == ((p + ALIGN_INFO + ALIGNMENT - 1) \div ALIGNMENT) * ALIGNMENT

\* UNALIGN(): the note says how far the pointer was moved.
UNALIGN(p, note) == IF note < ALIGNMENT + ALIGN_INFO THEN p - note ELSE p

\* The pages a new major asks for.
PagesFor(size) ==
  LET st == size + MajorSize + MinorSize
      pages == IF st % l_pageSize = 0 THEN st \div l_pageSize ELSE (st \div l_pageSize) + 1
  IN IF pages < l_pageCount THEN l_pageCount ELSE pages

\* liballoc_alloc: the lowest free run of the system's pages, counted from
\* page 1, or a refusal.
Taken(h) == UNION {(m.at \div l_pageSize) .. ((m.at \div l_pageSize) + m.pages - 1) : m \in ToSet(h.maj)}
Room(h, st) == {p \in 1 .. (HeapPages - st + 1) : p .. (p + st - 1) \cap Taken(h) = {}}
Lowest(ps) == CHOOSE p \in ps : \A q \in ps : p <= q
liballoc_alloc(h, st) ==
  {NoMajor} \cup (IF Room(h, st) = {} THEN {} ELSE {Lowest(Room(h, st)) * l_pageSize})

allocate_new_page(at, size) ==
  [at |-> at, pages |-> PagesFor(size), size |-> PagesFor(size) * l_pageSize, usage |-> MajorSize, mins |-> <<>>]

-----------------------------------------------------------------------------
(* malloc *)

Minor(at, size, req) == [at |-> at, size |-> size, req |-> req]

\* The bytes behind the k-th minor, in front of the first one for k = 0.
Behind(m, k) == IF k = 0 THEN m.at + MajorSize ELSE m.mins[k].at + MinorSize + m.mins[k].size
Gap(m, k) == (IF k = Len(m.mins) THEN m.at + m.size ELSE m.mins[k + 1].at) - Behind(m, k)

\* Cases 2, 3 and 4: where a minor of this size would be linked in.
Spots(m, need) == {k \in 0 .. Len(m.mins) : Gap(m, k) >= need}
FreeBytes(m) == m.size - m.usage
Suits(m, need) == FreeBytes(m) >= need /\ Spots(m, need) # {}

PlaceAt(m, k, size, req) ==
  [m EXCEPT !.mins = SubSeq(@, 1, k) \o <<Minor(Behind(m, k), size, req)>> \o SubSeq(@, k + 1, Len(@)),
            !.usage = @ + size + MinorSize]
PlaceMinor(m, size, req) == PlaceAt(m, Lowest(Spots(m, size + MinorSize)), size, req)

\* The search begins at the best bet when that looks large enough, and then
\* starts over at the root; the largest major it passes is the next best bet.
Index(h, at) == CHOOSE k \in DOMAIN h.maj : h.maj[k].at = at
BestSize(h) == IF h.best = NoMajor THEN 0 ELSE FreeBytes(h.maj[Index(h, h.best)])
From(h, need) == IF BestSize(h) > need THEN Index(h, h.best) ELSE 0

Order(n, from) ==
  (IF from = 0 THEN <<>> ELSE [k \in 1 .. (n - from + 1) |-> from + k - 1]) \o [k \in 1 .. n |-> k]

Better(acc, m) == IF acc.most < FreeBytes(m) THEN [best |-> m.at, most |-> FreeBytes(m)] ELSE acc
Passed(h, order, last) ==
  FoldLeft(LAMBDA acc, k : Better(acc, h.maj[k]), [best |-> h.best, most |-> BestSize(h)], SubSeq(order, 1, last))

\* What a call returns: the heap, the minor's address, or no memory.
Got(h, at) == [h |-> h, at |-> at]
NoMemory(h) == [h |-> h, at |-> 0]
Counted(h, size) == [h EXCEPT !.inuse = @ + size]

Added(old, new) == (CHOOSE x \in ToSet(new.mins) : x \notin ToSet(old.mins)).at

InMajor(h, k, new, size) ==
  Got(Counted([h EXCEPT !.maj[k] = new], size), Added(h.maj[k], new))

\* No major suits: a new one behind the last.  It becomes the best bet only if
\* the search comes round to it (case 5), not when it is filled at once (case 1).
Round(h, seen, m, full) == IF full THEN seen.best ELSE Better(seen, m).best
Extended(h, seen, m, size, req, full) ==
  Got(Counted([h EXCEPT !.maj = Append(@, PlaceMinor(m, size, req)), !.best = Round(h, seen, m, full),
                        !.allocated = @ + m.size], size),
      m.at + MajorSize)

Grow(h, seen, page, size, req, full) ==
  IF page = NoMajor THEN NoMemory([h EXCEPT !.best = seen.best])
  ELSE Extended(h, seen, allocate_new_page(page, size), size, req, full)

Search(h, order, hits, page, size, req) ==
  IF hits = {}
  THEN Grow(h, Passed(h, order, Len(order)), page, size, req,
            FreeBytes(h.maj[Len(h.maj)]) < size + MinorSize)
  ELSE InMajor([h EXCEPT !.best = Passed(h, order, Lowest(hits)).best], order[Lowest(hits)],
               PlaceMinor(h.maj[order[Lowest(hits)]], size, req), size)

InOrderOf(h, order, page, size, req) ==
  Search(h, order, {k \in DOMAIN order : Suits(h.maj[order[k]], size + MinorSize)}, page, size, req)

\* The first major becomes the root before the search, which finds it empty.
Root(h, page, size) == [h EXCEPT !.maj = <<allocate_new_page(page, size)>>, !.allocated = @ + (PagesFor(size) * l_pageSize)]

Begun(h, page, size, req) ==
  IF h.maj # <<>> THEN InOrderOf(h, Order(Len(h.maj), From(h, size + MinorSize)), page, size, req)
  ELSE IF page = NoMajor THEN NoMemory(h)
  ELSE InOrderOf(Root(h, page, size), <<1>>, NoMajor, size, req)

malloc(h, page, req) == Begun(h, page, req + ALIGNMENT + ALIGN_INFO, req)

-----------------------------------------------------------------------------
(* free *)

\* The place of the minor at this address.
MajorOf(h, at) == CHOOSE k \in DOMAIN h.maj : \E x \in ToSet(h.maj[k].mins) : x.at = at
MinorAt(m, at) == CHOOSE j \in DOMAIN m.mins : m.mins[j].at = at

\* The major stays the best bet although it was given back.
DropMajor_KeepBet(h, k) ==
  [h EXCEPT !.maj = RemoveAt(@, k), !.allocated = @ - h.maj[k].size]

\* The freed major may be the root and the best bet.
DropMajor(h, k) ==
  [h EXCEPT !.maj = RemoveAt(@, k), !.best = IF @ = h.maj[k].at THEN NoMajor ELSE @,
            !.allocated = @ - h.maj[k].size]

Rated(h, k) ==
  IF h.best # NoMajor /\ FreeBytes(h.maj[k]) > BestSize(h) THEN [h EXCEPT !.best = h.maj[k].at] ELSE h

Freed(h, k) == IF h.maj[k].mins = <<>> THEN DropMajor(h, k) ELSE Rated(h, k)

FreeMinor(h, k, j) ==
  Freed([h EXCEPT !.maj[k].mins = RemoveAt(@, j),
                  !.maj[k].usage = @ - (h.maj[k].mins[j].size + MinorSize),
                  !.inuse = @ - h.maj[k].mins[j].size], k)

FreeIn(h, k, at) == FreeMinor(h, k, MinorAt(h.maj[k], at))
heap_free(h, at) == FreeIn(h, MajorOf(h, at), at)

-----------------------------------------------------------------------------
(* The callers *)

PointerTo(at) == ALIGN(at + MinorSize)
NoteOf(at) == PointerTo(at) - (at + MinorSize)
HeaderOf(p, at) == UNALIGN(p, NoteOf(at)) - MinorSize
All(h) == UNION {ToSet(m.mins) : m \in ToSet(h.maj)}
MinorOf(h, p) == (CHOOSE x \in All(h) : HeaderOf(p, x.at) = x.at).at
Span(x) == [from |-> x.at, to |-> x.at + MinorSize + x.size]
Apart(a, b) == a.to <= b.from \/ b.to <= a.from

\* Freed headers that a minor of the heap, or the end of their major, took.
DeadSpan(at) == [from |-> at, to |-> at + MinorSize + ALIGNMENT + ALIGN_INFO]
StillDead(h, ds) ==
  {d \in ds : /\ \A x \in All(h) : Apart(DeadSpan(d), Span(x))
              /\ \E m \in ToSet(h.maj) : d >= m.at /\ d < m.at + m.size}

Hold(p, req) == [q \in DOMAIN hlive \cup {p} |-> IF q = p THEN req ELSE hlive[q]]
Needless(h, new, need) ==
  (new.at = 0 \/ Len(new.h.maj) > Len(h.maj)) /\ \E m \in ToSet(h.maj) : Suits(m, need)

\* What malloc may return, over the answers of the system.
Mallocs(req) ==
  {malloc(hp, page, req) : page \in liballoc_alloc(hp, PagesFor(req + ALIGNMENT + ALIGN_INFO))}

Kept(new, req) ==
  /\ hp' = new.h
  /\ hdead' = StillDead(new.h, hdead)
  /\ hwaste' = (hwaste \/ Needless(hp, new, req + ALIGNMENT + ALIGN_INFO + MinorSize))

HeapMalloc ==
  /\ Cardinality(DOMAIN hlive) < HeapHolds
  /\ \E req \in HeapSizes : \E new \in Mallocs(req) :
       /\ Kept(new, req)
       /\ hlive' = IF new.at = 0 THEN hlive ELSE Hold(PointerTo(new.at), req)
  /\ UNCHANGED hlost

\* calloc clears what malloc returned without looking at it.
HeapCalloc ==
  /\ Cardinality(DOMAIN hlive) < HeapHolds
  /\ \E req \in HeapSizes : \E new \in Mallocs(req) :
       /\ Kept(new, req)
       /\ hlive' = IF new.at = 0 THEN hlive ELSE Hold(PointerTo(new.at), req)
       /\ hlost' = (new.at = 0 /\ req > 0)

FreeAt(h, at) ==
  /\ hp' = heap_free(h, at)
  /\ hdead' = StillDead(heap_free(h, at), hdead \cup {at})

HeapFree ==
  /\ \E p \in DOMAIN hlive :
       /\ FreeAt(hp, MinorOf(hp, p))
       /\ hlive' = [q \in DOMAIN hlive \ {p} |-> hlive[q]]
  /\ UNCHANGED <<hlost, hwaste>>

\* A second free finds LIBALLOC_DEAD, counts an error and returns.
HeapFreeAgain ==
  /\ hdead # {}
  /\ UNCHANGED <<hp, hlive, hdead, hlost, hwaste>>

Resized(m, at, req) == [m EXCEPT !.mins[MinorAt(m, at)].req = req]
Shrink(at, req) == hp' = [hp EXCEPT !.maj[MajorOf(hp, at)] = Resized(@, at, req)]

ReqOf(at) == (CHOOSE x \in All(hp) : x.at = at).req

\* realloc to no bytes frees; to a smaller size it keeps the minor; to a larger
\* one it copies req_size bytes into a new minor, wherever malloc put that, and
\* frees the old one.
realloc(p, at, req) ==
  IF req = 0
  THEN /\ FreeAt(hp, at)
       /\ hlive' = [q \in DOMAIN hlive \ {p} |-> hlive[q]]
       /\ UNCHANGED <<hlost, hwaste>>
  ELSE IF ReqOf(at) >= req
  THEN /\ Shrink(at, req)
       /\ hlive' = [hlive EXCEPT ![p] = req]
       /\ UNCHANGED <<hdead, hlost, hwaste>>
  ELSE \E new \in Mallocs(req) :
         /\ hp' = heap_free(new.h, at)
         /\ hdead' = StillDead(heap_free(new.h, at), hdead \cup {at})
         /\ hwaste' = (hwaste \/ Needless(hp, new, req + ALIGNMENT + ALIGN_INFO + MinorSize))
         /\ hlost' = (new.at = 0)
         /\ hlive' = IF new.at = 0 THEN hlive
                     ELSE [q \in (DOMAIN hlive \ {p}) \cup {PointerTo(new.at)} |->
                             IF q = PointerTo(new.at) THEN req ELSE hlive[q]]

HeapRealloc ==
  \E p \in DOMAIN hlive, req \in HeapSizes : realloc(p, MinorOf(hp, p), req)

HeapInit ==
  /\ hp = [maj |-> <<>>, best |-> NoMajor, inuse |-> 0, allocated |-> 0]
  /\ hlive = [p \in {} |-> 0]
  /\ hdead = {}
  /\ hcalls = 0
  /\ hlost = FALSE
  /\ hwaste = FALSE

HeapNext ==
  /\ ~hlost
  /\ hcalls < HeapCalls
  /\ hcalls' = hcalls + 1
  /\ HeapMalloc \/ HeapCalloc \/ HeapFree \/ HeapFreeAgain \/ HeapRealloc

-----------------------------------------------------------------------------

SumSizes(m) == FoldLeft(LAMBDA sum, x : sum + x.size + MinorSize, MajorSize, m.mins)

\* The callers' bytes: in one minor of the heap each, behind its header and
\* aligned, so that free finds the header again and no two share a byte.
HoldsApart ==
  /\ Cardinality(All(hp)) = Cardinality(DOMAIN hlive)
  /\ \A p \in DOMAIN hlive : \E x \in All(hp) :
       /\ p = PointerTo(x.at) /\ HeaderOf(p, x.at) = x.at /\ p % ALIGNMENT = 0
       /\ p - ALIGN_INFO >= x.at + MinorSize /\ p + hlive[p] <= Span(x).to
       /\ x.req = hlive[p]

\* The lists: minors in the order of their addresses, apart, inside their major,
\* and every count what the lists say.  No major is empty, the majors lie apart
\* and the best bet is one of them.
MajorsRight ==
  /\ \A m \in ToSet(hp.maj) :
       /\ m.mins # <<>> /\ m.usage = SumSizes(m) /\ m.usage <= m.size
       /\ \A k \in 0 .. Len(m.mins) : Gap(m, k) >= 0
  /\ \A j, k \in DOMAIN hp.maj :
       j # k => Apart([from |-> hp.maj[j].at, to |-> hp.maj[j].at + hp.maj[j].size],
                      [from |-> hp.maj[k].at, to |-> hp.maj[k].at + hp.maj[k].size])
  /\ hp.allocated = FoldLeft(LAMBDA sum, m : sum + m.size, 0, hp.maj)
  /\ hp.inuse = FoldLeft(LAMBDA sum, m : sum + SumSizes(m) - MajorSize - (MinorSize * Len(m.mins)), 0, hp.maj)
  /\ hp.best # NoMajor => \E m \in ToSet(hp.maj) : m.at = hp.best

\* Whatever the order of malloc, calloc, realloc and free, and whenever the
\* system refuses pages: what the callers hold is apart, aligned and found
\* again, the lists and counts agree, no major is asked for while another has
\* room for the request, and nothing is left when everything was freed.
HeapExact ==
  ~hlost => /\ HoldsApart
            /\ MajorsRight
            /\ ~hwaste
            /\ DOMAIN hlive = {} => hp = [maj |-> <<>>, best |-> NoMajor, inuse |-> 0, allocated |-> 0]
=============================================================================
