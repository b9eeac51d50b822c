------------------------------ MODULE Handover ------------------------------
(***************************************************************************)
(* The handover from the loader to the kernel: the loader's frames and     *)
(* page tables (vellum/mm/mm.c, init_pma), loading the kernel and the      *)
(* ramdisk image, the boot information table (load_folios), the move to    *)
(* the kernel's page tables (the trampoline) and what the kernel makes of  *)
(* the table (_pc_init, main).                                             *)
(*                                                                         *)
(* Addresses and sizes are bytes, a frame holds one tag that says what was *)
(* last written to it.  Between the calls of the loader its heap takes and *)
(* returns pages, and a failed load may be tried again.                    *)
(***************************************************************************)
EXTENDS Integers, Sequences, SequencesExt, FiniteSets

CONSTANTS
    HdMaps,        \* memory maps of the BIOS: sequences of [base, size, free]
    HdKernels,     \* kernels: sequences of [paddr, memsz], their PT_LOAD segments
    HdImages,      \* sizes of a ramdisk image
    HdArgvs,       \* argument lists of load_folios, without the kernel's path
    HdHeap,        \* page counts the heap asks for
    HdHeapLimit,   \* pages the heap asks for in all
    HdTryLimit,    \* times load_folios is called
    PageBytes,     \* PAGE_SIZE
    TablePages,    \* pages one page table maps
    LowFrame,      \* the frame at 1 MiB, where the loader itself is
    LoaderFrames,  \* frames of the loader and its frame bitmap
    TrampFrames,   \* frames the trampoline occupies there later
    KernelVpn,     \* the first page of the kernel's load area
    KernelTables   \* page tables of that area the trampoline migrates

ASSUME HandoverLayout ==
    /\ TrampFrames <= LoaderFrames
    /\ TablePages <= KernelVpn

VARIABLES
    hm,       \* the loader's memory manager
    hmem,     \* what each frame holds
    hheap,    \* the regions the heap holds, as pairs of a page and a count
    hload,    \* the load in progress
    hphase,   \* what comes next: "ready", "kernel", "image", "table", "jump", "boot"
    hkern,    \* what the kernel has learnt
    htries

handoverVars == <<hm, hmem, hheap, hload, hphase, hkern, htries>>

HdNone == -1
HdRoundTo(n, k) == k * ((n + k - 1) \div k)
HdPages(n) == (n + PageBytes - 1) \div PageBytes
HdSum(s) == FoldLeft(LAMBDA a, b : a + b, 0, s)
HdLess(x, y) == IF x < y THEN x ELSE y
HdMore(x, y) == IF x > y THEN x ELSE y

-----------------------------------------------------------------------------
(* The loader's frames and pages. *)

mm_pma_mark_reserved(m, lo, hi) ==
    LET hit == HdMore(lo, m.base)..HdLess(hi, m.limit)
        free == {f \in hit : m.state[f] = "free"}
        fresh == {f \in hit : m.state[f] # "reserved"}
    IN  [m EXCEPT !.state = [f \in DOMAIN @ |-> IF f \in hit THEN "reserved" ELSE @[f]],
                  !.free = @ - Cardinality(free), !.available = @ - Cardinality(fresh)]

\* The memory map from 1 MiB on: the span of its free entries, then the
\* loader's own frames and the entries that are not free taken out of it.
HdTop(e) == e.base + e.size - 1
HdAbove(map, free) ==
    SelectSeq(map, LAMBDA e : e.free = free /\ e.size > 0 /\ HdTop(e) >= LowFrame * PageBytes)
mm_pma_init(map) ==
    LET usable == HdAbove(map, TRUE)
        bases == {HdMore(usable[i].base, LowFrame * PageBytes) : i \in DOMAIN usable}
        tops == {HdTop(usable[i]) : i \in DOMAIN usable}
        base == (CHOOSE b \in bases : \A c \in bases : b <= c) \div PageBytes
        limit == (CHOOSE t \in tops : \A c \in tops : t >= c) \div PageBytes
        empty == [base |-> base, limit |-> limit, state |-> [f \in base..limit |-> "free"],
                  free |-> limit - base + 1, available |-> limit - base + 1,
                  map |-> <<>>, tables |-> <<>>, next |-> TablePages]
    IN  mm_pma_mark_reserved(empty, base, LowFrame + LoaderFrames - 1)

init_pma(map) ==
    FoldLeft(LAMBDA m, e : mm_pma_mark_reserved(m, e.base \div PageBytes, HdTop(e) \div PageBytes),
             mm_pma_init(map), HdAbove(map, FALSE))

\* The lowest n free frames in a row, or none.
HdRun(m, n) ==
    LET starts == {f \in m.base..m.limit - n + 1 :
                     \A k \in f..f + n - 1 : m.state[k] = "free"}
    IN  IF starts = {} THEN HdNone ELSE CHOOSE f \in starts : \A g \in starts : f <= g

mm_pma_allocate_frame(m, n) ==
    LET f == HdRun(m, n)
    IN  [ok |-> f # HdNone, pfn |-> f,
         m |-> IF f = HdNone THEN m
               ELSE [m EXCEPT !.state = [k \in DOMAIN @ |->
                                           IF k \in f..f + n - 1 THEN "allocated" ELSE @[k]],
                              !.free = @ - n]]

mm_pma_free_frame(m, f) ==
    IF f \in DOMAIN m.state /\ m.state[f] = "allocated"
    THEN [m EXCEPT !.state[f] = "free", !.free = @ + 1]
    ELSE m

\* map: a page table is added where there is none; the entry is replaced.
HdSet(fn, x, y) == [k \in DOMAIN fn \cup {x} |-> IF k = x THEN y ELSE fn[k]]
map(m, pfn, vpn) ==
    LET pde == vpn \div TablePages
        got == mm_pma_allocate_frame(m, 1)
    IN  IF pde \in DOMAIN m.tables
        THEN [ok |-> TRUE, m |-> [m EXCEPT !.map = HdSet(@, vpn, pfn)]]
        ELSE IF got.ok
        THEN [ok |-> TRUE, m |-> [got.m EXCEPT !.tables = HdSet(@, pde, got.pfn),
                                               !.map = HdSet(@, vpn, pfn)]]
        ELSE [ok |-> FALSE, m |-> m]

\* One page of mm_map and of the two allocating calls, after the pages before it.
MapOne(r, pfn, vpn) == IF r.ok THEN map(r.m, pfn, vpn) ELSE r
mm_map(m, pfn, vpn, n) ==
    FoldLeft(LAMBDA r, i : MapOne(r, pfn + i, vpn + i), [ok |-> TRUE, m |-> m],
             [i \in 1..n |-> i - 1])

BackOne(r, vpn) ==
    LET got == mm_pma_allocate_frame(r.m, 1)
    IN  IF ~r.ok \/ vpn \in DOMAIN r.m.map THEN r
        ELSE IF ~got.ok THEN [ok |-> FALSE, m |-> r.m]
        ELSE map(got.m, got.pfn, vpn)
mm_allocate_pages_to(m, vpn, n) ==
    FoldLeft(BackOne, [ok |-> TRUE, m |-> m], [i \in 1..n |-> vpn + i - 1])

mm_allocate_pages(m, n) == mm_allocate_pages_to([m EXCEPT !.next = @ + n], m.next, n)

FreeOne(m, vpn) ==
    IF vpn \notin DOMAIN m.map THEN m
    ELSE mm_pma_free_frame([m EXCEPT !.map = [v \in DOMAIN @ \ {vpn} |-> @[v]]], m.map[vpn])
mm_free_pages(m, vpn, n) == FoldLeft(FreeOne, m, [i \in 1..n |-> vpn + i - 1])

\* mm_init: the first page table maps the low memory to itself.
mm_init(m) ==
    LET got == mm_pma_allocate_frame(m, 1)
    IN  [ok |-> got.ok, m |-> [got.m EXCEPT !.tables = 0 :> got.pfn,
                                            !.map = [v \in 0..TablePages - 1 |-> v]]]

\* The frames after tag(i) is written to page vpn + i, for i < n.
HdStore(mem, m, vpn, n, tag(_)) ==
    [f \in DOMAIN mem |->
       LET pages == {i \in 0..n - 1 : m.map[vpn + i] = f}
       IN  IF pages = {} THEN mem[f] ELSE tag(CHOOSE i \in pages : \A j \in pages : i >= j)]

-----------------------------------------------------------------------------
(* load_folios. *)

HdIdle == [argv |-> <<>>, base |-> 0, size |-> 0, image |-> 0, vpn |-> 0, extents |-> 0,
           table |-> <<>>]

LoaderStart(smap) ==
    /\ hphase = "off"
    /\ LET r == mm_init(init_pma(smap))
       IN  /\ hm' = [smap |-> smap] @@ r.m
           /\ hphase' = IF r.ok THEN "ready" ELSE "dead"
    /\ hmem' = [f \in 0..hm'.limit |-> "none"]
    /\ UNCHANGED <<hheap, hload, hkern, htries>>

\* liballoc takes n pages, between any two steps of the loader, and fills them.
HeapTake(n) ==
    /\ hphase \in {"ready", "image"}
    /\ hm.next + n <= TablePages + HdHeapLimit
    /\ LET r == mm_allocate_pages(hm, n)
       IN  /\ hm' = r.m
           /\ hheap' = IF r.ok THEN hheap \cup {<<hm.next, n>>} ELSE hheap
           /\ hmem' = IF r.ok THEN HdStore(hmem, r.m, hm.next, n, LAMBDA i : <<"heap", hm.next + i>>)
                      ELSE hmem
    /\ UNCHANGED <<hload, hphase, hkern, htries>>

HeapReturn(r) ==
    /\ hphase \in {"ready", "image"}
    /\ hm' = mm_free_pages(hm, r[1], r[2])
    /\ hheap' = hheap \ {r}
    /\ UNCHANGED <<hmem, hload, hphase, hkern, htries>>

\* The loop over the arguments: -ramdisk takes the next one as its path,
\* -ramdisk= carries it, the others are passed on.
HdParse(argv) ==
    FoldLeft(LAMBDA p, a :
               CASE p.take -> [p EXCEPT !.take = FALSE, !.path = a.value]
                 [] ~p.take /\ a.word = "-ramdisk" -> [p EXCEPT !.take = TRUE]
                 [] ~p.take /\ a.word = "-ramdisk=" -> [p EXCEPT !.path = a.value]
                 [] OTHER -> [p EXCEPT !.passed = Append(@, a)],
             [take |-> FALSE, path |-> "", passed |-> <<>>], argv)

\* load_folios_handler up to Lf_LoadKernel.
load_folios_handler(argv) ==
    /\ hphase = "ready" /\ htries < HdTryLimit
    /\ htries' = htries + 1
    /\ \E p \in {HdParse(argv)} :
         IF ~p.take /\ p.path # ""
         THEN hphase' = "kernel" /\ hload' = [HdIdle EXCEPT !.argv = p.passed]
         ELSE UNCHANGED <<hphase, hload>>
    /\ UNCHANGED <<hm, hmem, hheap, hkern>>

\* The pages a kernel covers: from the lowest segment to the highest.
update_program_load_range(segments) ==
    LET real == {segments[i] : i \in {j \in DOMAIN segments : segments[j].memsz > 0}}
        ends == {HdRoundTo(s.paddr + s.memsz, PageBytes) : s \in real}
        bases == {(s.paddr \div PageBytes) * PageBytes : s \in real}
    IN  IF real = {} THEN <<0, 0>>
        ELSE <<CHOOSE b \in bases : \A c \in bases : b <= c,
               CHOOSE e \in ends : \A c \in ends : e >= c>>

\* Lf_LoadKernel: pages for the whole range, then the segments.
Lf_LoadKernel(segments) ==
    /\ hphase = "kernel" /\ hload.size = 0
    /\ LET range == update_program_load_range(segments)
           n == HdPages(range[2] - range[1])
           vpn == range[1] \div PageBytes
           r == mm_allocate_pages_to(hm, vpn, n)
       IN  IF n > 0 /\ r.ok
           THEN /\ hm' = r.m
                /\ hmem' = HdStore(hmem, r.m, vpn, n, LAMBDA i : <<"kernel", i>>)
                /\ hload' = [hload EXCEPT !.base = range[1], !.size = range[2] - range[1]]
                /\ hphase' = "image"
           ELSE /\ hm' = IF n > 0 THEN r.m ELSE hm
                /\ hphase' = "ready"
                /\ UNCHANGED <<hmem, hload>>
    /\ UNCHANGED <<hheap, hkern, htries>>

\* The number of runs of consecutive frames behind n pages.
count_mapped_frame_extents(m, vpn, n) ==
    Cardinality({i \in 0..n - 1 : i = 0 \/ m.map[vpn + i - 1] + 1 # m.map[vpn + i]})

\* The end of Lf_BuildRamdisk: the image is copied to pages of its own.
Lf_BuildRamdisk(size) ==
    /\ hphase = "image"
    /\ LET n == HdMore(1, HdPages(size))
           r == mm_allocate_pages(hm, n)
       IN  /\ hm' = r.m
           /\ IF r.ok
              THEN /\ hmem' = HdStore(hmem, r.m, hm.next, n, LAMBDA i : <<"ramdisk", i>>)
                   /\ hload' = [hload EXCEPT
                                  !.image = size, !.vpn = hm.next,
                                  !.extents = count_mapped_frame_extents(r.m, hm.next, n)]
                   /\ hphase' = "table"
              ELSE /\ hphase' = "ready"
                   /\ UNCHANGED <<hmem, hload>>
    /\ UNCHANGED <<hheap, hkern, htries>>

-----------------------------------------------------------------------------
(* The boot information table. *)

HdEntryHeader == 16    \* ALIGN(sizeof(struct StLoad_BootInfoEntryHeader), 16)

\* The runs of frames behind n pages, merged as they are met.
HdFrames(m, vpn, n, type) ==
    FoldLeft(LAMBDA es, i :
               LET f == m.map[vpn + i]
                   k == Len(es)
               IN  IF es # <<>> /\ es[k].pfn + es[k].count = f
                   THEN [es EXCEPT ![k].count = @ + 1]
                   ELSE Append(es, [pfn |-> f, count |-> 1, type |-> type]),
             <<>>, [i \in 1..n |-> i - 1])

\* The page directory and the tables, no more than were counted.
fill_pagetable_frame_entries(m, max) ==
    LET pdes == SelectSeq([i \in 1..(KernelVpn \div TablePages) + KernelTables |-> i - 1],
                          LAMBDA i : i \in DOMAIN m.tables)
        all == <<[pfn |-> LowFrame, count |-> 1, type |-> "pagetable"]>>
               \o [k \in DOMAIN pdes |-> [pfn |-> m.tables[pdes[k]], count |-> 1,
                                          type |-> "pagetable"]]
    IN  SubSeq(all, 1, HdLess(max, Len(all)))

fill_bootinfo_frame_entries(m, vpn, n) ==
    [i \in 1..n |-> [pfn |-> m.map[vpn + i - 1], count |-> 1, type |-> "bootinfo"]]

\* The extents of the image: addresses and sizes, merged as they are met.
Lf_FillRamdiskExtents(m, vpn, size) ==
    FoldLeft(LAMBDA es, i :
               LET paddr == m.map[vpn + i] * PageBytes
                   part == HdLess(PageBytes, size - i * PageBytes)
                   k == Len(es)
               IN  IF es # <<>> /\ es[k].paddr + es[k].size = paddr
                   THEN [es EXCEPT ![k].size = @ + part]
                   ELSE Append(es, [paddr |-> paddr, size |-> part]),
             <<>>, [i \in 1..HdPages(size) |-> i - 1])

\* The sizes of the table: header and strings, the eight entries with `frames'
\* unavailable entries.  The names are those of the loader, its version and author.
HdStrings(argv) == HdSum([i \in DOMAIN argv |-> argv[i].len + 1]) + 7 + 6 + 8
HdHeaderSize(argv) == HdRoundTo(16 + HdStrings(argv), 16)
HdPayloads(load, smap, frames) ==
    << <<"args", 4 + 4 * Len(load.argv)>>, <<"loader", 16>>, <<"memory", 4 + 24 * Len(smap)>>,
       <<"rsdp", 8>>, <<"framebuffer", 30>>, <<"unavailable", 4 + 16 * frames>>,
       <<"pagetable", 8>>, <<"ramdisk", 16 + 16 * load.extents>> >>
HdEntries(load, smap, frames) ==
    LET payloads == HdPayloads(load, smap, frames)
    IN  [k \in DOMAIN payloads |-> <<payloads[k][1], HdEntryHeader + HdRoundTo(payloads[k][2], 16)>>]
HdTableSize(load, smap, frames) ==
    HdHeaderSize(load.argv) + HdSum([k \in 1..8 |-> HdEntries(load, smap, frames)[k][2]])


\* The table lists its own frames, so its size is settled by iteration: the
\* pages counted until they are as many as there are entries for them.
HdSettle(load, smap, base) ==
    LET settle[n \in 0..8] ==
            LET needed == HdMore(1, HdPages(HdTableSize(load, smap, base + n)))
            IN  IF needed = n THEN n ELSE settle[needed]
    IN  settle[0]

\* The table as it is filled, over the frames at `pfn', in memory m.
HdTable(load, m, pfn, pages, counts) ==
    LET tables == counts[1]
        kernels == counts[2]
        ramdisks == counts[3]
        total == tables + kernels + ramdisks + pages
        entries == HdEntries(load, m.smap, total)
        Part(i) ==
            LET kernelPart == HdFrames(m, load.base \div PageBytes, HdPages(load.size), "kernel")
                ramdiskPart == HdFrames(m, load.vpn, HdMore(1, HdPages(load.image)), "ramdisk")
                own == fill_bootinfo_frame_entries(m, pfn, pages)
                At(first, es) == i - first \in DOMAIN es
            IN  CASE At(tables + kernels + ramdisks, own) -> own[i - (tables + kernels + ramdisks)]
                  [] At(tables + kernels, ramdiskPart) /\ i <= tables + kernels + ramdisks ->
                       ramdiskPart[i - (tables + kernels)]
                  [] At(tables, kernelPart) /\ i <= tables + kernels -> kernelPart[i - tables]
                  [] OTHER -> fill_pagetable_frame_entries(m, tables)[i]
    IN  [pfn |-> pfn, pages |-> pages, headerSize |-> HdHeaderSize(load.argv),
         size |-> HdTableSize(load, m.smap, total),
         strtab |-> [o \in {HdSum([i \in 1..k - 1 |-> load.argv[i].len + 1]) :
                              k \in DOMAIN load.argv} |->
                       load.argv[CHOOSE k \in DOMAIN load.argv :
                                   HdSum([i \in 1..k - 1 |-> load.argv[i].len + 1]) = o]],
         offsets |-> [k \in DOMAIN load.argv |-> HdSum([i \in 1..k - 1 |-> load.argv[i].len + 1])],
         at |-> [o \in {HdHeaderSize(load.argv) + HdSum([i \in 1..k - 1 |-> entries[i][2]]) :
                          k \in 1..8} |->
                   entries[CHOOSE k \in 1..8 :
                     HdHeaderSize(load.argv) + HdSum([i \in 1..k - 1 |-> entries[i][2]]) = o]],
         unavailable |-> [i \in 1..total |-> Part(i)],
         extents |-> Lf_FillRamdiskExtents(m, load.vpn, load.image), image |-> load.image]

\* Lf_MakeBootInfoTable: counting, the frames of the table and their mapping
\* to themselves, then the entries from what is mapped by now.
Lf_MakeBootInfoTable ==
    /\ hphase = "table"
    /\ \E counts \in {<<1 + Cardinality(DOMAIN hm.tables),
                        count_mapped_frame_extents(hm, hload.base \div PageBytes, HdPages(hload.size)),
                        count_mapped_frame_extents(hm, hload.vpn, HdMore(1, HdPages(hload.image)))>>} :
       \E pages \in {HdSettle(hload, hm.smap, counts[1] + counts[2] + counts[3])} :
       \E got \in {mm_pma_allocate_frame(hm, pages)} :
       \E r \in {IF got.ok THEN mm_map(got.m, got.pfn, got.pfn, pages) ELSE got} :
         /\ hm' = r.m
         /\ IF r.ok
            THEN /\ hload' = [hload EXCEPT !.table = HdTable(hload, r.m, got.pfn, pages, counts)]
                 /\ hmem' = HdStore(hmem, r.m, got.pfn, pages, LAMBDA i : <<"table", i>>)
                 /\ hphase' = "jump"
            ELSE /\ hphase' = "ready"
                 /\ UNCHANGED <<hload, hmem>>
    /\ UNCHANGED <<hheap, hkern, htries>>

-----------------------------------------------------------------------------
(* The kernel. *)

\* Lf_JumpKernel, the kernel's entry and setup_trampoline_page_tables: the
\* trampoline is copied over the loader, maps the low memory to itself and
\* takes over the kernel's mappings.  A kernel or a table outside what it maps
\* is not there any more.
TrampolineRuns ==
    /\ hphase = "jump"
    /\ hmem' = [f \in DOMAIN hmem |-> IF f \in LowFrame..LowFrame + TrampFrames - 1
                                      THEN "trampoline" ELSE hmem[f]]
    /\ hphase' = IF /\ hload.table.pfn + hload.table.pages <= TablePages
                    /\ (hload.base + hload.size) \div PageBytes
                         <= KernelVpn + KernelTables * TablePages
                 THEN "boot" ELSE "dead"
    /\ UNCHANGED <<hm, hheap, hload, hkern, htries>>

\* The walk over the entries of the table: what is found at each step.
HdWalk(t) ==
    LET walk[k \in 0..8, o \in 0..2 * t.size] ==
            IF k = 8 THEN <<>>
            ELSE IF o \notin DOMAIN t.at THEN <<"lost">>
            ELSE <<t.at[o][1]>> \o walk[k + 1, o + t.at[o][2]]
    IN  walk[0, t.headerSize]

\* The frames _pc_init leaves usable: whole frames of free entries, without the
\* frames other entries touch, the listed ones except old page tables, and the
\* trampoline.
HdUsable(t, smap) ==
    LET Whole(e) == (HdRoundTo(e.base, PageBytes) \div PageBytes)
                    ..((e.base + e.size) \div PageBytes) - 1
        Touched(e) == (e.base \div PageBytes)
                      ..(HdRoundTo(e.base + e.size, PageBytes) \div PageBytes) - 1
        Listed(u) == u.pfn..u.pfn + u.count - 1
    IN  (UNION {Whole(smap[i]) : i \in {j \in DOMAIN smap : smap[j].free}}
         \ UNION {Touched(smap[i]) : i \in {j \in DOMAIN smap : ~smap[j].free}})
        \ (UNION {Listed(t.unavailable[i]) : i \in {j \in DOMAIN t.unavailable :
                                                     t.unavailable[j].type # "pagetable"}}
           \cup LowFrame..LowFrame + TrampFrames - 1)

\* StBootArgs_HasFlag and StBootArgs_GetOptionValue over the string table.
HdArg(t, k) == t.strtab[t.offsets[k]]
StBootArgs_HasFlag(t, name) == \E k \in DOMAIN t.offsets : HdArg(t, k).word = name
StBootArgs_GetOptionValue(t, name) ==
    LET hits == {k \in DOMAIN t.offsets : HdArg(t, k).word \in {name, name \o "="}}
        k == CHOOSE i \in hits : \A j \in hits : i <= j
    IN  IF hits = {} THEN "default"
        ELSE IF HdArg(t, k).word # name
        THEN HdArg(t, k).value
        ELSE IF k = Len(t.offsets) THEN "invalid" ELSE HdArg(t, k + 1).value

\* _pc_init: the table is parsed, usable frames are marked, the table is copied
\* and the low mapping dropped.
KernelInit ==
    /\ hphase = "boot"
    /\ \E found \in {HdWalk(hload.table)} :
         /\ hkern' = [entries |-> found, usable |-> HdUsable(hload.table, hm.smap),
                      verbose |-> StBootArgs_HasFlag(hload.table, "-v"),
                      sysman |-> "unread", ramdisk |-> <<>>]
         /\ hphase' = IF {"memory", "unavailable", "pagetable"} \subseteq Range(found)
                      THEN "up" ELSE "dead"
    /\ UNCHANGED <<hm, hmem, hheap, hload, htries>>

\* What the kernel copies from the extents: the tags of the pages, in order, or
\* the error.
materialize_boot_ramdisk(t) ==
    LET sizes == HdSum([i \in DOMAIN t.extents |-> t.extents[i].size])
    IN  IF t.image = 0 \/ t.extents = <<>> THEN <<"ENTRY_NOT_FOUND">>
        ELSE IF sizes # t.image THEN <<"INVALID_FORMAT">>
        ELSE FlattenSeq([i \in DOMAIN t.extents |->
               [k \in 1..HdPages(t.extents[i].size) |->
                  hmem[(t.extents[i].paddr \div PageBytes) + k - 1]]])

\* main up to the threads: the path of the system manager and the ramdisk.
KernelMain ==
    /\ hphase = "up" /\ hkern.sysman = "unread"
    /\ \E path \in {StBootArgs_GetOptionValue(hload.table, "-sysman")} :
         /\ hkern' = [hkern EXCEPT !.sysman = path,
                                   !.ramdisk = materialize_boot_ramdisk(hload.table)]
         /\ hphase' = IF path = "invalid" THEN "dead" ELSE "up"
    /\ UNCHANGED <<hm, hmem, hheap, hload, htries>>

-----------------------------------------------------------------------------
HandoverInit ==
    /\ hm = <<>> /\ hmem = <<>> /\ hheap = {} /\ hload = HdIdle
    /\ hphase = "off" /\ hkern = [usable |-> {}] /\ htries = 0

HandoverNext ==
    \/ \E smap \in HdMaps : LoaderStart(smap)
    \/ \E n \in HdHeap : HeapTake(n)
    \/ \E r \in hheap : HeapReturn(r)
    \/ \E argv \in HdArgvs : load_folios_handler(argv)
    \/ \E k \in HdKernels : Lf_LoadKernel(k)
    \/ \E size \in HdImages : Lf_BuildRamdisk(size)
    \/ Lf_MakeBootInfoTable
    \/ TrampolineRuns \/ KernelInit \/ KernelMain

-----------------------------------------------------------------------------
\* The frames whose content the kernel still needs.
HdKept ==
    {f \in DOMAIN hmem :
       CASE hmem[f] = "none" -> FALSE
         [] hmem[f] = "trampoline" -> TRUE
         [] OTHER -> hmem[f][1] # "heap"}

=============================================================================
