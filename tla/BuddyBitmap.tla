---------------------------- MODULE BuddyBitmap ----------------------------
(***************************************************************************)
(* The buddy bitmap of one allocation table entry (strata/mm/pmm.c): one   *)
(* bit for every aligned block of 2^0 .. 2^TopOrder pages of the entry, in *)
(* one word.  A bit is set when some page of its block is in use.  The     *)
(* word is the set of the positions of its set bits.                       *)
(***************************************************************************)
EXTENDS Integers, FiniteSets, FiniteSetsExt

CONSTANT TopOrder       \* the entry covers 2^TopOrder pages (5)

ASSUME TopOrderAssumption == TopOrder \in Nat

VARIABLES
    entry,      \* the positions of the bits that are set
    runs        \* the runs handed out: <<first page, order>>

buddyVars == <<entry, runs>>

BuddyOrders == 0 .. TopOrder
EntryFrames == 0 .. 2^TopOrder - 1

\* ALLOCENT_BMP_<n>P_POS: 0, 32, 48, 56, 60, 62 when TopOrder is 5.
Pos(order) == 2^(TopOrder + 1) - 2^(TopOrder + 1 - order)

\* The bit of the block of this order that holds the page, and the bits of all
\* blocks of the order: ALLOCENT_BMP_<n>P_MASK.
BitOf(page, order) == Pos(order) + page \div 2^order
LevelMask(order) == {BitOf(page, order) : page \in EntryFrames}

Run(page, order) == page .. page + 2^order - 1

\* alloc_masks[]: the bit of a block and of every block inside it.
alloc_masks(page, order) ==
    {BitOf(p, o) : p \in Run((page \div 2^order) * 2^order, order), o \in 0 .. order}

Sibling(bit, order) ==
    LET k == bit - Pos(order) IN Pos(order) + (IF k % 2 = 0 THEN k + 1 ELSE k - 1)

ClearedParents_NoBreak(bits, page, order) ==
    {BitOf(page, o + 1) : o \in
        {l \in order .. TopOrder - 1 : Sibling(BitOf(page, l), l) \notin bits}}

\* Going up from the freed block, the parents are cleared as far as the
\* sibling on the way is clear.
ClearedParents(bits, page, order) ==
    {BitOf(page, o + 1) : o \in
        {n \in order .. TopOrder - 1 :
            \A l \in order .. n : Sibling(BitOf(page, l), l) \notin bits}}

propagate_up(bits, page, order, set) ==
    IF set THEN bits \cup {BitOf(page, o) : o \in order + 1 .. TopOrder}
    ELSE bits \ ClearedParents(bits, page, order)

\* The first clear bit of the level, as a page index.
find_free_frame_idx_bitmap_entry(bits, align) ==
    LET inverted == LevelMask(align) \ bits
    IN  IF align > TopOrder \/ inverted = {} THEN -1
        ELSE (Min(inverted) - Pos(align)) * 2^align

allocate_from_bitmap_entry(bits, page, order) ==
    propagate_up(bits \cup alloc_masks(page, order), page, order, TRUE)

free_to_bitmap_entry(bits, page, order) ==
    propagate_up(bits \ alloc_masks(page, order), page, order, FALSE)

-----------------------------------------------------------------------------
BuddyInit == entry = {} /\ runs = {}

\* A run of 2^order pages is placed on a boundary of 2^align pages.
BitmapAllocate(order, align) ==
    LET page == find_free_frame_idx_bitmap_entry(entry, align)
    IN  /\ page >= 0
        /\ entry' = allocate_from_bitmap_entry(entry, page, order)
        /\ runs' = runs \cup {<<page, order>>}

BitmapFree(run) ==
    /\ entry' = free_to_bitmap_entry(entry, run[1], run[2])
    /\ runs' = runs \ {run}

BuddyNext ==
    \/ \E order \in BuddyOrders : \E align \in order .. TopOrder : BitmapAllocate(order, align)
    \/ \E run \in runs : BitmapFree(run)

BuddySpec == BuddyInit /\ [][BuddyNext]_buddyVars

-----------------------------------------------------------------------------
UsedFrames == UNION {Run(r[1], r[2]) : r \in runs}

\* The word says of every block, of every order, whether a page of it is used:
\* after any allocations and releases the bits kept by propagate_up are the
\* ones a scan of the pages would compute.
BitsMirrorPages ==
    entry = {BitOf(p, o) : p \in UsedFrames, o \in BuddyOrders}

\* The search returns the lowest aligned block without a used page, and fails
\* only when there is none.
FindsLowestFree ==
    \A align \in BuddyOrders :
        LET free == {p \in EntryFrames : p % 2^align = 0 /\ Run(p, align) \cap UsedFrames = {}}
        IN  find_free_frame_idx_bitmap_entry(entry, align) = IF free = {} THEN -1 ELSE Min(free)

\* The word mirrors the pages and the search of it finds what it should.
BuddyExact == BitsMirrorPages /\ FindsLowestFree

=============================================================================
