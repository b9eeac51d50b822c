------------------------------ MODULE PmmBoot ------------------------------
(***************************************************************************)
(* How the physical memory manager learns what memory there is             *)
(* (strata/mm/pmm.c): the boot code marks ranges of frames usable and      *)
(* unusable in any order, then StPmm_LateInit sets frames aside for the    *)
(* allocation metadata, counts what is left and closes the map.            *)
(*                                                                         *)
(* A mark that covers a whole table or a whole entry is stored there;      *)
(* only the ends of a range reach per-frame flags.  The static pools of    *)
(* tables and extended entries are taken to last until LateInit.           *)
(***************************************************************************)
EXTENDS Integers, FiniteSets, FiniteSetsExt

CONSTANTS
    EntryPages,     \* frames of an entry (32)
    TableEntries,        \* entries of a table (512), two to a metadata block
    TableCount,         \* slots of alloc_table_ptr_array (4096)
    MaxMarks        \* bound on the ranges the boot code marks

ASSUME BootAssumption ==
    /\ {EntryPages, TableEntries, TableCount} \subseteq Nat \ {0}
    /\ MaxMarks \in Nat
    /\ TableEntries % 2 = 0

VARIABLES
    bootMap,        \* atpa: per slot, entry: per <<slot, entry>>, flag: per frame
    marked,     \* what the last mark of each frame said
    marks,      \* ranges marked so far
    late        \* what LateInit found; status "none" before it ran

bootVars == <<bootMap, marked, marks, late>>

TablePages == TableEntries * EntryPages
Slots == 0 .. TableCount - 1
Cells == Slots \X (0 .. TableEntries - 1)
Frames == 0 .. TableCount * TablePages - 1

SlotFrames(i) == i * TablePages .. (i + 1) * TablePages - 1
CellBase(c) == c[1] * TablePages + c[2] * EntryPages
CellFrames(c) == CellBase(c) .. CellBase(c) + EntryPages - 1
CellOf(f) == <<f \div TablePages, (f % TablePages) \div EntryPages>>

\* The state of a frame: read from the coarsest level that decides it.
StateOf(m, f) ==
    LET i == f \div TablePages IN
    CASE m.atpa[i] # "TABLE" -> m.atpa[i]
      [] m.atpa[i] = "TABLE" /\ m.entry[CellOf(f)] # "EXT" -> m.entry[CellOf(f)]
      [] OTHER -> m.flag[f]

-----------------------------------------------------------------------------
(* Marking a range [base, limit] as FREE or UNUSABLE.                      *)

\* get_or_create_extentry: the flags of a new extended entry say what the
\* entry said.
FlagsOf(m, c) ==
    [f \in CellFrames(c) |-> IF m.entry[c] = "EXT" THEN m.flag[f] ELSE m.entry[c]]

\* get_or_create_table: a new table says of its entries what the slot said.
TablesFor(m, slots) ==
    [m EXCEPT !.entry = [c \in Cells |->
                  IF c[1] \in slots /\ m.atpa[c[1]] # "TABLE" THEN m.atpa[c[1]] ELSE m.entry[c]],
              !.atpa = [i \in Slots |-> IF i \in slots THEN "TABLE" ELSE m.atpa[i]]]

\* Slots, then entries, that lie wholly in the range take the mark; entries
\* that the range enters or leaves get flags.
Mark(m, base, limit, as) ==
    LET range == base .. limit
        whole == {i \in Slots : SlotFrames(i) \subseteq range}
        split == {i \in Slots : SlotFrames(i) \cap range # {}} \ whole
        t == TablesFor(m, split)
        covered == {c \in Cells : c[1] \in split /\ CellFrames(c) \subseteq range}
        cut == {c \in Cells : c[1] \in split /\ CellFrames(c) \cap range # {}} \ covered
    IN  [atpa |-> [i \in Slots |-> IF i \in whole THEN as ELSE t.atpa[i]],
         entry |-> [c \in Cells |->
            CASE c \in covered -> as [] c \in cut -> "EXT" [] OTHER -> t.entry[c]],
         flag |-> [f \in Frames |->
            CASE CellOf(f) \in cut /\ f \in range -> as
              [] CellOf(f) \in cut /\ f \notin range -> FlagsOf(t, CellOf(f))[f]
              [] OTHER -> t.flag[f]]]

-----------------------------------------------------------------------------
(* StPmm_LateInit.                                                         *)

\* A metadata block serves two entries; slots and pairs of entries that are
\* wholly unusable need none.
RequiredBlocks(m) ==
    MapThenSumSet(LAMBDA i :
        CASE m.atpa[i] = "UNUSABLE" -> 0
          [] m.atpa[i] = "FREE" -> TableEntries \div 2
          [] OTHER -> Cardinality({j \in 0 .. TableEntries - 1 : j % 2 = 0 /\
                \/ m.entry[<<i, j>>] # "UNUSABLE"
                \/ m.entry[<<i, j + 1>>] # "UNUSABLE"}), Slots)

\* The runs of entries the downward scan of table i can stop in: from `top',
\* the first free entry after one that is not, down to `j'.
Candidates(m, i, required) ==
    {r \in (0 .. TableEntries - 1) \X (0 .. TableEntries - 1) :
        /\ r[2] <= r[1]
        /\ \A j \in r[2] .. r[1] : m.entry[<<i, j>>] = "FREE"
        /\ r[1] = TableEntries - 1 \/ m.entry[<<i, r[1] + 1>>] # "FREE"
        /\ (r[1] - r[2] + 1) * EntryPages >= required}

Fits(m, i, required) ==
    \/ m.atpa[i] = "FREE"
    \/ m.atpa[i] = "TABLE" /\ Candidates(m, i, required) # {}

\* The area in table i ends one frame below the topmost entry of the run.
AreaInTable(m, i, required) ==
    LET top == Max({r[1] : r \in Candidates(m, i, required)})
        end == CellBase(<<i, top>>) - 1
    IN  [begin |-> end + 1 - required, end |-> end]

\* Without a fit the area begins at frame 0 and ends where the scan last set
\* its end: below the lowest run of free entries of the lowest table with one.
LeftOver(m) ==
    LET tops(i) == {j \in 0 .. TableEntries - 1 :
                       /\ m.entry[<<i, j>>] = "FREE"
                       /\ j = TableEntries - 1 \/ m.entry[<<i, j + 1>>] # "FREE"}
        scanned == {i \in Slots : m.atpa[i] = "TABLE" /\ tops(i) # {}}
        i == Min(scanned)
    IN  [begin |-> 0, end |-> IF scanned = {} THEN 0 ELSE CellBase(<<i, Min(tops(i))>>) - 1]

MetadataArea(m, required) ==
    LET fits == {i \in Slots : Fits(m, i, required)}
        i == Max(fits)
    IN  CASE fits = {} -> LeftOver(m)
          [] fits # {} /\ m.atpa[i] = "FREE" ->
               [begin |-> i * TablePages, end |-> i * TablePages + required]
          [] OTHER -> AreaInTable(m, i, required)

\* Frame numbers are unsigned: a begin below zero is past every limit, and an
\* end below zero is past every frame.
Area(a) ==
    IF a.begin < 0 THEN {}
    ELSE a.begin .. (IF a.end < 0 THEN Max(Frames) ELSE a.end)

MarkArea(m, a) ==
    IF Area(a) = {} THEN m ELSE Mark(m, a.begin, Max(Area(a)), "UNUSABLE")

CountFrames_IgnoresFlags(m) ==
    LET OfCell(c) == IF m.entry[c] = "UNUSABLE" THEN 0 ELSE EntryPages
        OfSlot(i) == CASE m.atpa[i] = "UNUSABLE" -> 0
                       [] m.atpa[i] = "FREE" -> TablePages
                       [] OTHER -> MapThenSumSet(OfCell, {c \in Cells : c[1] = i})
    IN  MapThenSumSet(OfSlot, Slots)

\* total_frames and free_frames, summed level by level.
CountFrames(m) ==
    LET OfCell(c) ==
            CASE m.entry[c] = "UNUSABLE" -> 0
              [] m.entry[c] = "FREE" -> EntryPages
              [] OTHER -> Cardinality({f \in CellFrames(c) : m.flag[f] # "UNUSABLE"})
        OfSlot(i) == CASE m.atpa[i] = "UNUSABLE" -> 0
                       [] m.atpa[i] = "FREE" -> TablePages
                       [] OTHER -> MapThenSumSet(OfCell, {c \in Cells : c[1] = i})
    IN  MapThenSumSet(OfSlot, Slots)

-----------------------------------------------------------------------------
NotYet == [status |-> "none", area |-> {}, total |-> 0]

\* StPmm_Init: everything is unusable.
BootInit ==
    /\ bootMap = [atpa |-> [i \in Slots |-> "UNUSABLE"],
              entry |-> [c \in Cells |-> "UNUSABLE"],
              flag |-> [f \in Frames |-> "UNUSABLE"]]
    /\ marked = [f \in Frames |-> "UNUSABLE"]
    /\ marks = 0
    /\ late = NotYet

MarkRange(base, limit, as) ==
    /\ late.status = "none"
    /\ marks < MaxMarks
    /\ bootMap' = Mark(bootMap, base, limit, as)
    /\ marked' = [f \in Frames |-> IF f \in base .. limit THEN as ELSE marked[f]]
    /\ marks' = marks + 1
    /\ UNCHANGED late

StPmm_MarkUsableContiguousFrame(base, limit) == MarkRange(base, limit, "FREE")
StPmm_MarkUnusableContiguousFrame(base, limit) == MarkRange(base, limit, "UNUSABLE")

\* The boot code gets here with some usable memory.
StPmm_LateInit ==
    LET required == RequiredBlocks(bootMap)
        area == MetadataArea(bootMap, required)
        done == MarkArea(bootMap, area)
    IN  /\ late.status = "none"
        /\ required > 0
        /\ IF required > TablePages
           THEN late' = [NotYet EXCEPT !.status = "too_large"] /\ UNCHANGED bootMap
           ELSE /\ bootMap' = done
                /\ late' = [status |-> "success", area |-> Area(area),
                            total |-> CountFrames(done)]
        /\ UNCHANGED <<marked, marks>>

BootNext ==
    \/ \E base, limit \in Frames : base <= limit /\ StPmm_MarkUsableContiguousFrame(base, limit)
    \/ \E base, limit \in Frames : base <= limit /\ StPmm_MarkUnusableContiguousFrame(base, limit)
    \/ StPmm_LateInit

BootSpec == BootInit /\ [][BootNext]_bootVars

-----------------------------------------------------------------------------
FrameStates == {"FREE", "UNUSABLE"}

BootTypeOK ==
    /\ bootMap.atpa \in [Slots -> FrameStates \cup {"TABLE"}]
    /\ bootMap.entry \in [Cells -> FrameStates \cup {"EXT"}]
    /\ bootMap.flag \in [Frames -> FrameStates]
    /\ marked \in [Frames -> FrameStates]
    /\ marks \in 0 .. MaxMarks
    /\ late.status \in {"none", "success", "too_large"}

\* The last mark of a frame wins, whatever the ranges marked before it split:
\* the three levels agree with the plain map of frames until LateInit takes
\* its area from it.
LastMarkWins ==
    \A f \in Frames :
        StateOf(bootMap, f) = IF f \in late.area THEN "UNUSABLE" ELSE marked[f]

\* The count of managed frames is the number of frames that can be handed out.
TotalExact ==
    late.status = "success" =>
        late.total = Cardinality({f \in Frames : StateOf(bootMap, f) = "FREE"})

\* The map built at boot agrees with the marks, at every level, and its total
\* with the map.
BootExact == BootTypeOK /\ LastMarkWins /\ TotalExact

=============================================================================
