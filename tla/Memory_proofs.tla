--------------------------- MODULE Memory_proofs ----------------------------
(***************************************************************************)
(* What is proved of module Memory, from the invariants that Memory_steps  *)
(* and Memory_mapped show its actions to keep.                             *)
(***************************************************************************)
EXTENDS Memory_steps, Memory_mapped, FiniteSetTheorems, NaturalsInduction

\* A nonempty set of integers with a lower bound has a least element.
LEMMA LeastExists ==
  ASSUME NEW S \in SUBSET Int, S # {}, NEW lo \in Int, \A x \in S : lo <= x
  PROVE  \E m \in S : \A y \in S : m <= y
<1> DEFINE T == {n \in Nat : lo + n \in S}
<1>1. T \in SUBSET Nat
  OBVIOUS
<1>2. T # {}
  <2>1. PICK x \in S : TRUE
    BY ZenonT(60)
  <2>2. x - lo \in Nat /\ lo + (x - lo) = x
    OBVIOUS
  <2> QED BY ZenonT(60), <2>2
<1>3. PICK k \in T : \A j \in T : <<j, k>> \notin OpToRel(<, Nat)
  <2> HIDE DEF T
  <2> QED BY ZenonT(60), <1>1, <1>2, NatLessThanWellFounded, WFMin
<1>4. \A j \in T : ~ (j < k)
  BY ZenonT(60), <1>1, <1>3 DEF OpToRel
<1>5. \A y \in S : lo + k <= y
  <2> SUFFICES ASSUME NEW y \in S PROVE lo + k <= y
    OBVIOUS
  <2>1. y - lo \in Nat /\ lo + (y - lo) = y
    BY SMTT(30), SMTT(45), SMTT(60)
  <2>2. y - lo \in T
    BY ZenonT(60), <2>1
  <2>3. ~ (y - lo < k)
    BY ZenonT(60), <2>2, <1>4
  <2> QED BY SMTT(30), SMTT(45), SMTT(60), <2>3
<1> QED BY <1>5

\* A range that is taken out of a set of pages, or added to it, counts fully.
LEMMA SpanSize ==
  ASSUME NEW S, S \subseteq Pages, NEW b \in Int, NEW n \in Nat,
         Span(b, n) \subseteq Pages, S \cap Span(b, n) = {}
  PROVE  Cardinality(S \cup Span(b, n)) = Cardinality(S) + n
<1>1. IsFiniteSet(Pages)
  BY SMTT(30), SMTT(45), SMTT(60), FS_Interval, MemoryAssumption DEF Pages
<1>2. IsFiniteSet(S)
  BY ZenonT(60), <1>1, FS_Subset
<1>3. IsFiniteSet(Span(b, n)) /\ Cardinality(Span(b, n)) = n
  <2>1. b + n - 1 \in Int
    OBVIOUS
  <2>2. IsFiniteSet(b..(b + n - 1)) /\
        Cardinality(b..(b + n - 1)) = IF b > b + n - 1 THEN 0 ELSE (b + n - 1) - b + 1
    BY ZenonT(60), <2>1, FS_Interval
  <2> QED BY SMTT(30), SMTT(45), SMTT(60), <2>2 DEF Span
<1>4. Cardinality(S \cap Span(b, n)) = 0
  BY FS_EmptySet
<1>5. Cardinality(S) \in Nat
  BY ZenonT(60), <1>2, FS_CardinalityType
<1>6. Cardinality(S \cup Span(b, n)) =
      Cardinality(S) + Cardinality(Span(b, n)) - Cardinality(S \cap Span(b, n))
  BY ZenonT(60), <1>2, <1>3, FS_Union
<1> QED BY SMTT(30), SMTT(45), SMTT(60), <1>3, <1>4, <1>5, <1>6

\* No set of pages is larger than the domain.
LEMMA SizeBound ==
  ASSUME NEW S, S \subseteq Pages
  PROVE  /\ Cardinality(S) \in Nat /\ Cardinality(Pages) \in Nat
         /\ Cardinality(S) <= Cardinality(Pages)
<1>1. IsFiniteSet(Pages)
  BY SMTT(30), SMTT(45), SMTT(60), FS_Interval, MemoryAssumption DEF Pages
<1> QED BY ZenonT(60), <1>1, FS_Subset, FS_CardinalityType

\* The facts the lemmas of Memory_steps and Memory_mapped start from.
LEMMA CountingHolds == Counting
<1>1. \A S \in SUBSET Int, lo \in Int : S # {} /\ (\A x \in S : lo <= x) =>
        \E m \in S : \A y \in S : m <= y
  BY Zenon, LeastExists
<1>2. \A S \in SUBSET Pages, b \in Int, n \in Nat :
        Span(b, n) \subseteq Pages /\ S \cap Span(b, n) = {} =>
          Cardinality(S \cup Span(b, n)) = Cardinality(S) + n
  BY ZenonT(60), SpanSize
<1>3. \A S \in SUBSET Pages : /\ Cardinality(S) \in Nat /\ Cardinality(Pages) \in Nat
                              /\ Cardinality(S) <= Cardinality(Pages)
  BY ZenonT(60), SizeBound
<1>4. Cardinality({}) = 0
  BY ZenonT(60), FS_EmptySet
<1> QED BY Zenon, <1>1, <1>2, <1>3, <1>4 DEF Counting

\* The reservations of a domain never overlap, each keeps a usable page, and
\* the domain's free counter is what they leave: for every size of the domain,
\* of its tables and of physical memory, every number of threads and slots, and
\* any requests.
THEOREM RangesSound == Spec => []RangesExact
<1>1. Init => MemInv
  BY ZenonT(60), CountingHolds, InitMemInv
<1>2. MemInv /\ [Next]_vars => MemInv'
  BY ZenonT(60), CountingHolds, NextMemInv
<1>3. MemInv => RangesExact
  BY ZenonT(60), CountingHolds, MemInvRanges
<1> QED BY ZenonT(60), <1>1, <1>2, <1>3, PTL DEF Spec

\* The range a call is about to give back is found by StVmm_Release*Page, and
\* is the one the call works on, unless a protection change dropped the guard
\* flag of a stack that had grown.
THEOREM ReleaseIsFound == Spec => []ReleaseFinds
<1>1. Init => MemInv
  BY CountingHolds, InitMemInv
<1>2. MemInv /\ [Next]_vars => MemInv'
  BY CountingHolds, NextMemInv
<1>3. MemInv => ReleaseFinds
  BY ZenonT(60), MemInvRelease
<1> QED BY <1>1, <1>2, <1>3, PTL DEF Spec

\* Where one page table covers the range, a page is mapped, or marked for demand
\* paging, only while it is a usable page of a live reservation, whatever calls
\* the threads interleave: never a guard page, never a page given back.  The
\* assumption is needed: under two tables a map that fails at the second leaves
\* the entries of the first behind (StMmP_Map*ContiguousMemory).
THEOREM MappedSound ==
  ASSUME OneTable
  PROVE  Spec => []MappedInside
<1>1. Init => MemInv /\ MapInv
  BY ZenonT(60), CountingHolds, InitMemInv, InitMapInv
<1>2. MemInv /\ MapInv /\ [Next]_vars => (MemInv /\ MapInv)'
  BY ZenonT(60), CountingHolds, NextMemInv, NextMapInv
<1>3. MapInv => MappedInside
  BY DEF MapInv
<1> QED BY ZenonT(60), <1>1, <1>2, <1>3, PTL DEF Spec

=============================================================================
