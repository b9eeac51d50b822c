-------------------------- MODULE Reservations_proofs --------------------------
(* Proofs, for any domains and any pages, of what the reservations that       *)
(* mm/vmm.c implements guarantee.                                             *)
EXTENDS Reservations, TLAPS

\* Both properties; neither is inductive without the other, for a step may only
\* grow a range inside its domain.
ResInv == Inside /\ Disjoint

LEMMA InitInv == ResInit => ResInv
BY DEF ResInit, ResInv, Inside, Disjoint

LEMMA TakeKeeps ==
    ASSUME ResInv, NEW d \in Domains, NEW pages, Take(d, pages)
    PROVE  ResInv'
<1>1. \A r \in held[d] : r \cap pages = {}
  BY DEF Take
<1>2. held' \in [Domains -> SUBSET SUBSET UNION {DomainPages[e] : e \in Domains}]
  BY DEF ResInv, Inside, Take
<1>3. \A e \in Domains : held'[e] = IF e = d THEN held[d] \cup {pages} ELSE held[e]
  BY DEF ResInv, Inside, Take
<1>4. \A e \in Domains : \A r \in held'[e] : r \subseteq DomainPages[e]
  BY <1>3 DEF ResInv, Inside, Take
<1>5. \A e \in Domains : \A r, s \in held'[e] : r # s => r \cap s = {}
  BY <1>1, <1>3 DEF ResInv, Disjoint
<1> QED
  BY <1>2, <1>4, <1>5 DEF ResInv, Inside, Disjoint

LEMMA GiveKeeps ==
    ASSUME ResInv, NEW d \in Domains, NEW pages, Give(d, pages)
    PROVE  ResInv'
<1>1. held' \in [Domains -> SUBSET SUBSET UNION {DomainPages[e] : e \in Domains}]
  BY DEF ResInv, Inside, Give
<1>2. \A e \in Domains : held'[e] \subseteq held[e]
  BY DEF ResInv, Inside, Give
<1> QED
  BY <1>1, <1>2 DEF ResInv, Inside, Disjoint

LEMMA GrowKeeps ==
    ASSUME ResInv, NEW d \in Domains, NEW pages, NEW p, Grow(d, pages, p)
    PROVE  ResInv'
<1> DEFINE grown == pages \cup {p}
<1>1. grown \subseteq DomainPages[d]
  BY DEF ResInv, Inside, Grow
<1>2. \A r \in held[d] \ {pages} : r \cap grown = {}
  BY DEF ResInv, Disjoint, Grow
<1>3. held' \in [Domains -> SUBSET SUBSET UNION {DomainPages[e] : e \in Domains}]
  BY <1>1 DEF ResInv, Inside, Grow
<1>4. \A e \in Domains :
        held'[e] = IF e = d THEN (held[d] \ {pages}) \cup {grown} ELSE held[e]
  BY DEF ResInv, Inside, Grow
<1> HIDE DEF grown
<1>5. \A e \in Domains : \A r \in held'[e] : r \subseteq DomainPages[e]
  BY <1>1, <1>4 DEF ResInv, Inside
<1>6. \A e \in Domains : \A r, s \in held'[e] : r # s => r \cap s = {}
  BY <1>2, <1>4 DEF ResInv, Disjoint
<1> QED
  BY <1>3, <1>5, <1>6 DEF ResInv, Inside, Disjoint

LEMMA NextKeeps == ResInv /\ [ResNext]_held => ResInv'
<1> SUFFICES ASSUME ResInv, [ResNext]_held PROVE ResInv'
  OBVIOUS
<1>1. CASE ResNext
  BY <1>1, TakeKeeps, GiveKeeps, GrowKeeps DEF ResNext
<1>2. CASE UNCHANGED held
  BY <1>2 DEF ResInv, Inside, Disjoint
<1> QED
  BY <1>1, <1>2

-------------------------------------------------------------------------------
\* Whatever sequence of reservations, releases and stack growths the callers of
\* mm/vmm.c make, no page of a domain ever belongs to two of them and none lies
\* outside its domain.
THEOREM ReservationsSound == ResSpec => [](Disjoint /\ Inside)
<1>1. ResInv => Disjoint /\ Inside
  BY DEF ResInv
<1> QED
  BY InitInv, NextKeeps, <1>1, PTL DEF ResSpec

===============================================================================
