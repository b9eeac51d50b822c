----------------------------- MODULE Reservations -----------------------------
(* What mm/vmm.c promises of a range of virtual pages, whatever structure it  *)
(* keeps it in: every page of a domain belongs to at most one reservation, a  *)
(* reservation is taken and given back whole, and it may only grow by a page  *)
(* that nobody holds.                                                         *)

CONSTANTS Domains, DomainPages

VARIABLE held    \* held[d]: the sets of pages reserved in domain d

ResInit == held = [d \in Domains |-> {}]

Take(d, pages) ==
    /\ pages # {} /\ pages \subseteq DomainPages[d]
    /\ pages \cap UNION held[d] = {}
    /\ held' = [held EXCEPT ![d] = @ \cup {pages}]

Give(d, pages) ==
    /\ pages \in held[d]
    /\ held' = [held EXCEPT ![d] = @ \ {pages}]

Grow(d, pages, p) ==
    /\ pages \in held[d]
    /\ p \in DomainPages[d] \ UNION held[d]
    /\ held' = [held EXCEPT ![d] = (@ \ {pages}) \cup {pages \cup {p}}]

\* Of the pages that may be taken, the ones the step takes are those that
\* held' shows.
ResNext ==
    \E d \in Domains :
        \/ \E pages \in held'[d] \ held[d] : Take(d, pages)
        \/ \E pages \in held[d] \ held'[d] :
              \/ Give(d, pages)
              \/ \E p \in DomainPages[d] \ UNION held[d] : Grow(d, pages, p)

ResSpec == ResInit /\ [][ResNext]_held

-------------------------------------------------------------------------------
\* Two reservations of a domain of mm/vmm.c share no page.
Disjoint ==
    \A d \in Domains : \A r, s \in held[d] : r # s => r \cap s = {}

\* No reservation reaches beyond the range its domain was initialised with.
Inside ==
    held \in [Domains -> SUBSET SUBSET UNION {DomainPages[d] : d \in Domains}]
    /\ \A d \in Domains : \A r \in held[d] : r \subseteq DomainPages[d]

===============================================================================
