------------------------------- MODULE MCPmm -------------------------------
(* Small instances of Pmm: three ATPA slots of four frames each.           *)
EXTENDS Pmm

\* Entries of two frames, two to a table; a limit inside the first table.
MCBelow == [none |-> [tables |-> 3, entry |-> 2, order |-> 3],
            low |-> [tables |-> 1, entry |-> 1, order |-> 1]]

Ask(count, align, below) == [count |-> count, align |-> align, below |-> below]

\* One request of each kind of search: small, rounded up, normal and huge, and
\* one below the limit.
MCRequests ==
    {Ask(1, 0, "none"), Ask(2, 0, "none"), Ask(3, 0, "none"), Ask(1, 0, "low")}
MCSmallRequests == {Ask(1, 0, "none"), Ask(2, 0, "none")}

\* The hole is in the middle slot: the search for a huge run visits every other
\* slot only, and the last one holds the frames LateInit has taken.
MCHoles == {4}
=============================================================================
