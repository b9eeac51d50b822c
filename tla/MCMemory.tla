------------------------------- MODULE MCMemory -------------------------------
(* Memory on a small range: every kind of request, some with a guard page.    *)
EXTENDS Memory, TLC

Req(how, count, at, guard, now) ==
    [how |-> how, count |-> count, at |-> at, top |-> FALSE, guard |-> guard,
     grow |-> FALSE, now |-> now]

MCLocal ==
    { Req("sparse", 3, Anywhere, FALSE, TRUE),
      Req("sparse", 1, Anywhere, FALSE, FALSE),
      Req("sparse", 2, FirstPage, FALSE, TRUE),
      [Req("sparse", 1, LastPage, TRUE, FALSE) EXCEPT !.grow = TRUE],
      Req("image", 1, FirstPage + 1, FALSE, FALSE),
      Req("contiguous", 3, Anywhere, TRUE, TRUE),
      Req("map", 1, FirstPage + 2, FALSE, TRUE),
      Req("reserve_sparse", 2, Anywhere, TRUE, TRUE) }

MCGlobal ==
    { Req("sparse", 3, Anywhere, FALSE, TRUE),
      Req("sparse", 1, FirstPage + 2, TRUE, TRUE),
      [Req("contiguous", 2, Anywhere, FALSE, TRUE) EXCEPT !.top = TRUE],
      Req("contiguous", 1, LastPage, FALSE, TRUE),
      Req("map", 1, Anywhere, FALSE, TRUE),
      Req("reserve", 2, FirstPage, FALSE, TRUE) }

\* One range across the boundary of two page tables.
MCStraddling == {Req("sparse", 2, FirstPage + 1, FALSE, TRUE)}

Symmetry == Permutations(Threads)
===============================================================================
