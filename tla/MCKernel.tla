------------------------------- MODULE MCKernel -------------------------------
(* The parts of the kernel that are structures behind one lock or run by one  *)
(* thread, in one run: `part' says which of them the behaviour is about, the  *)
(* others rest in their initial state.                                        *)
EXTENDS Vmm, BuddyBitmap, PmmBoot, Gnt, Pool, Context, TLC

VARIABLE part

parts == <<vmmVars, buddyVars, bootVars, gntVars, poolVars, ctxVars>>

-------------------------------------------------------------------------------
\* Vmm: a user range of four pages and a kernel domain of three, whose second
\* page is mapped from the start; three nodes, two of them in a slab.
MCBase == [d \in VmmDomains |-> 1]
MCLimit == [d \in VmmDomains |-> IF d = Local THEN 4 ELSE 3]
MCPremapped == [d \in VmmDomains |-> IF d = Local THEN {} ELSE {2}]
Ask(d, at, count, guard, grow) ==
    [d |-> d, at |-> at, count |-> count, guard |-> guard, grow |-> grow]
MCVmmRequests ==
    {Ask(Local, Up, 2, 0, FALSE), Ask(Local, Down, 1, 0, FALSE), Ask(Local, 3, 1, 1, TRUE)}
    \cup {Ask(d, at, 1, 0, FALSE) : d \in VmmDomains \ {Local}, at \in {Down, 1}}

-------------------------------------------------------------------------------
\* Gnt: the first process opens itself and, on a roundabout way, its main thread;
\* 17 is past the largest int and would wrap to its id.
MCPaths(pid) ==
    LET Below(rest) == <<<<"System">>, <<"Processes">>>> \o rest
    IN  {[root |-> Root, tokens |-> Below(<<<<"1", "7">>>>)]} \cup
        (IF pid # 1 THEN {} ELSE
         {[root |-> Root, tokens |-> Below(<<<<"Current">>>>)],
          [root |-> Net, tokens |-> <<<<"Localhost">>>> \o
              Below(<<<<"Current">>, <<"..">>, <<"0", "1">>, <<"Threads">>, <<".">>, <<"Main">>>>)]})

-------------------------------------------------------------------------------
\* Pool: three subpools of one object each beside large blocks; two threads that
\* share a class of two objects, or that have a class each.
CONSTANTS ta, tb
MCLoads ==
    LET Wants(size, align) == [size |-> size, align |-> align]
        Load(x, y, n, s) == [asks |-> (ta :> x) @@ (tb :> y), blocks |-> n, subpools |-> s]
    IN  {Load({Wants(7, 2)}, {Wants(9, 0), Wants(17, 0)}, 3, 3),
         Load({Wants(5, 0)}, {Wants(5, 0)}, 3, 2), Load({Wants(5, 0)}, {Wants(7, 0)}, 2, 2)}

-------------------------------------------------------------------------------
\* Context: a kernel thread and two user threads besides the boot thread, two
\* kernel stacks of which one may be cached.  A machine whose threads set their
\* bases, and an old and a recent one with faults.
CONSTANTS sci
MCLoad(new, n, regs, fpu, bases, locks, handlers, faults) ==
    [xsave |-> new, apic |-> new, creates |-> n, regs |-> regs, fpu |-> fpu, bases |-> bases,
     locks |-> locks, handlers |-> handlers, faults |-> faults]
MCCtxLoads == {MCLoad(TRUE, 2, 0, 0, 2, 0, 0, 0), MCLoad(FALSE, 2, 0, 1, 0, 1, 0, 1),
               MCLoad(TRUE, 3, 0, 2, 0, 0, 0, 1), MCLoad(FALSE, 2, 2, 0, 0, 0, 1, 0)}

-------------------------------------------------------------------------------
KernelInit ==
    /\ part \in {"vmm", "buddy", "boot", "gnt", "pool", "context"}
    /\ VmmInit /\ BuddyInit /\ BootInit /\ GntInit /\ PoolInit
    /\ CtxInit
    /\ part # "pool" => load = CHOOSE l \in Loads : TRUE
    /\ part # "context" => machine = CHOOSE x \in CtxLoads : TRUE

KernelNext ==
    /\ UNCHANGED part
    /\ \/ part = "vmm" /\ VmmNext
          /\ UNCHANGED <<buddyVars, bootVars, gntVars, poolVars, ctxVars>>
       \/ part = "buddy" /\ BuddyNext
          /\ UNCHANGED <<vmmVars, bootVars, gntVars, poolVars, ctxVars>>
       \/ part = "boot" /\ BootNext
          /\ UNCHANGED <<vmmVars, buddyVars, gntVars, poolVars, ctxVars>>
       \/ part = "gnt" /\ GntNext
          /\ UNCHANGED <<vmmVars, buddyVars, bootVars, poolVars, ctxVars>>
       \/ part = "pool" /\ PoolNext
          /\ UNCHANGED <<vmmVars, buddyVars, bootVars, gntVars, ctxVars>>
       \/ part = "context" /\ CtxNext
          /\ UNCHANGED <<vmmVars, buddyVars, bootVars, gntVars, poolVars>>

KernelSpec == KernelInit /\ [][KernelNext]_<<part, parts>>
===============================================================================
