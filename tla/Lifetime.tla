------------------------------ MODULE Lifetime ------------------------------
(***************************************************************************)
(* Reference counting and deferred reap of threads and user processes      *)
(* (strata/thread/thread.c, strata/process/process.c, ref_control.h): who  *)
(* holds a strong reference, when the last one is dropped, and what is     *)
(* then freed by whom.                                                     *)
(*                                                                         *)
(* Every context that runs this code (the creator of each thread, the idle *)
(* loop of the main thread, scheduler maintenance) has a stack `todo` of   *)
(* the operations it still has to do; a step takes the first one, changes  *)
(* the objects and pushes the calls the operation makes.  A section with   *)
(* preemption locked is one step; between two steps another context may    *)
(* run, unless `holder` keeps preemption locked.                           *)
(*                                                                         *)
(* A user process and its main thread share one name: process u is the one *)
(* thread u was created for.                                               *)
(***************************************************************************)
EXTENDS Integers, Sequences, FiniteSets, FiniteSetsExt

CONSTANTS
    Users,          \* user processes, each with its main thread
    Kernels,        \* kernel threads
    None,           \* no thread, no context
    KStackPages,    \* STRATA_KSTACK_PAGE_COUNT
    UStackPages,    \* STRATA_USTACK_PAGE_COUNT
    OwnerPages,     \* what page_usage_count of an allocation owner may be
    MaxPending,     \* THREAD_DEFERRED_REAP_MAX_PENDING_PAGES
    Budget          \* page budget of StThread_RunDeferredReap

ASSUME LifetimeAssumption ==
    /\ Users \cap Kernels = {} /\ None \notin Users \cup Kernels
    /\ KStackPages \in Nat \ {0} /\ UStackPages \in Nat \ {0}
    /\ OwnerPages \subseteq Nat /\ MaxPending \in Nat /\ Budget \in Nat \ {0}

Threads == Users \cup Kernels
Idle == "idle"
Maintenance == "maintenance"
Contexts == Threads \cup {Idle, Maintenance}    \* the creator of th is context th

VARIABLES
    thr,        \* what struct StThread holds that decides its lifetime
    prc,        \* the same for struct StProcess
    reapThreads,    \* deferred_thread_reap_head ..
    reapProcesses,  \* deferred_process_reap_head ..
    pending,    \* deferred_reap_pending_pages
    todo,       \* what each context still has to do, next first
    holder,     \* the context that keeps preemption locked, or None
    current     \* the finished thread still running on its stack, or None

objects == <<thr, prc, reapThreads, reapProcesses, pending>>
vars == <<thr, prc, reapThreads, reapProcesses, pending, todo, holder, current>>

\* `memory` is the object itself: absent before creation, freed after it.
NoThread == [memory |-> "absent", refs |-> 0, state |-> "pending", detached |-> FALSE,
             dying |-> FALSE, queued |-> FALSE, pages |-> 0, runqueue |-> FALSE,
             stacks |-> FALSE, process |-> FALSE]
NoProcess == [memory |-> "absent", refs |-> 0, dying |-> FALSE, queued |-> FALSE,
              pages |-> 0, listed |-> FALSE, main |-> FALSE, space |-> FALSE]

Op(name, obj, n) == [op |-> name, obj |-> obj, n |-> n]
Do(name, obj) == Op(name, obj, 0)
Relieve(reserved) == Op("relieve", None, reserved)
RunDeferredReap(budget) == Op("reap", None, budget)

\* Context c is about to do operation `name`, and may run.
At(c, name) ==
    /\ todo[c] # <<>> /\ Head(todo[c]).op = name
    /\ holder \in {None, c}
    /\ current = None \/ c = Maintenance

Obj(c) == Head(todo[c]).obj
Arg(c) == Head(todo[c]).n

\* The operation makes `calls` before the context goes on.
Then(c, calls) == todo' = [todo EXCEPT ![c] = calls \o Tail(@)]

-----------------------------------------------------------------------------
(* What callers do with a new thread (init/main.c).                        *)

UserPrograms(u) ==
    LET create == <<RunDeferredReap(Budget), Do("createUser", u),
                    Relieve(KStackPages + UStackPages), Do("createUserMain", u)>>
    IN  {create \o <<Do("detach", u), Do("releaseProcess", u)>>,
         create \o <<Do("releaseProcess", u), Do("wait", u), Do("remove", u)>>}

KernelPrograms(k) ==
    {<<Relieve(KStackPages), Do("createKernel", k), Do("detach", k)>>,
     <<Relieve(KStackPages), Do("createKernel", k), Do("wait", k), Do("remove", k)>>,
     <<Relieve(KStackPages), Do("createDetached", k)>>}

Programs(c) ==
    IF c \in Users THEN UserPrograms(c)
    ELSE IF c \in Kernels THEN KernelPrograms(c) ELSE {<<>>}

Init ==
    /\ thr = [t \in Threads |-> NoThread]
    /\ prc = [u \in Users |-> NoProcess]
    /\ reapThreads = <<>> /\ reapProcesses = <<>> /\ pending = 0
    /\ todo \in {f \in [Contexts -> UNION {Programs(c) : c \in Contexts}] :
                    \A c \in Contexts : f[c] \in Programs(c)}
    /\ holder = None /\ current = None

-----------------------------------------------------------------------------
(* Creation.                                                               *)

CreateUser(c) ==
    /\ At(c, "createUser")
    /\ prc' = [prc EXCEPT ![Obj(c)] =
                 [NoProcess EXCEPT !.memory = "live", !.refs = 1, !.listed = TRUE, !.space = TRUE]]
    /\ Then(c, <<>>)
    /\ UNCHANGED <<thr, reapThreads, reapProcesses, pending, holder, current>>

NewThread(refs, detached) ==
    [NoThread EXCEPT !.memory = "live", !.refs = refs, !.detached = detached,
                     !.runqueue = TRUE, !.stacks = TRUE]

\* One reference for the system, one for the creator's join slot.
CreateUserMain(c) ==
    /\ At(c, "createUserMain")
    /\ ~prc[Obj(c)].main
    /\ thr' = [thr EXCEPT ![Obj(c)] = [NewThread(2, FALSE) EXCEPT !.process = TRUE]]
    /\ prc' = [prc EXCEPT ![Obj(c)].refs = @ + 1, ![Obj(c)].main = TRUE]
    /\ Then(c, <<>>)
    /\ UNCHANGED <<reapThreads, reapProcesses, pending, holder, current>>

CreateKernel(c) ==
    /\ At(c, "createKernel") \/ At(c, "createDetached")
    /\ LET detached == Head(todo[c]).op = "createDetached"
       IN  thr' = [thr EXCEPT ![Obj(c)] = NewThread(IF detached THEN 1 ELSE 2, detached)]
    /\ Then(c, <<>>)
    /\ UNCHANGED <<prc, reapThreads, reapProcesses, pending, holder, current>>

\* No memory: nothing is left behind, and the caller logs and gives up.
CreateKernelFails(c) ==
    /\ At(c, "createKernel") \/ At(c, "createDetached")
    /\ todo' = [todo EXCEPT ![c] = <<>>]
    /\ UNCHANGED <<objects, holder, current>>

-----------------------------------------------------------------------------
(* Dropping references.                                                    *)

ReleaseThread_FreesFirst(c) ==
    /\ At(c, "releaseThread")
    /\ LET t == Obj(c)
       IN  /\ thr' = [thr EXCEPT ![t].refs = @ - 1]
           /\ Then(c, IF thr[t].refs # 1 THEN <<>>
                      ELSE <<Do("freeThread", t), Do("freeStacks", t)>>)
    /\ UNCHANGED <<prc, reapThreads, reapProcesses, pending, holder, current>>

ReleaseThread_OneLate(c) ==
    /\ At(c, "releaseThread")
    /\ LET t == Obj(c)
       IN  /\ thr' = [thr EXCEPT ![t].refs = @ - 1]
           /\ Then(c, IF thr[t].refs # 0 THEN <<>>
                      ELSE <<Do("freeStacks", t), Do("freeThread", t)>>)
    /\ UNCHANGED <<prc, reapThreads, reapProcesses, pending, holder, current>>

\* release_thread, and what finalize_thread_storage does after the last one.
ReleaseThread(c) ==
    /\ At(c, "releaseThread")
    /\ LET t == Obj(c)
       IN  /\ thr' = [thr EXCEPT ![t].refs = @ - 1]
           /\ Then(c, IF thr[t].refs # 1 THEN <<>>
                      ELSE <<Do("freeStacks", t), Do("freeThread", t)>>)
    /\ UNCHANGED <<prc, reapThreads, reapProcesses, pending, holder, current>>

\* The stacks, then the reference of the thread to its process.
FreeStacks(c) ==
    /\ At(c, "freeStacks")
    /\ thr' = [thr EXCEPT ![Obj(c)].stacks = FALSE, ![Obj(c)].process = FALSE]
    /\ Then(c, IF thr[Obj(c)].process THEN <<Do("releaseProcess", Obj(c))>> ELSE <<>>)
    /\ UNCHANGED <<prc, reapThreads, reapProcesses, pending, holder, current>>

FreeThread(c) ==
    /\ At(c, "freeThread")
    /\ thr' = [thr EXCEPT ![Obj(c)].memory = "freed"]
    /\ Then(c, <<>>)
    /\ UNCHANGED <<prc, reapThreads, reapProcesses, pending, holder, current>>

ReleaseProcess(c) ==
    /\ At(c, "releaseProcess")
    /\ LET u == Obj(c)
       IN  /\ prc' = [prc EXCEPT ![u].refs = @ - 1]
           /\ Then(c, IF prc[u].refs # 1 THEN <<>>
                      ELSE <<Do("removeSpace", u), Do("dropMain", u), Do("freeProcess", u)>>)
    /\ UNCHANGED <<thr, reapThreads, reapProcesses, pending, holder, current>>

\* FinalizeRemove up to the main thread: handles, owner, address space.
RemoveSpace(c) ==
    /\ At(c, "removeSpace")
    /\ prc' = [prc EXCEPT ![Obj(c)].space = FALSE]
    /\ Then(c, <<>>)
    /\ UNCHANGED <<thr, reapThreads, reapProcesses, pending, holder, current>>

\* The main thread, if the process still has one and it is not dying.
DropMain(c) ==
    /\ At(c, "dropMain")
    /\ LET u == Obj(c)
           live == prc[u].main /\ ~thr[u].dying
       IN  /\ thr' = IF live THEN [thr EXCEPT ![u].refs = @ + 1] ELSE thr
           /\ Then(c, IF live THEN <<Do("remove", u), Do("releaseThread", u)>> ELSE <<>>)
    /\ UNCHANGED <<prc, reapThreads, reapProcesses, pending, holder, current>>

FreeProcess(c) ==
    /\ At(c, "freeProcess")
    /\ prc' = [prc EXCEPT ![Obj(c)].memory = "freed"]
    /\ Then(c, <<>>)
    /\ UNCHANGED <<thr, reapThreads, reapProcesses, pending, holder, current>>

-----------------------------------------------------------------------------
(* Removal.                                                                *)

Remove_ReleasesAlways(c) ==
    /\ At(c, "remove")
    /\ LET t == Obj(c)
           removes == ~thr[t].queued /\ thr[t].state = "finished"
       IN  /\ thr' = IF removes THEN [thr EXCEPT ![t].dying = TRUE, ![t].runqueue = FALSE] ELSE thr
           /\ Then(c, IF ~removes THEN <<>>
                      ELSE (IF t \in Users THEN <<Do("beginRemove", t), Do("enqueueProcess", t)>>
                                           ELSE <<Do("enqueueThread", t)>>)
                           \o <<Relieve(0), Do("releaseThread", t)>>)
    /\ UNCHANGED <<prc, reapThreads, reapProcesses, pending, holder, current>>

\* Needs the reference of the join slot, or, from Maintain, none.
Remove(c) ==
    /\ At(c, "remove")
    /\ LET t == Obj(c)
           removes == ~thr[t].queued /\ thr[t].state = "finished"
       IN  /\ thr' = IF removes THEN [thr EXCEPT ![t].dying = TRUE, ![t].runqueue = FALSE] ELSE thr
           /\ Then(c, IF ~removes THEN <<>>
                      ELSE (IF t \in Users THEN <<Do("beginRemove", t), Do("enqueueProcess", t)>>
                                           ELSE <<Do("enqueueThread", t)>>)
                           \o <<Relieve(0)>>
                           \o (IF thr[t].detached THEN <<>> ELSE <<Do("releaseThread", t)>>))
    /\ UNCHANGED <<prc, reapThreads, reapProcesses, pending, holder, current>>

BeginRemove(c) ==
    /\ At(c, "beginRemove")
    /\ prc' = [prc EXCEPT ![Obj(c)].dying = TRUE, ![Obj(c)].listed = FALSE]
    /\ Then(c, <<>>)
    /\ UNCHANGED <<thr, reapThreads, reapProcesses, pending, holder, current>>

ThreadPages(t) == KStackPages + (IF t \in Users THEN UStackPages ELSE 0)

\* The reference of the system goes with the thread into the queue.
EnqueueThread(c) ==
    /\ At(c, "enqueueThread")
    /\ LET t == Obj(c)
       IN  IF thr[t].queued THEN UNCHANGED objects
           ELSE /\ thr' = [thr EXCEPT ![t].queued = TRUE, ![t].pages = ThreadPages(t)]
                /\ reapThreads' = Append(reapThreads, t)
                /\ pending' = pending + ThreadPages(t)
                /\ UNCHANGED <<prc, reapProcesses>>
    /\ Then(c, <<>>)
    /\ UNCHANGED <<holder, current>>

\* The queue takes a reference of its own; the main thread is marked with it.
EnqueueProcess(c) ==
    /\ At(c, "enqueueProcess")
    /\ LET u == Obj(c)
       IN  IF prc[u].queued THEN UNCHANGED objects
           ELSE \E own \in OwnerPages :
                  LET pages == 1 + own + (IF prc[u].main THEN ThreadPages(u) ELSE 0)
                  IN  /\ prc' = [prc EXCEPT ![u].refs = @ + 1, ![u].queued = TRUE, ![u].pages = pages]
                      /\ thr' = IF prc[u].main THEN [thr EXCEPT ![u].queued = TRUE] ELSE thr
                      /\ reapProcesses' = Append(reapProcesses, u)
                      /\ pending' = pending + pages
                      /\ UNCHANGED reapThreads
    /\ Then(c, <<>>)
    /\ UNCHANGED <<holder, current>>

\* The join slot is given up; a detached thread is removed by Maintain.
Detach(c) ==
    /\ At(c, "detach")
    /\ thr' = [thr EXCEPT ![Obj(c)].detached = TRUE]
    /\ Then(c, <<Do("releaseThread", Obj(c))>>)
    /\ UNCHANGED <<prc, reapThreads, reapProcesses, pending, holder, current>>

Wait(c) ==
    /\ At(c, "wait")
    /\ thr[Obj(c)].state = "finished"
    /\ Then(c, <<>>)
    /\ UNCHANGED <<objects, holder, current>>

-----------------------------------------------------------------------------
(* Deferred reap.                                                          *)

\* StThread_RunDeferredReap: pop items until the budget of pages is used up.
Reap(c) ==
    /\ At(c, "reap")
    /\ Then(c, IF pending = 0 \/ Arg(c) <= 0 THEN <<>> ELSE <<Op("pop", None, Arg(c))>>)
    /\ UNCHANGED <<objects, holder, current>>

\* relieve_deferred_reap_pressure: the loop must go on while more pages are
\* pending than allowed, and may go on when free frames are low.
RelievePressure(c) ==
    /\ At(c, "relieve")
    /\ \/ /\ pending = 0 \/ pending + Arg(c) <= MaxPending
          /\ Then(c, <<>>)
       \/ /\ pending > 0
          /\ todo' = [todo EXCEPT ![c] = <<Op("pop", None, 0)>> \o @]
    /\ UNCHANGED <<objects, holder, current>>

\* Never below zero.
PendingAfter(pages) == IF pages > pending THEN 0 ELSE pending - pages

\* The locked half of reap_one_deferred_item, processes first.  A budgeted
\* loop goes on with what is left of its budget; an empty queue ends the loop.
Pop(c) ==
    /\ At(c, "pop")
    /\ LET rest(pages) == IF Arg(c) > 0 THEN <<RunDeferredReap(Arg(c) - pages)>> ELSE <<>>
       IN  IF reapProcesses # <<>>
           THEN LET u == Head(reapProcesses)
                IN  /\ reapProcesses' = Tail(reapProcesses)
                    /\ prc' = [prc EXCEPT ![u].queued = FALSE, ![u].pages = 0]
                    /\ pending' = PendingAfter(prc[u].pages)
                    /\ Then(c, <<Do("reapProcess", u)>> \o rest(prc[u].pages))
                    /\ UNCHANGED <<thr, reapThreads>>
           ELSE IF reapThreads # <<>>
           THEN LET t == Head(reapThreads)
                IN  /\ reapThreads' = Tail(reapThreads)
                    /\ thr' = [thr EXCEPT ![t].queued = FALSE, ![t].pages = 0]
                    /\ pending' = PendingAfter(thr[t].pages)
                    /\ Then(c, <<Do("releaseThread", t)>> \o rest(thr[t].pages))
                    /\ UNCHANGED <<prc, reapProcesses>>
           ELSE /\ todo' = [todo EXCEPT ![c] = IF Arg(c) > 0 THEN Tail(@) ELSE Tail(Tail(@))]
                /\ UNCHANGED objects
    /\ UNCHANGED <<holder, current>>

\* The unlocked half for a process: the dying main thread, then the process.
ReapProcess(c) ==
    /\ At(c, "reapProcess")
    /\ LET u == Obj(c)
           drops == prc[u].main /\ thr[u].dying
       IN  /\ prc' = IF drops THEN [prc EXCEPT ![u].main = FALSE] ELSE prc
           /\ Then(c, (IF drops THEN <<Do("releaseThread", u)>> ELSE <<>>)
                      \o <<Do("releaseProcess", u)>>)
    /\ UNCHANGED <<thr, reapThreads, reapProcesses, pending, holder, current>>

-----------------------------------------------------------------------------
(* The contexts that are not creators.                                     *)

\* The main thread has found nothing else to run; with nothing pending its call
\* of StThread_RunDeferredReap does nothing.
IdleLoop ==
    /\ todo[Idle] = <<>> /\ pending > 0 /\ holder = None /\ current = None
    /\ todo' = [todo EXCEPT ![Idle] = <<RunDeferredReap(Budget)>>]
    /\ UNCHANGED <<objects, holder, current>>

\* A thread leaves through StThread_Exit and yields on its own stack.
Exit(t) ==
    /\ holder = None /\ current = None
    /\ thr[t].runqueue /\ thr[t].state = "pending"
    /\ thr' = [thr EXCEPT ![t].state = "finished"]
    /\ current' = t
    /\ UNCHANGED <<prc, reapThreads, reapProcesses, pending, todo, holder>>

SwitchAway ==
    /\ holder = None /\ current # None
    /\ current' = None
    /\ UNCHANGED <<objects, todo, holder>>

\* What Maintain removes: finished detached threads, the running one excepted.
Reapable == {t \in Threads : thr[t].runqueue /\ thr[t].state = "finished"
                               /\ thr[t].detached /\ t # current}

\* Maintain keeps preemption locked until it has removed every such thread,
\* freeing included when memory is short.
Maintain ==
    /\ holder = None /\ Reapable # {}
    /\ holder' = Maintenance
    /\ todo' = [todo EXCEPT ![Maintenance] = <<Do("maintain", None)>>]
    /\ UNCHANGED <<objects, current>>

MaintainNext ==
    /\ At(Maintenance, "maintain")
    /\ \/ \E t \in Reapable :
             /\ todo' = [todo EXCEPT ![Maintenance] = <<Do("remove", t)>> \o @]
             /\ UNCHANGED holder
       \/ Reapable = {} /\ Then(Maintenance, <<>>) /\ holder' = None
    /\ UNCHANGED <<objects, current>>

\* Every thread has been removed and freed, and the idle loop halts the CPU.
Rest ==
    /\ \A c \in Contexts : todo[c] = <<>>
    /\ pending = 0 /\ \A t \in Threads : thr[t].memory # "live"
    /\ UNCHANGED vars

Step(c) ==
    \/ CreateUser(c) \/ CreateUserMain(c) \/ CreateKernel(c) \/ CreateKernelFails(c)
    \/ ReleaseThread(c) \/ FreeStacks(c) \/ FreeThread(c)
    \/ ReleaseProcess(c) \/ RemoveSpace(c) \/ DropMain(c) \/ FreeProcess(c)
    \/ Remove(c) \/ BeginRemove(c) \/ EnqueueThread(c) \/ EnqueueProcess(c)
    \/ Detach(c) \/ Wait(c) \/ Reap(c) \/ RelievePressure(c) \/ Pop(c) \/ ReapProcess(c)

Next ==
    \/ \E c \in Contexts : Step(c)
    \/ \E t \in Threads : Exit(t)
    \/ SwitchAway \/ IdleLoop \/ Maintain \/ MaintainNext \/ Rest

Spec == Init /\ [][Next]_vars

-----------------------------------------------------------------------------
(* Properties.                                                             *)

OpNames == {"createUser", "createUserMain", "createKernel", "createDetached",
            "releaseThread", "freeStacks", "freeThread", "releaseProcess", "removeSpace",
            "dropMain", "freeProcess", "remove", "beginRemove", "enqueueThread",
            "enqueueProcess", "detach", "wait", "reap", "relieve", "pop", "reapProcess",
            "maintain"}
Memory == {"absent", "live", "freed"}

\* Every variable has its type; a reference count never drops below zero.
TypeOK ==
    /\ thr \in [Threads -> [memory : Memory, refs : Nat, state : {"pending", "finished"},
                            detached : BOOLEAN, dying : BOOLEAN, queued : BOOLEAN, pages : Nat,
                            runqueue : BOOLEAN, stacks : BOOLEAN, process : BOOLEAN]]
    /\ prc \in [Users -> [memory : Memory, refs : Nat, dying : BOOLEAN, queued : BOOLEAN,
                          pages : Nat, listed : BOOLEAN, main : BOOLEAN, space : BOOLEAN]]
    /\ reapThreads \in Seq(Kernels) /\ reapProcesses \in Seq(Users) /\ pending \in Nat
    /\ \A c \in Contexts : todo[c] \in Seq([op : OpNames, obj : Threads \cup {None}, n : Int])
    /\ holder \in {None, Maintenance} /\ current \in Threads \cup {None}

Elements(s) == {s[i] : i \in 1 .. Len(s)}
One(b) == IF b THEN 1 ELSE 0

\* Every operation somebody still has to do.
Todo == UNION {{[todo[c][i] EXCEPT !.n = <<c, i>>] : i \in 1 .. Len(todo[c])} : c \in Contexts}
Times(ops, names, obj) == Cardinality({o \in ops : o.obj = obj /\ o.op \in names})

\* Who holds a strong reference to thread t: the system (through main_thread of
\* the process, the run queue or the reap queue), the creator's join slot, and
\* whoever is about to release one.
ThreadHolders(t, ops) ==
    One(IF t \in Users THEN prc[t].main ELSE thr[t].runqueue \/ thr[t].queued)
    + Times({o \in ops : o.n[1] = t}, {"detach", "remove"}, t)
    + Times(ops, {"releaseThread", "enqueueThread"}, t)

\* To process u: its main thread, the reap queue or the item taken from it, and
\* whoever is about to release one, its creator included.
ProcessHolders(u, ops) ==
    One(thr[u].process) + One(prc[u].queued) + Times(ops, {"reapProcess", "releaseProcess"}, u)

\* The reference counts that StRefControlBlock keeps are exactly the references
\* held, whatever Detach, Remove, Maintain and the reaper interleave: none is
\* lost (the object would leak) and none is dropped twice.
RefsExact ==
    \A ops \in {Todo} :
        /\ \A t \in Threads : thr[t].memory # "absent" => thr[t].refs = ThreadHolders(t, ops)
        /\ \A u \in Users : prc[u].memory # "absent" => prc[u].refs = ProcessHolders(u, ops)

\* The thread and process objects that a context is about to read or write.
TouchesThread(o) ==
    IF o.op \in {"releaseThread", "freeStacks", "freeThread", "remove", "enqueueThread", "detach", "wait"}
       \/ (o.op \in {"reapProcess", "enqueueProcess", "dropMain"} /\ prc[o.obj].main)
    THEN {o.obj} ELSE {}
TouchesProcess(o) ==
    IF o.op \in {"releaseProcess", "removeSpace", "dropMain", "freeProcess", "beginRemove",
                 "enqueueProcess", "reapProcess", "createUserMain"}
       \/ (o.op = "freeStacks" /\ o.obj \in Users)
    THEN {o.obj} ELSE {}

\* No context touches an object after it was freed, nor frees it twice; the user
\* stack of a thread is unmapped while the address space of its process exists.
NoUseAfterFree ==
    \A c \in Contexts : todo[c] # <<>> =>
        LET o == Head(todo[c])
        IN  /\ \A t \in TouchesThread(o) : thr[t].memory = "live"
            /\ \A u \in TouchesProcess(o) : prc[u].memory = "live"
            /\ o.op = "freeStacks" /\ o.obj \in Users => prc[o.obj].space

\* No link that others follow leads to a freed object: the run queue, the process
\* list, the reap queues, main_thread of a process and process of a thread.
LinksLive ==
    /\ \A t \in Threads :
          thr[t].runqueue \/ t \in Elements(reapThreads) => thr[t].memory = "live"
    /\ \A u \in Users :
          /\ prc[u].listed \/ u \in Elements(reapProcesses) => prc[u].memory = "live"
          /\ prc[u].memory = "live" /\ prc[u].main => thr[u].memory = "live"
          /\ thr[u].memory = "live" /\ thr[u].process => prc[u].memory = "live"

\* A thread that runs on its own stack keeps it: Maintain may run in the yield of
\* StThread_Exit, before the switch away from the finished thread.
StackKept == current # None => thr[current].stacks

\* deferred_reap_pending_pages is the sum over the queued items, so that the loops
\* that stop at zero have emptied the queues and the clamp at zero never acts.
PendingExact ==
    pending = MapThenSumSet(LAMBDA t : thr[t].pages, Elements(reapThreads))
              + MapThenSumSet(LAMBDA u : prc[u].pages, Elements(reapProcesses))

\* When every context is done and nothing waits for Maintain or for the reaper, each
\* finished thread and its process have been freed: nobody is left to free them later.
NothingLeaks ==
    (/\ \A c \in Contexts : todo[c] = <<>>
     /\ reapThreads = <<>> /\ reapProcesses = <<>> /\ current = None /\ Reapable = {})
    => \A t \in Threads : thr[t].state = "finished" =>
            thr[t].memory = "freed" /\ (t \in Users => prc[t].memory = "freed")

\* The counters of StRefControlBlock and of the reaper are exactly what they
\* count, whatever Detach, Remove, Maintain and the reaper interleave.
CountsExact == TypeOK /\ RefsExact /\ PendingExact

\* Nothing that is still followed, touched or stood upon has been freed: no
\* operation, no link of a list and no running thread.
NothingDangles == NoUseAfterFree /\ LinksLive /\ StackKept

=============================================================================
