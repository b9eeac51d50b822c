----------------------------- MODULE Scheduler -----------------------------
(***************************************************************************)
(* The scheduler of Strata (strata/scheduler/scheduler.c) with the thread  *)
(* operations that feed it: create, sleep, wait, block, detach, remove and *)
(* exit (strata/thread/thread.c, mutex/mutex.c), the yield and the timer   *)
(* interrupt that call it, and the idle loop of the main thread.           *)
(*                                                                         *)
(* sched_pass is kept relative to the smallest pass of a runnable thread,  *)
(* and a deadline as the number of ticks left: only differences matter.    *)
(* Whatever runs with preemption locked or interrupts off is one step.     *)
(* StScheduler_CheckHasOtherRunnableThread runs with neither: its walk     *)
(* over the run queue is one step here and one step per thread in module   *)
(* SchedulerUnlocked.                                                      *)
(***************************************************************************)
EXTENDS Integers, Sequences, FiniteSets, SequencesExt

CONSTANTS
    Workers,        \* thread objects the pool can hold, besides the main thread
    Main,           \* the main thread, which ends up in the idle loop
    NoThread,       \* a null reference
    Interval,       \* maintain_interval_switches (64)
    Ticks,          \* timeouts a caller passes, in ticks
    MaxLag,         \* bound: a thread further behind counts as this far behind,
                    \* and one further ahead than MaxLag + 2 as that far ahead
    Calls           \* the calls the workers make

ASSUME SchedulerAssumption ==
    /\ Main \notin Workers /\ NoThread \notin Workers \cup {Main}
    /\ Interval \in Nat \ {0} /\ MaxLag \in Nat /\ Ticks \subseteq Nat \ {0}
    /\ Calls \subseteq {"create", "join", "sleep", "wait", "block", "exit", "fault"}

Threads == Workers \cup {Main}

VARIABLES
    tcb,        \* what struct StThread holds for each thread
    queue,      \* the run queue, head first
    reap,       \* threads removed and waiting to be freed
    current,    \* scheduler->current_thread
    switches,   \* context switches since the last maintenance
    requested,  \* scheduler->maintain_requested
    pc,         \* where each thread is in the code
    call,       \* its call: "none", "sleep" or "wait"
    list,       \* the threads a Wait call waits for
    due,        \* ticks until the deadline of the call, as its caller counts them
    joiner      \* who holds the join reference of a thread

schedVars == <<tcb, queue, reap, current, switches, requested>>
callVars == <<call, list, due, joiner>>
vars == <<schedVars, pc, callVars>>

\* A thread object in the pool, before StThread_CreateKernel.
Unused == [state |-> "none", pass |-> 0, left |-> 0, waits |-> {}, forever |-> FALSE,
           status |-> "success", detached |-> FALSE]

Queued(th) == \E i \in 1 .. Len(queue) : queue[i] = th
Finished(T, th) == T[th].state = "finished"

-----------------------------------------------------------------------------
(* Making threads runnable.  T is a value of tcb, q one of queue.          *)

Running(T, q) == {th \in Range(q) : T[th].state = "running"}
get_min_runnable_pass(T, q, S) == Min({T[th].pass : th \in S})

\* A thread that becomes runnable does not start behind the others.
catch_up_runnable_pass(T, q, th) ==
    LET others == Running(T, q) \ {th}
    IN  IF others = {} THEN T
        ELSE [T EXCEPT ![th].pass = Max({@, get_min_runnable_pass(T, q, others)})]

waiting_thread_is_ready(T, th) == \A t \in T[th].waits : Finished(T, t)


\* Why update_runnable_state makes a thread runnable, "none" when it does not.
WakeReason(T, th) ==
    CASE T[th].state = "pending" -> "first"
      [] T[th].state = "sleeping" /\ T[th].left = 0 -> "slept"
      [] T[th].state = "waiting" /\ waiting_thread_is_ready(T, th) -> "success"
      [] T[th].state = "waiting" /\ ~waiting_thread_is_ready(T, th)
           /\ ~T[th].forever /\ T[th].left = 0 -> "expired"
      [] OTHER -> "none"

\* finish_waiting_thread: the wait is over, with this status.
Ended(t, status) ==
    [t EXCEPT !.state = "running", !.left = 0, !.waits = {}, !.forever = FALSE, !.status = status]

\* What update_runnable_state writes for the reason.
Wake(T, q, th, why) ==
    CASE why = "none" -> T
      [] why = "first" ->
           catch_up_runnable_pass([T EXCEPT ![th].state = "running"], q, th)
      [] why = "slept" ->
           catch_up_runnable_pass([T EXCEPT ![th].state = "running", ![th].left = 0], q, th)
      [] why \in {"success", "expired"} ->
           catch_up_runnable_pass([T EXCEPT ![th] = Ended(@, why)], q, th)



update_runnable_state(T, q, th) == Wake(T, q, th, WakeReason(T, th))

UpdateAll(T, q, order) == FoldLeft(LAMBDA A, th : update_runnable_state(A, q, th), T, order)

-----------------------------------------------------------------------------
(* Choosing the next thread.                                               *)

IndexOf(q, th) == SelectInSeq(q, LAMBDA e : e = th)

\* The queue from the successor of the current thread round to itself.
ScanOrder(q, cur) ==
    LET k == IndexOf(q, cur) IN SubSeq(q, k + 1, Len(q)) \o SubSeq(q, 1, k)

\* The first runnable thread of the order with the lowest pass.
Best(T, order) ==
    LET run == {i \in 1 .. Len(order) : T[order[i]].state = "running"}
        low == Min({T[order[i]].pass : i \in run})
    IN  IF run = {} THEN NoThread
        ELSE order[Min({i \in run : T[order[i]].pass = low})]

\* Passes relative to the lowest runnable one; that of a finished thread is
\* not read any more.
Relative(T, q) ==
    LET low == IF Running(T, q) = {} THEN 0 ELSE get_min_runnable_pass(T, q, Running(T, q))
    IN  [th \in Threads |-> [T[th] EXCEPT
            !.pass = IF T[th].state \in {"none", "finished"} THEN 0
                     ELSE Max({-MaxLag, Min({@ - low, MaxLag + 2})})]]

\* Mutant of select_next_runnable_thread: the first runnable thread of the queue.
select_HeadFirst(T, q, cur) ==
    LET U == UpdateAll(T, q, q) IN [tcb |-> U, next |-> Best([th \in Threads |->
        [U[th] EXCEPT !.pass = 0]], q)]

\* select_next_runnable_thread without the accounting.
select_next_runnable_thread(T, q, cur) ==
    LET U == UpdateAll(T, q, ScanOrder(q, cur))
    IN  [tcb |-> U, next |-> Best(U, ScanOrder(q, cur))]

\* StScheduler_AddThread and StScheduler_RemoveThread: the pass of a new
\* thread is the current one's.
AddThread(q, th) == Append(q, th)
InitialPass == tcb[current].pass
RemoveThread(q, th) == Remove(q, th)

-----------------------------------------------------------------------------
(* Maintenance.                                                            *)

ShouldMaintain(s) == s.requested \/ s.switches >= Interval

\* The scheduler's data as one record, so that its functions compose.
Sched == [tcb |-> tcb, queue |-> queue, reap |-> reap, current |-> current,
          switches |-> switches, requested |-> requested]

Become(s) ==
    /\ tcb' = s.tcb /\ queue' = s.queue /\ reap' = s.reap
    /\ current' = s.current /\ switches' = s.switches /\ requested' = s.requested

\* Every thread is updated; finished detached threads leave the queue, all but
\* the current one, which still stands on its stack.
StScheduler_Maintain(s) ==
    LET U == UpdateAll(s.tcb, s.queue, s.queue)
        Gone(th) == Finished(U, th) /\ U[th].detached /\ th # s.current
    IN  [s EXCEPT !.tcb = U, !.queue = SelectSeq(s.queue, LAMBDA th : ~Gone(th)),
                  !.reap = @ \o SelectSeq(s.queue, Gone), !.switches = 0,
                  !.requested = Finished(U, s.current) /\ U[s.current].detached]

\* GetNextThread with its accounting, then StThreadP_Switch.
Switched(s, T, next) ==
    IF next = NoThread THEN [s EXCEPT !.tcb = T]
    ELSE [s EXCEPT !.tcb = Relative([T EXCEPT ![next].pass = @ + 1], s.queue),
                   !.current = next,
                   !.switches = IF next = s.current THEN @ ELSE @ + 1]

Switch(s) ==
    LET got == select_next_runnable_thread(s.tcb, s.queue, s.current)
    IN  Switched(s, got.tcb, got.next)

\* What a yield or the timer interrupt makes of the scheduler's data.
Rescheduled(s) == Switch(IF ShouldMaintain(s) THEN StScheduler_Maintain(s) ELSE s)

Reschedule == \E s \in {Rescheduled(Sched)} : Become(s)

preempt_isr ==
    /\ Reschedule
    /\ UNCHANGED <<pc, callVars>>

Pred(n) == IF n > 0 THEN n - 1 ELSE 0

Tick ==
    /\ \E th \in Threads : tcb[th].left > 0 \/ due[th] > 0
    /\ tcb' = [th \in Threads |-> [tcb[th] EXCEPT !.left = Pred(@)]]
    /\ due' = [th \in Threads |-> Pred(due[th])]
    /\ UNCHANGED <<queue, reap, current, switches, requested, pc, call, list, joiner>>

-----------------------------------------------------------------------------
(* What the current thread does.                                           *)

At(th, place) == current = th /\ pc[th] = place
Goto(th, place) == pc' = [pc EXCEPT ![th] = place]

\* StThread_CreateKernel: a new thread enters the queue with the creator's pass.
StThread_CreateKernel(th, new, detached) ==
    /\ At(th, "run")
    /\ (IF detached THEN "create" ELSE "join") \in Calls
    /\ tcb[new].state = "none"
    /\ tcb' = [tcb EXCEPT ![new] =
          [Unused EXCEPT !.state = "pending", !.pass = InitialPass, !.detached = detached]]
    /\ queue' = AddThread(queue, new)
    /\ pc' = [pc EXCEPT ![new] = "run"]
    /\ joiner' = [joiner EXCEPT ![new] = IF detached THEN NoThread ELSE th]
    /\ UNCHANGED <<reap, current, switches, requested, call, list, due>>

StThread_Yield(th) ==
    /\ At(th, "run")
    /\ Reschedule
    /\ UNCHANGED <<pc, callVars>>

StThread_Sleep(th) ==
    /\ "sleep" \in Calls /\ At(th, "run")
    /\ \E n \in Ticks :
         /\ tcb' = [tcb EXCEPT ![th].state = "sleeping", ![th].left = n]
         /\ due' = [due EXCEPT ![th] = n]
    /\ call' = [call EXCEPT ![th] = "sleep"]
    /\ Goto(th, "loop")
    /\ UNCHANGED <<queue, reap, current, switches, requested, list, joiner>>

\* A wait that does not return at once.
StThread_Wait(th) ==
    /\ "wait" \in Calls /\ At(th, "run")
    /\ \E L \in SUBSET {t \in Workers : joiner[t] = th}, n \in Ticks, forever \in BOOLEAN :
         /\ \E t \in L : ~Finished(tcb, t)
         /\ tcb' = [tcb EXCEPT ![th].state = "waiting", ![th].waits = L, ![th].forever = forever,
                               ![th].status = "pending", ![th].left = IF forever THEN 0 ELSE n]
         /\ list' = [list EXCEPT ![th] = L]
         /\ due' = [due EXCEPT ![th] = IF forever THEN 0 ELSE n]
    /\ call' = [call EXCEPT ![th] = "wait"]
    /\ Goto(th, "loop")
    /\ UNCHANGED <<queue, reap, current, switches, requested, joiner>>

\* StMutex_Lock on a mutex another thread holds, and the StMutex_Unlock that
\* hands it on: unblock_blocking_thread sets the state and nothing else.
Block(th) ==
    /\ "block" \in Calls /\ At(th, "run")
    /\ tcb' = [tcb EXCEPT ![th].state = "blocking"]
    /\ Goto(th, "blocked")
    /\ UNCHANGED <<queue, reap, current, switches, requested, callVars>>

BlockedYield(th) ==
    /\ At(th, "blocked")
    /\ IF tcb[th].state = "blocking"
       THEN Reschedule /\ UNCHANGED pc
       ELSE Goto(th, "run") /\ UNCHANGED schedVars
    /\ UNCHANGED callVars

Unblock(th, t) ==
    /\ At(th, "run")
    /\ tcb[t].state = "blocking"
    /\ tcb' = [tcb EXCEPT ![t].state = "running"]
    /\ UNCHANGED <<queue, reap, current, switches, requested, pc, callVars>>

StThread_Detach(th, t) ==
    /\ At(th, "run")
    /\ joiner[t] = th
    /\ tcb' = [tcb EXCEPT ![t].detached = TRUE]
    /\ requested' = (requested \/ Finished(tcb, t))
    /\ joiner' = [joiner EXCEPT ![t] = NoThread]
    /\ UNCHANGED <<queue, reap, current, switches, pc, call, list, due>>

\* Mutant of StThread_Remove: the run queue keeps the thread.
Remove_StillQueued(th, t) ==
    /\ At(th, "run")
    /\ joiner[t] = th /\ Finished(tcb, t)
    /\ reap' = Append(reap, t)
    /\ joiner' = [joiner EXCEPT ![t] = NoThread]
    /\ UNCHANGED <<tcb, queue, current, switches, requested, pc, call, list, due>>

StThread_Remove(th, t) ==
    /\ At(th, "run")
    /\ joiner[t] = th /\ Finished(tcb, t)
    /\ queue' = RemoveThread(queue, t)
    /\ reap' = Append(reap, t)
    /\ joiner' = [joiner EXCEPT ![t] = NoThread]
    /\ UNCHANGED <<tcb, current, switches, requested, pc, call, list, due>>

StThread_Exit(th) ==
    /\ "exit" \in Calls /\ At(th, "run") /\ th # Main
    /\ tcb' = [tcb EXCEPT ![th].state = "finished"]
    /\ requested' = TRUE
    /\ Goto(th, "exit")
    /\ UNCHANGED <<queue, reap, current, switches, callVars>>

\* The yield at the end of StThread_Exit; a thread that came back from it would
\* spin for ever.
ExitYield(th) ==
    /\ At(th, "exit")
    /\ Reschedule
    /\ Goto(th, "spin")
    /\ UNCHANGED callVars

\* StIntP_HandleUserFault: finish the thread and leave it for good.
StIntP_HandleUserFault(th) ==
    /\ "fault" \in Calls /\ At(th, "run") /\ th # Main
    /\ \E s \in {Switch(StScheduler_Maintain([Sched EXCEPT !.tcb[th].state = "finished"]))} :
          Become(s)
    /\ Goto(th, "spin")
    /\ UNCHANGED callVars

-----------------------------------------------------------------------------
(* The loops of StThread_Sleep and StThread_Wait.                          *)

Return(th) ==
    /\ call' = [call EXCEPT ![th] = "none"]
    /\ list' = [list EXCEPT ![th] = {}]
    /\ due' = [due EXCEPT ![th] = 0]
    /\ Goto(th, "run")

SleepLoop(th) ==
    /\ At(th, "loop") /\ call[th] = "sleep"
    /\ \/ tcb[th].state # "sleeping" /\ Return(th) /\ UNCHANGED tcb
       \/ /\ tcb[th].state = "sleeping" /\ tcb[th].left = 0
          /\ tcb' = [tcb EXCEPT ![th].state = "running"]
          /\ Return(th)
       \/ /\ tcb[th].state = "sleeping" /\ tcb[th].left > 0
          /\ Goto(th, "check") /\ UNCHANGED <<tcb, call, list, due>>
    /\ UNCHANGED <<queue, reap, current, switches, requested, joiner>>

WaitLoop(th) ==
    /\ At(th, "loop") /\ call[th] = "wait"
    /\ LET ready == waiting_thread_is_ready(tcb, th)
           late == ~tcb[th].forever /\ tcb[th].left = 0
           Finish(status) == tcb' = [tcb EXCEPT ![th] = Ended(@, status)] /\ Return(th)
       IN  CASE tcb[th].state # "waiting" /\ tcb[th].status # "pending" ->
                  Finish("success")
             [] tcb[th].state # "waiting" /\ tcb[th].status = "pending" ->
                  IF ready THEN Finish("success")
                  ELSE tcb' = [tcb EXCEPT ![th].state = "waiting"] /\ UNCHANGED <<pc, call, list, due>>
             [] tcb[th].state = "waiting" /\ ready -> Finish("success")
             [] tcb[th].state = "waiting" /\ ~ready /\ late -> Finish("expired")
             [] OTHER -> Goto(th, "check") /\ UNCHANGED <<tcb, call, list, due>>
    /\ UNCHANGED <<queue, reap, current, switches, requested, joiner>>

\* The idle loop of the main thread.
IdleMaintain ==
    /\ At(Main, "loop")
    /\ Become(IF ShouldMaintain(Sched) THEN StScheduler_Maintain(Sched) ELSE Sched)
    /\ Goto(Main, "check")
    /\ UNCHANGED callVars

\* The answer of CheckHasOtherRunnableThread: yield, or wait for an interrupt.
Answer(th, best) ==
    Goto(th, IF best # NoThread /\ best # th THEN "yield" ELSE "idle")

CheckHasOtherRunnableThread(th) ==
    /\ At(th, "check")
    /\ LET got == select_next_runnable_thread(tcb, queue, current)
       IN  tcb' = got.tcb /\ Answer(th, got.next)
    /\ UNCHANGED <<queue, reap, current, switches, requested, callVars>>

LoopYield(th) ==
    /\ At(th, "yield")
    /\ Reschedule
    /\ Goto(th, "loop")
    /\ UNCHANGED callVars

\* StThreadP_IdleUntilInterrupt; the main thread first runs the deferred reap.
Idle(th) ==
    /\ At(th, "idle")
    /\ IF th = Main
       THEN /\ tcb' = [t \in Threads |-> IF t \in Range(reap) THEN Unused ELSE tcb[t]]
            /\ pc' = [t \in Threads |->
                  CASE t \in Range(reap) -> "none" [] t = th -> "loop" [] OTHER -> pc[t]]
            /\ reap' = <<>>
       ELSE Goto(th, "loop") /\ UNCHANGED <<tcb, reap>>
    /\ UNCHANGED <<queue, current, switches, requested, callVars>>

-----------------------------------------------------------------------------
\* The main thread has created one detached thread and entered its idle loop.
Init ==
    \E w \in Workers :
      /\ tcb = [th \in Threads |->
            CASE th = Main -> [Unused EXCEPT !.state = "running"]
              [] th = w -> [Unused EXCEPT !.state = "pending", !.detached = TRUE]
              [] OTHER -> Unused]
      /\ queue = <<Main, w>>
      /\ reap = <<>>
      /\ current = Main
      /\ switches = 0 /\ requested = FALSE
      /\ pc = [th \in Threads |->
            CASE th = Main -> "loop" [] th = w -> "run" [] OTHER -> "none"]
      /\ call = [th \in Threads |-> "none"]
      /\ list = [th \in Threads |-> {}]
      /\ due = [th \in Threads |-> 0]
      /\ joiner = [th \in Threads |-> NoThread]

\* Steps inside the code that exclude each other, the scan, and the calls the
\* workers choose to make.
LockedStep(th) ==
    \/ SleepLoop(th) \/ WaitLoop(th) \/ BlockedYield(th) \/ ExitYield(th)
    \/ LoopYield(th) \/ Idle(th)
    \/ th = Main /\ IdleMaintain

CodeStep(th) == LockedStep(th) \/ CheckHasOtherRunnableThread(th)

CallStep(th) ==
    \/ \E new \in Workers, detached \in BOOLEAN : StThread_CreateKernel(th, new, detached)
    \/ \E t \in Workers : Unblock(th, t) \/ StThread_Detach(th, t) \/ StThread_Remove(th, t)
    \/ StThread_Yield(th) \/ StThread_Sleep(th) \/ StThread_Wait(th) \/ Block(th)
    \/ StThread_Exit(th) \/ StIntP_HandleUserFault(th)

Next == preempt_isr \/ Tick \/ \E th \in Threads : CodeStep(th) \/ CallStep(th)

Spec == Init /\ [][Next]_vars

\* A thread on the processor, in the middle of a call.
InCode(th) == current = th /\ pc[th] \notin {"run", "spin"}

\* The timer interrupt would change something.
PreemptMoves == Rescheduled(Sched) # Sched

\* The clock and the timer interrupt go on, and a thread that is given the
\* processor over and over gets on with the call it is in.  The last two are
\* the weak fairness of preempt_isr and the strong fairness of CodeStep with
\* the enabling conditions spelled out.
FairSpec ==
    /\ Spec
    /\ WF_vars(Tick)
    /\ []<>~PreemptMoves \/ []<><<preempt_isr>>_vars
    /\ \A th \in Threads : []<>InCode(th) => []<><<CodeStep(th)>>_vars

-----------------------------------------------------------------------------
(* Properties.                                                             *)

\* Types and bounds: no more than maintain_interval_switches switches go by
\* without StScheduler_Maintain.
TypeOK ==
    /\ tcb \in [Threads -> [
          state : {"none", "pending", "running", "sleeping", "waiting", "blocking", "finished"},
          pass : Int, left : Nat, waits : SUBSET Workers, forever : BOOLEAN,
          status : {"pending", "success", "expired"}, detached : BOOLEAN]]
    /\ queue \in Seq(Threads) /\ reap \in Seq(Workers)
    /\ current \in Threads
    /\ switches \in 0 .. Interval /\ requested \in BOOLEAN
    /\ pc \in [Threads -> {"none", "run", "loop", "check", "yield", "idle", "blocked",
                           "exit", "spin"}]
    /\ call \in [Threads -> {"none", "sleep", "wait"}] /\ due \in [Threads -> Nat]

\* Every thread that StThread_CreateKernel made is in the run queue or in the
\* list of deferred frees, once and not in both; none that was freed is; and
\* the current thread, whose stack is in use, is queued.
QueueExact ==
    /\ IsInjective(queue \o reap)
    /\ Range(queue \o reap) = {th \in Threads : tcb[th].state # "none"}
    /\ Queued(current)



\* Whenever a finished detached thread is still queued, maintenance has been
\* asked for: nothing is left for the periodic one to find.
MaintainPending ==
    (\E th \in Threads : Queued(th) /\ Finished(tcb, th) /\ tcb[th].detached) => requested


\* A runnable thread gets the processor.
RunnableRuns ==
    \A th \in Threads : (tcb[th].state = "running") ~> (current = th)

\* A thread that sleeps returns to its caller.
SleepReturns ==
    \A th \in Workers : (call[th] = "sleep") ~> (call[th] = "none")

\* A detached thread that finishes is taken off the run queue.
DetachedLeaves ==
    \A th \in Workers : (Finished(tcb, th) /\ tcb[th].detached) ~> ~Queued(th)

\* Whatever order create, join, detach, exit, remove and maintenance come in,
\* every thread is in exactly one list, maintenance is due within its interval,
\* and it has been asked for while there is something for it to find.
ListsExact == TypeOK /\ QueueExact /\ MaintainPending


=============================================================================
