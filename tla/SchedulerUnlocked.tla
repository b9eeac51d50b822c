------------------------- MODULE SchedulerUnlocked -------------------------
(***************************************************************************)
(* The scheduler with StScheduler_CheckHasOtherRunnableThread as it runs:  *)
(* select_next_runnable_thread walks the run queue and makes threads       *)
(* runnable with preemption enabled, so the timer interrupt may come       *)
(* between any two of its steps.                                           *)
(***************************************************************************)
EXTENDS Scheduler

VARIABLE scan       \* the local variables of each thread's scan

unlockedVars == <<vars, scan>>

NoScan == [start |-> NoThread, cursor |-> NoThread, best |-> NoThread, why |-> "none"]

\* thread->next, or the head after the last: the link belongs to the run queue,
\* or to the reap list once StThread_Remove has put the thread there.
NextOf(th) ==
    LET q == IF Queued(th) THEN queue ELSE reap
        k == IndexOf(q, th)
    IN  IF k = 0 \/ k = Len(q) THEN Head(queue) ELSE q[k + 1]

ScanStart(th) ==
    /\ At(th, "check")
    /\ scan' = [scan EXCEPT ![th] = [NoScan EXCEPT !.start = NextOf(th), !.cursor = NextOf(th)]]
    /\ Goto(th, "look")
    /\ UNCHANGED <<schedVars, callVars>>

\* The switch of update_runnable_state reads the thread at the cursor ...
ScanLook(th) ==
    /\ At(th, "look")
    /\ scan' = [scan EXCEPT ![th].why = WakeReason(tcb, scan[th].cursor)]
    /\ Goto(th, "wake")
    /\ UNCHANGED <<schedVars, callVars>>

\* ... then writes it, and the walk goes on until it is back at its start.
ScanWake(th) ==
    /\ At(th, "wake")
    /\ LET c == scan[th].cursor
           T == Wake(tcb, queue, c, scan[th].why)
           b == scan[th].best
           best == IF T[c].state = "running" /\ (b = NoThread \/ T[c].pass < T[b].pass)
                   THEN c ELSE b
       IN  /\ tcb' = T
           /\ IF NextOf(c) = scan[th].start
              THEN /\ scan' = [scan EXCEPT ![th] = NoScan]
                   /\ Answer(th, best)
              ELSE /\ scan' = [scan EXCEPT ![th].cursor = NextOf(c), ![th].best = best,
                                           ![th].why = "none"]
                   /\ Goto(th, "look")
    /\ UNCHANGED <<queue, reap, current, switches, requested, callVars>>

ScanStep(th) == ScanStart(th) \/ ScanLook(th) \/ ScanWake(th)
UnlockedStep(th) == (LockedStep(th) /\ UNCHANGED scan) \/ ScanStep(th)

InitUnlocked == Init /\ scan = [th \in Threads |-> NoScan]

NextUnlocked ==
    \/ (preempt_isr \/ Tick) /\ UNCHANGED scan
    \/ \E th \in Threads : UnlockedStep(th) \/ (CallStep(th) /\ UNCHANGED scan)

\* The fairness of FairSpec.
FairUnlocked ==
    /\ InitUnlocked /\ [][NextUnlocked]_unlockedVars
    /\ WF_unlockedVars(Tick /\ UNCHANGED scan)
    /\ []<>~PreemptMoves \/ []<><<preempt_isr /\ UNCHANGED scan>>_unlockedVars
    /\ \A th \in Threads : []<>InCode(th) => []<><<UnlockedStep(th)>>_unlockedVars

-----------------------------------------------------------------------------
\* Asking whether another thread is runnable, which StThread_Sleep,
\* StThread_Wait and the idle loop do without a lock, comes to an answer.
ScanEnds ==
    \A th \in Threads : (pc[th] \in {"check", "look", "wake"}) ~> (pc[th] \in {"yield", "idle"})
=============================================================================
