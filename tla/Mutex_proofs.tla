---------------------------- MODULE Mutex_proofs ----------------------------
(***************************************************************************)
(* Proofs, for any set of threads, mutexes and timeouts, of the safety     *)
(* invariants of module Mutex (the remaining actions keep the inductive    *)
(* invariant, and the theorems that follow from it), and that module Mutex *)
(* implements module Lock.                                                 *)
(***************************************************************************)
EXTENDS Mutex_lemmas

\* The spinlock is released.
LEMMA Keep_UnlockAndRestoreIrq ==
  ASSUME IInv, NEW th \in Threads, UnlockAndRestoreIrq(th)
  PROVE  IInv'
<1> USE DEF States, Kinds, Results, Places, InSpin, InPreemptionLock, LockKinds
<1>1. TypeOK'
  BY DEF IInv, TypeOK, Exclusion, UnlockAndRestoreIrq, At, Goto, CallUnchanged, cpuVars,
         threadVars, mutexVars, callVars
<1>2. /\ current = th /\ pc[th] = "unspin" /\ pc'[th] = "leave"
      /\ irqOn' = TRUE /\ spin' = [spin EXCEPT ![mtx[th]] = FALSE]
      /\ UNCHANGED <<current, depth, now, state, kind, mtx, deadline, seen, ret, held>>
      /\ UNCHANGED <<locked, owner, blocking>>
  BY DEF IInv, TypeOK, UnlockAndRestoreIrq, At, Goto, CallUnchanged, cpuVars, threadVars,
         mutexVars, callVars
<1>3. Others(th) /\ Scheduled(th)
  BY DEF IInv, TypeOK, Others, Scheduled, UnlockAndRestoreIrq, At, Goto, CallUnchanged, cpuVars,
         threadVars, mutexVars, callVars
<1>4. OfThread(th) /\ TypeOK
  BY EachThread DEF IInv
<1>5. Exclusion'
  BY ZenonT(60), <1>2, <1>3, <1>4 DEF IInv, TypeOK, Exclusion, Others
<1>6. CallShapeOf(th)'
  BY <1>2, <1>4 DEF OfThread, CallShapeOf, Expired
<1>7. OwnershipOf(th)'
  BY ZenonT(60), <1>2, <1>4 DEF TypeOK, OfThread, CallShapeOf, OwnershipOf, Asking, Releasing, Taken
<1>8. KeepsClaims(th)
  BY ZenonT(60), <1>2, <1>4 DEF OfThread, CallShapeOf, KeepsClaims, Claimant, InLoop
<1>9. NotRunningOf(th)'
  BY ZenonT(60), <1>2, <1>4 DEF OfThread, CallShapeOf, NotRunningOf, InLoop
<1>10. seen'[th] <= now' /\ now' >= now
  <2>1. seen[th] \in Nat /\ now \in Nat /\ seen[th] <= now
    BY <1>4 DEF TypeOK, OfThread
  <2>2. seen'[th] = seen[th] /\ now' = now
    BY <1>2
  <2> QED BY <2>1, <2>2
<1> QED BY <1>1, <1>2, <1>3, <1>5, <1>6, <1>7, <1>8, <1>9, <1>10, LocalStep DEF OfThread

\* The preemption lock is released, to wait.
LEMMA Keep_UnlockPreemption_Wait ==
  ASSUME IInv, NEW th \in Threads, UnlockPreemption(th), ret[th] = "wait"
  PROVE  IInv'
<1> USE DEF States, Kinds, Results, Places, InSpin, InPreemptionLock, LockKinds
<1>d. depth = 1
  BY DEF IInv, TypeOK, Exclusion, UnlockPreemption, At
<1>1. TypeOK'
  <2>a. depth' = depth - 1 /\ held' = held
    BY ZenonT(60) DEF UnlockPreemption
  <2>1. depth' = 0 /\ held' = held
    BY <1>d, <2>a, SMT
  <2>2. pc' = [pc EXCEPT ![th] = "yield"] /\ UNCHANGED <<current, irqOn, now, state, sleepUntil, spin,
          locked, owner, blocking, kind, mtx, deadline, seen, ret>>
    BY ZenonT(60) DEF UnlockPreemption, Goto, threadVars, mutexVars
  <2> QED BY ZenonT(60), <2>1, <2>2 DEF IInv, TypeOK
<1>2. /\ current = th /\ pc[th] = "leave" /\ pc'[th] = "yield" /\ depth' = 0
      /\ UNCHANGED <<current, irqOn, now, spin, state, kind, mtx, deadline, seen, ret, held>>
      /\ UNCHANGED <<locked, owner, blocking>>
  BY <1>d DEF IInv, TypeOK, UnlockPreemption, At, Goto, CallUnchanged, cpuVars, threadVars,
         mutexVars, callVars
<1>3. Others(th) /\ Scheduled(th)
  BY <1>d DEF IInv, TypeOK, Others, Scheduled, UnlockPreemption, At, Goto, CallUnchanged,
         cpuVars, threadVars, mutexVars, callVars
<1>4. OfThread(th) /\ TypeOK
  BY EachThread DEF IInv
<1>5. Exclusion'
  BY <1>2, <1>3, <1>4 DEF IInv, TypeOK, Exclusion, Others
<1>6. CallShapeOf(th)'
  BY ZenonT(60), <1>2, <1>4 DEF OfThread, CallShapeOf, Expired
<1>7. OwnershipOf(th)'
  BY <1>2, <1>4 DEF TypeOK, OfThread, CallShapeOf, OwnershipOf, Asking, Releasing, Taken
<1>8. KeepsClaims(th)
  BY ZenonT(60), <1>2, <1>4 DEF OfThread, CallShapeOf, KeepsClaims, Claimant, InLoop
<1>9. NotRunningOf(th)'
  BY ZenonT(60), <1>2, <1>4 DEF OfThread, CallShapeOf, NotRunningOf, InLoop
<1>10. seen'[th] <= now' /\ now' >= now
  <2>1. seen[th] \in Nat /\ now \in Nat /\ seen[th] <= now
    BY <1>4 DEF TypeOK, OfThread
  <2>2. seen'[th] = seen[th] /\ now' = now
    BY <1>2
  <2> QED BY <2>1, <2>2
<1> QED BY <1>1, <1>2, <1>3, <1>5, <1>6, <1>7, <1>8, <1>9, <1>10, LocalStep DEF OfThread

\* The preemption lock is released, to return to the caller.
LEMMA Keep_UnlockPreemption_Return ==
  ASSUME IInv, NEW th \in Threads, UnlockPreemption(th), ret[th] # "wait"
  PROVE  IInv'
<1> USE DEF States, Kinds, Results, Places, InSpin, InPreemptionLock, LockKinds
<1>0. AnyMutex \in Mutexes
  BY ThreadsAssumption DEF AnyMutex
<1>d. depth = 1
  BY DEF IInv, TypeOK, Exclusion, UnlockPreemption, At
<1>1. TypeOK'
  <2>1. held' \in [Threads -> SUBSET Mutexes]
    BY DEF IInv, TypeOK, UnlockPreemption
  <2>2. Return(th) /\ depth' = 0 /\ UNCHANGED <<current, irqOn, now, state, sleepUntil, spin,
          locked, owner, blocking>>
    <3>a. depth' = depth - 1
      BY ZenonT(60) DEF UnlockPreemption
    <3>1. depth' = 0
      BY <1>d, <3>a, SMT
    <3>2. Return(th)
      BY ZenonT(60) DEF UnlockPreemption
    <3>3. UNCHANGED <<current, irqOn, now, state, sleepUntil, spin, locked, owner, blocking>>
      BY ZenonT(60) DEF UnlockPreemption, threadVars, mutexVars
    <3> QED BY ZenonT(60), <3>1, <3>2, <3>3
  <2>3. /\ pc' \in [Threads -> Places] /\ kind' \in [Threads -> Kinds] /\ mtx' \in [Threads -> Mutexes]
        /\ deadline' \in [Threads -> Nat] /\ seen' \in [Threads -> Nat] /\ ret' \in [Threads -> Results]
    BY ZenonT(60), <1>0, <2>2 DEF IInv, TypeOK, Return, Goto
  <2> QED BY ZenonT(60), <2>1, <2>2, <2>3 DEF IInv, TypeOK
<1>2. /\ current = th /\ pc[th] = "leave" /\ depth' = 0
      /\ kind'[th] = "none" /\ ret'[th] = "none" /\ pc'[th] = "idle" /\ mtx'[th] \in Mutexes
      /\ seen'[th] = 0 /\ deadline'[th] = 0
      /\ held'[th] = IF ret[th] = "success" THEN held[th] \cup {mtx[th]} ELSE held[th]
      /\ UNCHANGED <<current, irqOn, now, spin, state>>
      /\ UNCHANGED <<locked, owner, blocking>>
  BY ZenonT(60), <1>0, <1>d, SMTT(30) DEF IInv, TypeOK, UnlockPreemption, Return, At, Goto, CallUnchanged,
         cpuVars, threadVars, mutexVars, callVars
<1>3. Others(th) /\ Scheduled(th)
  BY SMTT(30), SMTT(45), SMTT(60), <1>0, <1>d DEF IInv, TypeOK, Others, Scheduled, UnlockPreemption, Return, At,
         Goto, CallUnchanged, cpuVars, threadVars, mutexVars, callVars
<1>4. OfThread(th) /\ TypeOK
  BY EachThread DEF IInv
<1>5. Exclusion'
  BY ZenonT(60), <1>2, <1>3, <1>4 DEF IInv, TypeOK, Exclusion, Others
<1>6. CallShapeOf(th)'
  BY ZenonT(60), <1>2, <1>4 DEF OfThread, CallShapeOf, Expired
<1>7. OwnershipOf(th)'
  <2>1. ~Asking(th)' /\ ~Releasing(th)' /\ ~Taken(th)' /\ ~Releasing(th)
    BY <1>2 DEF Asking, Releasing, Taken
  <2>2. held[th] \subseteq Mutexes /\ mtx[th] \in Mutexes
    BY <1>4 DEF TypeOK
  <2>3. \A m \in Mutexes : owner[m] = th <=> m \in held'[th]
    <3>1. CASE ret[th] = "success"
      BY ZenonT(60), <1>2, <1>4, <2>1, <2>2, <3>1 DEF OfThread, OwnershipOf, Taken
    <3>2. CASE ret[th] # "success"
      BY <1>2, <1>4, <2>1, <2>2, <3>2 DEF OfThread, OwnershipOf, Taken
    <3> QED BY <3>1, <3>2
  <2>4. held'[th] \subseteq Mutexes
    BY <1>2, <2>2
  <2>5. pc'[th] = "idle" /\ owner' = owner
    BY <1>2
  <2> QED BY ZenonT(60), <2>1, <2>3, <2>4, <2>5 DEF OwnershipOf
<1>8. KeepsClaims(th)
  BY ZenonT(60), <1>2, <1>4 DEF OfThread, CallShapeOf, KeepsClaims, Claimant, InLoop
<1>9. NotRunningOf(th)'
  BY ZenonT(60), <1>2, <1>4 DEF OfThread, CallShapeOf, NotRunningOf, InLoop
<1>10. seen'[th] <= now' /\ now' >= now
  <2>1. seen[th] \in Nat /\ now \in Nat /\ seen[th] <= now
    BY <1>4 DEF TypeOK, OfThread
  <2>2. seen'[th] = 0 /\ now' = now
    BY <1>2
  <2> QED BY <2>1, <2>2
<1> QED BY <1>1, <1>2, <1>3, <1>5, <1>6, <1>7, <1>8, <1>9, <1>10, LocalStep DEF OfThread

\* What a reschedule may do: it wakes expired sleepers, stops nobody that runs,
\* and moves the CPU only to a runnable thread.
LEMMA Rescheduled ==
  ASSUME TypeOK, Reschedule
  PROVE  /\ current' \in Threads
         /\ state' \in [Threads -> States]
         /\ sleepUntil' \in [Threads -> Nat]
         /\ \A w \in Threads : state'[w] = "running" \/ state'[w] = state[w]
         /\ current' = current \/ state'[current'] = "running"
<1>1. /\ state' = update_runnable_state
      /\ sleepUntil' = [th \in Threads |-> IF WakeExpired(th) THEN 0 ELSE sleepUntil[th]]
      /\ current' = current \/ current' \in Runnable
  BY DEF Reschedule, SwitchTo
<1>2. /\ current' \in Threads
      /\ current' = current \/ state'[current'] = "running"
  BY <1>1 DEF Runnable, TypeOK
<1>3. /\ state' \in [Threads -> States]
      /\ \A w \in Threads : state'[w] = "running" \/ state'[w] = state[w]
  BY <1>1 DEF update_runnable_state, TypeOK, States
<1>4. sleepUntil' \in [Threads -> Nat]
  BY <1>1 DEF TypeOK
<1> QED BY <1>2, <1>3, <1>4

\* The timer interrupt reschedules.
LEMMA Keep_preempt_isr ==
  ASSUME IInv, NEW w \in Threads, w = current, preempt_isr
  PROVE  IInv'
<1> USE DEF States, Kinds, Results, Places, InSpin, InPreemptionLock, LockKinds
<1>0. /\ current' \in Threads /\ state' \in [Threads -> States] /\ sleepUntil' \in [Threads -> Nat]
      /\ \A v \in Threads : state'[v] = "running" \/ state'[v] = state[v]
      /\ current' = current \/ state'[current'] = "running"
  BY Rescheduled DEF IInv, preempt_isr
<1>1. TypeOK'
  BY ZenonT(60), <1>0 DEF IInv, TypeOK, preempt_isr, At, Goto, CallUnchanged, cpuVars, threadVars, mutexVars,
         callVars
<1>2. /\ current \in Threads /\ depth = 0
      /\ UNCHANGED <<depth, irqOn, now, spin, pc, kind, mtx, deadline, seen, ret, held>>
      /\ (state'[w] = "running" \/ state'[w] = state[w])
      /\ (current' = current \/ state'[current'] = "running")
      /\ UNCHANGED <<locked, owner, blocking>>
  BY <1>0 DEF IInv, TypeOK, preempt_isr, At, Goto, CallUnchanged, cpuVars, threadVars, mutexVars,
         callVars
<1>3. Others(w) /\ Scheduled(w)
  BY <1>0 DEF IInv, TypeOK, Others, Scheduled, preempt_isr, At, Goto, CallUnchanged, cpuVars,
         threadVars, mutexVars, callVars
<1>4. OfThread(w) /\ TypeOK
  BY EachThread DEF IInv
<1>5. Exclusion'
  <2>1. \A v \in Threads : pc[v] \notin InPreemptionLock
    BY SMTT(30), SMTT(45), SMTT(60), <1>2, <1>4 DEF IInv, TypeOK, Exclusion
  <2>2. \A v \in Threads : pc'[v] \notin InPreemptionLock
    BY <1>2, <1>3, <2>1 DEF Others
  <2>3. depth = 0 /\ irqOn = TRUE /\ \A m \in Mutexes : spin[m] = FALSE
    BY ZenonT(60), <1>4, <2>1 DEF IInv, TypeOK, Exclusion
  <2> QED BY ZenonT(60), <1>0, <1>2, <2>2, <2>3 DEF Exclusion
<1>6. CallShapeOf(w)'
  BY ZenonT(60), <1>2, <1>4 DEF OfThread, CallShapeOf, Expired
<1>7. OwnershipOf(w)'
  BY ZenonT(60), <1>2, <1>4 DEF TypeOK, OfThread, CallShapeOf, OwnershipOf, Asking, Releasing, Taken
<1>8. KeepsClaims(w)
  BY ZenonT(60), <1>2, <1>4 DEF OfThread, CallShapeOf, KeepsClaims, Claimant, InLoop
<1>9. NotRunningOf(w)'
  BY ZenonT(60), <1>2, <1>4 DEF OfThread, CallShapeOf, NotRunningOf, InLoop
<1>10. seen'[w] <= now' /\ now' >= now
  <2>1. seen[w] \in Nat /\ now \in Nat /\ seen[w] <= now
    BY <1>4 DEF TypeOK, OfThread
  <2>2. seen'[w] = seen[w] /\ now' = now
    BY <1>2
  <2> QED BY <2>1, <2>2
<1> QED BY ZenonT(60), <1>1, <1>2, <1>3, <1>5, <1>6, <1>7, <1>8, <1>9, <1>10, LocalStep DEF OfThread

\* The clock moves on; w is any thread.
LEMMA Keep_Tick ==
  ASSUME IInv, NEW w \in Threads, Tick
  PROVE  IInv'
<1> USE DEF States, Kinds, Results, Places, InSpin, InPreemptionLock, LockKinds
<1>1. TypeOK'
  BY SMTT(30), SMTT(45), SMTT(60) DEF IInv, TypeOK, Exclusion, Tick, At, Goto, CallUnchanged, cpuVars, threadVars, mutexVars,
         callVars
<1>2. /\ now' = now + 1
      /\ UNCHANGED <<current, depth, irqOn, spin, state, pc, kind, mtx, deadline, seen, ret, held>>
      /\ UNCHANGED <<locked, owner, blocking>>
  BY DEF IInv, TypeOK, Tick, At, Goto, CallUnchanged, cpuVars, threadVars, mutexVars, callVars
<1>3. Others(w) /\ Scheduled(w)
  BY DEF IInv, TypeOK, Others, Scheduled, Tick, At, Goto, CallUnchanged, cpuVars, threadVars,
         mutexVars, callVars
<1>4. OfThread(w) /\ TypeOK
  BY EachThread DEF IInv
<1>5. Exclusion'
  BY ZenonT(60), <1>2, <1>3, <1>4 DEF IInv, TypeOK, Exclusion, Others
<1>6. CallShapeOf(w)'
  BY ZenonT(60), <1>2, <1>4 DEF OfThread, CallShapeOf, Expired
<1>7. OwnershipOf(w)'
  BY ZenonT(60), <1>2, <1>4 DEF TypeOK, OfThread, CallShapeOf, OwnershipOf, Asking, Releasing, Taken
<1>8. KeepsClaims(w)
  BY ZenonT(60), <1>2, <1>4 DEF OfThread, CallShapeOf, KeepsClaims, Claimant, InLoop
<1>9. NotRunningOf(w)'
  BY ZenonT(60), <1>2, <1>4 DEF OfThread, CallShapeOf, NotRunningOf, InLoop
<1>10. seen'[w] <= now' /\ now' >= now
  <2>1. seen[w] \in Nat /\ now \in Nat /\ seen[w] <= now
    BY <1>4 DEF TypeOK, OfThread
  <2>2. seen'[w] = seen[w] /\ now' = now + 1
    BY <1>2
  <2> QED BY <2>1, <2>2
<1> QED BY ZenonT(60), <1>1, <1>2, <1>3, <1>5, <1>6, <1>7, <1>8, <1>9, <1>10, LocalStep DEF OfThread

\* A waiter yields.
LEMMA Keep_Yield ==
  ASSUME IInv, NEW th \in Threads, Yield(th)
  PROVE  IInv'
<1> USE DEF States, Kinds, Results, Places, InSpin, InPreemptionLock, LockKinds
<1>0. /\ current' \in Threads /\ state' \in [Threads -> States] /\ sleepUntil' \in [Threads -> Nat]
      /\ \A w \in Threads : state'[w] = "running" \/ state'[w] = state[w]
      /\ current' = current \/ state'[current'] = "running"
  BY Rescheduled DEF IInv, Yield
<1>1. TypeOK'
  BY ZenonT(60), <1>0
     DEF IInv, TypeOK, Yield, At, Goto, CallUnchanged, cpuVars, threadVars, mutexVars, callVars
<1>2. /\ current = th /\ pc[th] = "yield" /\ pc'[th] = "loop"
      /\ UNCHANGED <<depth, irqOn, now, spin, kind, mtx, deadline, seen, ret, held>>
      /\ (state'[th] = "running" \/ state'[th] = state[th])
      /\ (current' = current \/ state'[current'] = "running")
      /\ UNCHANGED <<locked, owner, blocking>>
  BY ZenonT(60), <1>0 DEF IInv, TypeOK, Yield, At, Goto, CallUnchanged, cpuVars, threadVars, mutexVars, callVars
<1>3. Others(th) /\ Scheduled(th)
  BY ZenonT(60), <1>0 DEF IInv, TypeOK, Others, Scheduled, Yield, At, Goto, CallUnchanged,
         cpuVars, threadVars, mutexVars, callVars
<1>4. OfThread(th) /\ TypeOK
  BY EachThread DEF IInv
<1>5. Exclusion'
  <2>1. \A w \in Threads : pc[w] \notin InPreemptionLock
    BY ZenonT(60), <1>2, <1>4 DEF IInv, TypeOK, Exclusion
  <2>2. \A w \in Threads : pc'[w] \notin InPreemptionLock
    BY ZenonT(60), <1>2, <1>3, <2>1 DEF Others
  <2>3. depth = 0 /\ irqOn = TRUE /\ \A m \in Mutexes : spin[m] = FALSE
    BY ZenonT(60), <1>4, <2>1 DEF IInv, TypeOK, Exclusion
  <2> QED BY ZenonT(60), <1>0, <1>2, <2>2, <2>3 DEF Exclusion
<1>6. CallShapeOf(th)'
  BY ZenonT(60), <1>2, <1>4 DEF OfThread, CallShapeOf, Expired
<1>7. OwnershipOf(th)'
  BY ZenonT(60), <1>2, <1>4 DEF TypeOK, OfThread, CallShapeOf, OwnershipOf, Asking, Releasing, Taken
<1>8. KeepsClaims(th)
  BY ZenonT(60), <1>2, <1>4 DEF OfThread, CallShapeOf, KeepsClaims, Claimant, InLoop
<1>9. NotRunningOf(th)'
  BY ZenonT(60), <1>2, <1>4 DEF OfThread, CallShapeOf, NotRunningOf, InLoop
<1>10. seen'[th] <= now' /\ now' >= now
  <2>1. seen[th] \in Nat /\ now \in Nat /\ seen[th] <= now
    BY <1>4 DEF TypeOK, OfThread
  <2>2. seen'[th] = seen[th] /\ now' = now
    BY ZenonT(60), <1>2
  <2> QED BY <2>1, <2>2
<1> QED BY ZenonT(60), <1>1, <1>2, <1>3, <1>5, <1>6, <1>7, <1>8, <1>9, <1>10, LocalStep DEF OfThread

\* A thread goes to sleep.
LEMMA Keep_Sleep ==
  ASSUME IInv, NEW th \in Threads, StThread_Sleep(th)
  PROVE  IInv'
<1> USE DEF States, Kinds, Results, Places, InSpin, InPreemptionLock, LockKinds
<1>1. TypeOK'
  <2>1. PICK t \in Timeouts :
          /\ deadline' = [deadline EXCEPT ![th] = now + t]
          /\ sleepUntil' = [sleepUntil EXCEPT ![th] = now + t]
    BY ZenonT(60) DEF StThread_Sleep
  <2>2. now + t \in Nat
    BY TimeAssumption DEF IInv, TypeOK
  <2> QED BY <2>1, <2>2 DEF IInv, TypeOK, StThread_Sleep, At, Goto, CallUnchanged, cpuVars,
                 threadVars, mutexVars, callVars
<1>2. /\ current = th /\ pc[th] = "idle" /\ pc'[th] = "sleep" /\ kind'[th] = "sleep" /\ state'[th] = "sleeping"
      /\ UNCHANGED <<current, depth, irqOn, now, spin, mtx, seen, ret, held>>
      /\ UNCHANGED <<locked, owner, blocking>>
  BY DEF IInv, TypeOK, StThread_Sleep, At, Goto, CallUnchanged, cpuVars, threadVars, mutexVars,
         callVars
<1>3. Others(th) /\ Scheduled(th)
  BY ZenonT(60) DEF IInv, TypeOK, Others, Scheduled, StThread_Sleep, At, Goto, CallUnchanged, cpuVars,
         threadVars, mutexVars, callVars
<1>4. OfThread(th) /\ TypeOK
  BY EachThread DEF IInv
<1>5. Exclusion'
  BY ZenonT(60), <1>2, <1>3, <1>4 DEF IInv, TypeOK, Exclusion, Others
<1>6. CallShapeOf(th)'
  BY ZenonT(60), <1>2, <1>4 DEF OfThread, CallShapeOf, Expired
<1>7. OwnershipOf(th)'
  BY ZenonT(60), <1>2, <1>4 DEF TypeOK, OfThread, CallShapeOf, OwnershipOf, Asking, Releasing, Taken
<1>8. KeepsClaims(th)
  BY <1>2, <1>4 DEF OfThread, CallShapeOf, KeepsClaims, Claimant, InLoop
<1>9. NotRunningOf(th)'
  BY <1>2, <1>4 DEF OfThread, CallShapeOf, NotRunningOf, InLoop
<1>10. seen'[th] <= now' /\ now' >= now
  <2>1. seen[th] \in Nat /\ now \in Nat /\ seen[th] <= now
    BY <1>4 DEF TypeOK, OfThread
  <2>2. seen'[th] = seen[th] /\ now' = now
    BY ZenonT(60), <1>2
  <2> QED BY <2>1, <2>2
<1> QED BY ZenonT(60), <1>1, <1>2, <1>3, <1>5, <1>6, <1>7, <1>8, <1>9, <1>10, LocalStep DEF OfThread

\* The sleeper finds that a scan has woken it.
LEMMA Keep_SleepLoop_Awake ==
  ASSUME IInv, NEW th \in Threads, At(th, "sleep"), state[th] # "sleeping",
         Return(th), UNCHANGED <<current, threadVars>>, UNCHANGED <<depth, irqOn, now, mutexVars, held>>
  PROVE  IInv'
<1> USE DEF States, Kinds, Results, Places, InSpin, InPreemptionLock, LockKinds
<1>0. AnyMutex \in Mutexes
  BY ThreadsAssumption DEF AnyMutex
<1>a. state'[th] = "running"
  BY ZenonT(60) DEF IInv, TypeOK, At, threadVars, NotRunning, NotRunningOf, InLoop
<1>1. TypeOK'
  BY SMTT(30), SMTT(45), SMTT(60), <1>0, <1>a
     DEF IInv, TypeOK, Return, At, Goto, CallUnchanged, cpuVars, threadVars, mutexVars, callVars
<1>2. /\ current = th /\ pc[th] = "sleep" /\ state'[th] = "running"
      /\ kind'[th] = "none" /\ ret'[th] = "none" /\ pc'[th] = "idle" /\ mtx'[th] \in Mutexes
      /\ seen'[th] = 0 /\ deadline'[th] = 0
      /\ UNCHANGED <<current, depth, irqOn, now, spin, held>>
      /\ UNCHANGED <<locked, owner, blocking>>
  BY <1>0, <1>a
     DEF IInv, TypeOK, Return, At, Goto, CallUnchanged, cpuVars, threadVars, mutexVars, callVars
<1>3. Others(th) /\ Scheduled(th)
  BY <1>0 DEF IInv, TypeOK, Others, Scheduled, Return, At, Goto, CallUnchanged, cpuVars,
         threadVars, mutexVars, callVars
<1>4. OfThread(th) /\ TypeOK
  BY ZenonT(60), EachThread DEF IInv
<1>5. Exclusion'
  BY ZenonT(60), <1>2, <1>3, <1>4 DEF IInv, TypeOK, Exclusion, Others
<1>6. CallShapeOf(th)'
  BY ZenonT(60), <1>2, <1>4 DEF OfThread, CallShapeOf, Expired
<1>7. OwnershipOf(th)'
  BY ZenonT(60), <1>2, <1>4 DEF TypeOK, OfThread, CallShapeOf, OwnershipOf, Asking, Releasing, Taken
<1>8. KeepsClaims(th)
  BY ZenonT(60), <1>2, <1>4 DEF OfThread, CallShapeOf, KeepsClaims, Claimant, InLoop
<1>9. NotRunningOf(th)'
  BY <1>2, <1>4 DEF OfThread, CallShapeOf, NotRunningOf, InLoop
<1>10. seen'[th] <= now' /\ now' >= now
  <2>1. seen[th] \in Nat /\ now \in Nat /\ seen[th] <= now
    BY <1>4 DEF TypeOK, OfThread
  <2>2. seen'[th] = 0 /\ now' = now
    BY ZenonT(60), <1>2
  <2> QED BY <2>1, <2>2
<1> QED BY <1>1, <1>2, <1>3, <1>5, <1>6, <1>7, <1>8, <1>9, <1>10, LocalStep DEF OfThread

\* The sleeper finds its own deadline passed.
LEMMA Keep_SleepLoop_Expired ==
  ASSUME IInv, NEW th \in Threads, At(th, "sleep"),
         state' = [state EXCEPT ![th] = "running"], sleepUntil' = [sleepUntil EXCEPT ![th] = 0],
         Return(th), UNCHANGED current, UNCHANGED <<depth, irqOn, now, mutexVars, held>>
  PROVE  IInv'
<1> USE DEF States, Kinds, Results, Places, InSpin, InPreemptionLock, LockKinds
<1>0. AnyMutex \in Mutexes
  BY ThreadsAssumption DEF AnyMutex
<1>a. state'[th] = "running"
  BY DEF IInv, TypeOK, At, threadVars, NotRunning, NotRunningOf, InLoop
<1>1. TypeOK'
  BY <1>0, <1>a
     DEF IInv, TypeOK, Return, At, Goto, CallUnchanged, cpuVars, threadVars, mutexVars, callVars
<1>2. /\ current = th /\ pc[th] = "sleep" /\ state'[th] = "running"
      /\ kind'[th] = "none" /\ ret'[th] = "none" /\ pc'[th] = "idle" /\ mtx'[th] \in Mutexes
      /\ seen'[th] = 0 /\ deadline'[th] = 0
      /\ UNCHANGED <<current, depth, irqOn, now, spin, held>>
      /\ UNCHANGED <<locked, owner, blocking>>
  BY ZenonT(60), <1>0, <1>a
     DEF IInv, TypeOK, Return, At, Goto, CallUnchanged, cpuVars, threadVars, mutexVars, callVars
<1>3. Others(th) /\ Scheduled(th)
  BY <1>0 DEF IInv, TypeOK, Others, Scheduled, Return, At, Goto, CallUnchanged, cpuVars,
         threadVars, mutexVars, callVars
<1>4. OfThread(th) /\ TypeOK
  BY ZenonT(60), EachThread DEF IInv
<1>5. Exclusion'
  BY <1>2, <1>3, <1>4 DEF IInv, TypeOK, Exclusion, Others
<1>6. CallShapeOf(th)'
  BY ZenonT(60), <1>2, <1>4 DEF OfThread, CallShapeOf, Expired
<1>7. OwnershipOf(th)'
  BY ZenonT(60), <1>2, <1>4 DEF TypeOK, OfThread, CallShapeOf, OwnershipOf, Asking, Releasing, Taken
<1>8. KeepsClaims(th)
  BY ZenonT(60), <1>2, <1>4 DEF OfThread, CallShapeOf, KeepsClaims, Claimant, InLoop
<1>9. NotRunningOf(th)'
  BY ZenonT(60), <1>2, <1>4 DEF OfThread, CallShapeOf, NotRunningOf, InLoop
<1>10. seen'[th] <= now' /\ now' >= now
  <2>1. seen[th] \in Nat /\ now \in Nat /\ seen[th] <= now
    BY <1>4 DEF TypeOK, OfThread
  <2>2. seen'[th] = 0 /\ now' = now
    BY ZenonT(60), <1>2
  <2> QED BY <2>1, <2>2
<1> QED BY <1>1, <1>2, <1>3, <1>5, <1>6, <1>7, <1>8, <1>9, <1>10, LocalStep DEF OfThread

\* The sleeper gives up the CPU.
LEMMA Keep_SleepLoop_Again ==
  ASSUME IInv, NEW th \in Threads, At(th, "sleep"), Reschedule,
         UNCHANGED <<pc, kind, mtx, deadline, seen, ret>>, UNCHANGED <<depth, irqOn, now, mutexVars, held>>
  PROVE  IInv'
<1> USE DEF States, Kinds, Results, Places, InSpin, InPreemptionLock, LockKinds
<1>0. /\ current' \in Threads /\ state' \in [Threads -> States] /\ sleepUntil' \in [Threads -> Nat]
      /\ \A w \in Threads : state'[w] = "running" \/ state'[w] = state[w]
      /\ current' = current \/ state'[current'] = "running"
  BY Rescheduled DEF IInv, At
<1>1. TypeOK'
  BY ZenonT(60), <1>0
     DEF IInv, TypeOK, At, Goto, CallUnchanged, cpuVars, threadVars, mutexVars, callVars
<1>2. /\ current = th /\ pc[th] = "sleep"
      /\ UNCHANGED <<depth, irqOn, now, spin, pc, kind, mtx, deadline, seen, ret, held>>
      /\ (state'[th] = "running" \/ state'[th] = state[th])
      /\ (current' = current \/ state'[current'] = "running")
      /\ UNCHANGED <<locked, owner, blocking>>
  BY <1>0 DEF IInv, TypeOK, At, Goto, CallUnchanged, cpuVars, threadVars, mutexVars, callVars
<1>3. Others(th) /\ Scheduled(th)
  BY <1>0 DEF IInv, TypeOK, Others, Scheduled, At, Goto, CallUnchanged, cpuVars, threadVars,
         mutexVars, callVars
<1>4. OfThread(th) /\ TypeOK
  BY EachThread DEF IInv
<1>5. Exclusion'
  <2>1. \A w \in Threads : pc[w] \notin InPreemptionLock
    BY <1>2, <1>4 DEF IInv, TypeOK, Exclusion
  <2>2. \A w \in Threads : pc'[w] \notin InPreemptionLock
    BY ZenonT(60), <1>2, <1>3, <2>1 DEF Others
  <2>3. depth = 0 /\ irqOn = TRUE /\ \A m \in Mutexes : spin[m] = FALSE
    BY ZenonT(60), <1>4, <2>1 DEF IInv, TypeOK, Exclusion
  <2> QED BY ZenonT(60), <1>0, <1>2, <2>2, <2>3 DEF Exclusion
<1>6. CallShapeOf(th)'
  BY ZenonT(60), <1>2, <1>4 DEF OfThread, CallShapeOf, Expired
<1>7. OwnershipOf(th)'
  BY <1>2, <1>4 DEF TypeOK, OfThread, CallShapeOf, OwnershipOf, Asking, Releasing, Taken
<1>8. KeepsClaims(th)
  BY ZenonT(60), <1>2, <1>4 DEF OfThread, CallShapeOf, KeepsClaims, Claimant, InLoop
<1>9. NotRunningOf(th)'
  BY ZenonT(60), <1>2, <1>4 DEF OfThread, CallShapeOf, NotRunningOf, InLoop
<1>10. seen'[th] <= now' /\ now' >= now
  <2>1. seen[th] \in Nat /\ now \in Nat /\ seen[th] <= now
    BY <1>4 DEF TypeOK, OfThread
  <2>2. seen'[th] = seen[th] /\ now' = now
    BY <1>2
  <2> QED BY <2>1, <2>2
<1> QED BY <1>1, <1>2, <1>3, <1>5, <1>6, <1>7, <1>8, <1>9, <1>10, LocalStep DEF OfThread

\* Nothing moves; w is any thread.
LEMMA Keep_Stutter ==
  ASSUME IInv, NEW w \in Threads, UNCHANGED vars
  PROVE  IInv'
<1> USE DEF States, Kinds, Results, Places, InSpin, InPreemptionLock, LockKinds
<1>1. TypeOK'
  BY ZenonT(60) DEF IInv, TypeOK, Exclusion, vars, At, Goto, CallUnchanged, cpuVars, threadVars,
         mutexVars, callVars
<1>2. /\ UNCHANGED <<current, depth, irqOn, now, spin, state, pc, kind, mtx, deadline, seen, ret, held>>
      /\ UNCHANGED <<locked, owner, blocking>>
  BY ZenonT(60) DEF IInv, TypeOK, vars, At, Goto, CallUnchanged, cpuVars, threadVars, mutexVars, callVars
<1>3. Others(w) /\ Scheduled(w)
  BY DEF IInv, TypeOK, Others, Scheduled, vars, At, Goto, CallUnchanged, cpuVars, threadVars,
         mutexVars, callVars
<1>4. OfThread(w) /\ TypeOK
  BY ZenonT(60), EachThread DEF IInv
<1>5. Exclusion'
  BY ZenonT(60), <1>2, <1>3, <1>4 DEF IInv, TypeOK, Exclusion, Others
<1>6. CallShapeOf(w)'
  BY ZenonT(60), <1>2, <1>4 DEF OfThread, CallShapeOf, Expired
<1>7. OwnershipOf(w)'
  BY ZenonT(60), <1>2, <1>4 DEF TypeOK, OfThread, CallShapeOf, OwnershipOf, Asking, Releasing, Taken
<1>8. KeepsClaims(w)
  BY ZenonT(60), <1>2, <1>4 DEF OfThread, CallShapeOf, KeepsClaims, Claimant, InLoop
<1>9. NotRunningOf(w)'
  BY <1>2, <1>4 DEF OfThread, CallShapeOf, NotRunningOf, InLoop
<1>10. seen'[w] <= now' /\ now' >= now
  <2>1. seen[w] \in Nat /\ now \in Nat /\ seen[w] <= now
    BY <1>4 DEF TypeOK, OfThread
  <2>2. seen'[w] = seen[w] /\ now' = now
    BY <1>2
  <2> QED BY <2>1, <2>2
<1> QED BY ZenonT(60), <1>1, <1>2, <1>3, <1>5, <1>6, <1>7, <1>8, <1>9, <1>10, LocalStep DEF OfThread

-----------------------------------------------------------------------------
(* The theorems.                                                           *)

\* The invariant holds initially.
LEMMA InitIInv == Init => IInv
<1> SUFFICES ASSUME Init PROVE IInv
  OBVIOUS
<1> USE DEF Init, States, Kinds, Results, Places, InSpin, InPreemptionLock, LockKinds
<1>1. AnyMutex \in Mutexes
  BY ThreadsAssumption DEF AnyMutex
<1>2. TypeOK
  BY <1>1 DEF TypeOK
<1>3. Exclusion
  BY ZenonT(60) DEF Exclusion
<1>4. CallShape /\ ClockOK /\ NotRunning /\ NoLostWakeup
  BY DEF CallShape, CallShapeOf, Expired, ClockOK, NotRunning, NotRunningOf, NoLostWakeup
<1>5. Ownership
  BY ThreadsAssumption, <1>1 DEF Ownership, OwnershipOf, Asking, Releasing, Taken
<1>6. WaitersAreWaiting
  BY DEF WaitersAreWaiting, NoDuplicates, Waiters
<1> QED BY <1>2, <1>3, <1>4, <1>5, <1>6 DEF IInv

\* It survives a step of the code: one case per action.
LEMMA KeepCodeStep ==
  ASSUME IInv, NEW th \in Threads, CodeStep(th)
  PROVE  IInv'
<1>1. CASE LockPreemption(th)
  BY <1>1, Keep_LockPreemption
<1>2. CASE LockAndSaveIrq(th)
  BY ZenonT(60), <1>2, Keep_LockAndSaveIrq
<1>3. CASE Test(th)
  BY <1>3, Keep_Test
<1>4. CASE Take(th)
  BY <1>4, Keep_Take
<1>5. CASE Expire(th)
  BY <1>5, Keep_Expire
<1>6. CASE Block(th)
  BY <1>6, Keep_Block
<1>7. CASE Clear(th)
  BY <1>7, Keep_Clear
<1>8. CASE unblock_blocking_thread(th)
  BY <1>8, Keep_unblock
<1>9. CASE UnlockAndRestoreIrq(th)
  BY <1>9, Keep_UnlockAndRestoreIrq
<1>10. CASE UnlockPreemption(th)
  BY <1>10, Keep_UnlockPreemption_Wait, Keep_UnlockPreemption_Return
<1>11. CASE Yield(th)
  BY <1>11, Keep_Yield
<1>12. CASE SleepLoop(th)
  BY <1>12, Keep_SleepLoop_Awake, Keep_SleepLoop_Expired, Keep_SleepLoop_Again DEF SleepLoop
<1> QED BY <1>1, <1>2, <1>3, <1>4, <1>5, <1>6, <1>7, <1>8, <1>9, <1>10, <1>11, <1>12 DEF CodeStep

\* And what the callers start.
LEMMA KeepCallerStep ==
  ASSUME IInv, NEW th \in Threads, CallerStep(th)
  PROVE  IInv'
<1>1. CASE StMutex_Lock(th)
  BY <1>1, Keep_Call DEF StMutex_Lock
<1>2. CASE StMutex_TryLock(th)
  BY <1>2, Keep_Call DEF StMutex_TryLock
<1>3. CASE StMutex_LockWithTimeout(th)
  <2>1. Timeouts \subseteq Nat
    BY TimeAssumption
  <2> QED BY <1>3, <2>1, Keep_Call DEF StMutex_LockWithTimeout
<1>4. CASE StMutex_Unlock(th)
  BY <1>4, Keep_Unlock
<1>5. CASE StThread_Sleep(th)
  BY <1>5, Keep_Sleep
<1> QED BY <1>1, <1>2, <1>3, <1>4, <1>5 DEF CallerStep

\* IInv is inductive.
LEMMA NextIInv == IInv /\ [Next]_vars => IInv'
<1> SUFFICES ASSUME IInv, [Next]_vars PROVE IInv'
  OBVIOUS
<1>0. current \in Threads
  BY DEF IInv, TypeOK
<1>1. CASE preempt_isr
  BY <1>0, <1>1, Keep_preempt_isr
<1>2. CASE Tick
  BY <1>0, <1>2, Keep_Tick
<1>3. CASE \E th \in Threads : CodeStep(th) \/ CallerStep(th)
  BY <1>3, KeepCodeStep, KeepCallerStep
<1>4. CASE UNCHANGED vars
  BY <1>0, <1>4, Keep_Stutter
<1> QED BY <1>1, <1>2, <1>3, <1>4 DEF Next

\* IInv is an invariant of the mutex code.
THEOREM Inductive == Spec => []IInv
  BY InitIInv, NextIInv, PTL DEF Spec

\* What IInv says of each state includes the invariants the runs check.
LEMMA IInvImplies ==
  IInv => TypeOK /\ OwnerHolds /\ WaitersAreWaiting /\ NoLostWakeup
<1> SUFFICES ASSUME IInv
             PROVE  TypeOK /\ OwnerHolds /\ WaitersAreWaiting /\ NoLostWakeup
  BY ZenonT(60)
<1>1. ASSUME NEW th \in Threads, NEW m \in held[th]
      PROVE  locked[m] /\ owner[m] = th
  BY ThreadsAssumption DEF IInv, TypeOK, Ownership, OwnershipOf
<1>2. ASSUME NEW th \in Threads, pc[th] = "clear"
      PROVE  owner[mtx[th]] = th
  BY ZenonT(60), <1>2 DEF IInv, CallShape, CallShapeOf, Ownership, OwnershipOf, Releasing
<1> QED BY <1>1, <1>2 DEF IInv, OwnerHolds

\* A thread outside a blocking call is RUNNING.
LEMMA IInvReturnsRunnable == IInv => ReturnsRunnable
  BY ZenonT(60) DEF IInv, NotRunning, NotRunningOf, InLoop, ReturnsRunnable

\* A thread about to spin finds the spinlock free.
LEMMA IInvSpinlockIsFree == IInv => SpinlockIsFree
  BY DEF IInv, TypeOK, Exclusion, InSpin, SpinlockIsFree, At

\* Mutual exclusion: whoever was told that it holds a mutex is its owner, for
\* any number of threads and mutexes and whatever the scheduler does.
THEOREM MutualExclusion == Spec => []OwnerHolds
  BY Inductive, IInvImplies, PTL

\* What every call leaves to the next: types kept (the preemption depth never
\* leaves {0, 1}), each undecided waiter once on the blocking list, every caller
\* RUNNING on return, and nobody spinning on mtx->state_lock with interrupts off.
THEOREM CallsLeaveSound == Spec => []CallsSound
<1>1. IInv => CallsSound
  BY IInvImplies, IInvReturnsRunnable, IInvSpinlockIsFree DEF CallsSound
<1> QED BY <1>1, Inductive, PTL

\* A free mutex with waiters has a thread on its way to it: neither Unlock
\* nor a timeout loses the wake-up.
THEOREM WakeupKept == Spec => []NoLostWakeup
  BY Inductive, IInvImplies, PTL

\* Only Expire makes the outcome of a call "expired".
LEMMA OnlyExpire ==
  ASSUME TypeOK, Next, NEW w \in Threads, ret'[w] = "expired", ret[w] # "expired"
  PROVE  Expire(w)
<1> USE DEF TypeOK, Return, CallUnchanged, callVars
<1>1. CASE preempt_isr \/ Tick
  BY ZenonT(60), <1>1 DEF preempt_isr, Tick
<1>2. ASSUME NEW th \in Threads, CallerStep(th)
      PROVE  FALSE
  BY SMTT(30), SMTT(45), SMTT(60), <1>2 DEF CallerStep, StMutex_Lock, StMutex_TryLock, StMutex_LockWithTimeout, Call,
              StMutex_Unlock, StThread_Sleep
<1>3. ASSUME NEW th \in Threads, CodeStep(th)
      PROVE  Expire(w)
  <2>1. CASE LockPreemption(th) \/ LockAndSaveIrq(th) \/ UnlockAndRestoreIrq(th) \/ Yield(th)
    BY ZenonT(60), <2>1 DEF LockPreemption, LockAndSaveIrq, UnlockAndRestoreIrq, Yield
  <2>2. CASE Test(th)
    BY ZenonT(60), <2>2 DEF Test, Decide
  <2>3. CASE Take(th) \/ Block(th) \/ Clear(th)
    BY ZenonT(60), <2>3 DEF Take, Block, Clear
  <2>4. CASE Expire(th)
    <3>1. w = th
      BY ZenonT(60), <2>4 DEF Expire
    <3> QED BY <2>4, <3>1
  <2>5. CASE unblock_blocking_thread(th)
    BY ZenonT(60), <2>5 DEF unblock_blocking_thread, Unblock
  <2>6. CASE UnlockPreemption(th)
    BY ZenonT(60), <2>6 DEF UnlockPreemption
  <2>7. CASE SleepLoop(th)
    BY SMTT(30), SMTT(45), SMTT(60), <2>7 DEF SleepLoop
  <2> QED BY ZenonT(60), <1>3, <2>1, <2>2, <2>3, <2>4, <2>5, <2>6, <2>7 DEF CodeStep
<1> QED BY ZenonT(60), <1>1, <1>2, <1>3 DEF Next

\* A step that reports an expiry starts from a state that justifies it.
LEMMA ExpiryStep ==
  ASSUME IInv, [Next]_vars, NEW th \in Threads, ret'[th] = "expired", ret[th] # "expired"
  PROVE  now >= deadline[th] /\ locked[mtx[th]] /\ owner[mtx[th]] # th
<1>1. Expire(th)
  BY ZenonT(60), OnlyExpire DEF IInv, vars, callVars
<1>2. pc[th] = "expire"
  BY <1>1 DEF Expire, At
<1>3. Expired(th) /\ locked[mtx[th]] /\ owner[mtx[th]] # th
  BY ZenonT(60), <1>2 DEF IInv, CallShape, CallShapeOf, Ownership, OwnershipOf, Asking, Expired
<1> QED BY <1>3 DEF IInv, TypeOK, ClockOK, Expired

\* StMutex_LockWithTimeout reports TIMER_EXPIRED only past its deadline, with
\* the mutex in another thread's hands.
THEOREM ExpiryHonest == Spec => ExpiryIsHonest
<1>1. IInv /\ [Next]_vars =>
        [\A th \in Threads :
           ret'[th] = "expired" /\ ret[th] # "expired"
             => now >= deadline[th] /\ locked[mtx[th]] /\ owner[mtx[th]] # th]_vars
  BY ExpiryStep
<1> QED BY <1>1, Inductive, PTL DEF Spec, ExpiryIsHonest

-----------------------------------------------------------------------------
(* Module Mutex implements module Lock.                                    *)

\* The inductive invariant of Mutex_proofs says who owns what; the mapping also
\* needs that a call carries no outcome before it has been decided, and that
\* nothing of a call is left outside of it.
OpenOf(th) ==
  /\ pc[th] \notin {"wake", "unspin", "leave"} => ret[th] \in {"none", "wait"}
  /\ kind[th] \in {"none", "sleep"} => mtx[th] = AnyMutex /\ ret[th] = "none"
Open == \A th \in Threads : OpenOf(th)

RInv == IInv /\ Open

LEMMA InitRInv == Init => RInv
<1> SUFFICES ASSUME Init PROVE RInv
  OBVIOUS
<1>1. IInv
  BY InitIInv
<1>2. Open
  BY DEF Init, Open, OpenOf
<1> QED
  BY <1>1, <1>2 DEF RInv

\* A step that changes the call of at most one thread keeps Open if it keeps it
\* for that thread.
LEMMA OpenOfOthers ==
  ASSUME Open, NEW th \in Threads, OpenOf(th)',
         \A w \in Threads \ {th} :
            pc'[w] = pc[w] /\ kind'[w] = kind[w] /\ mtx'[w] = mtx[w] /\ ret'[w] = ret[w]
  PROVE  Open'
BY ZenonT(60) DEF Open, OpenOf

LEMMA OpenCaller ==
  ASSUME RInv, NEW th \in Threads, CallerStep(th)
  PROVE  Open'
<1> USE DEF RInv, IInv, TypeOK
<1>1. OpenOf(th)
  BY ZenonT(60) DEF Open
<1>2. ASSUME NEW k \in {"lock", "try", "timed"}, NEW m \in Mutexes, NEW t, Call(th, k, m, t)
      PROVE  Open'
  BY ZenonT(60), <1>1, <1>2, OpenOfOthers DEF Call, At, Goto, OpenOf
<1>3. CASE StMutex_Unlock(th)
  BY ZenonT(60), <1>1, <1>3, OpenOfOthers DEF StMutex_Unlock, At, Goto, OpenOf
<1>4. CASE StThread_Sleep(th)
  <2>1. kind[th] = "none"
    BY ZenonT(60), <1>4 DEF StThread_Sleep, At, CallShape, CallShapeOf
  <2> QED
    BY ZenonT(60), <1>1, <1>4, <2>1, OpenOfOthers DEF StThread_Sleep, At, Goto, OpenOf
<1> QED
  BY ZenonT(60), <1>2, <1>3, <1>4 DEF CallerStep, StMutex_Lock, StMutex_TryLock, StMutex_LockWithTimeout

LEMMA OpenCode ==
  ASSUME RInv, NEW th \in Threads, CodeStep(th)
  PROVE  Open'
<1> USE DEF RInv, IInv, TypeOK
<1>0. OpenOf(th) /\ CallShapeOf(th)
  BY DEF Open, CallShape
<1>1. CASE LockPreemption(th) \/ LockAndSaveIrq(th) \/ UnlockAndRestoreIrq(th) \/ Yield(th)
  BY ZenonT(60), <1>0, <1>1, OpenOfOthers
  DEF LockPreemption, LockAndSaveIrq, UnlockAndRestoreIrq, Yield, CallUnchanged, At, Goto, OpenOf
<1>2. CASE Test(th)
  BY ZenonT(60), <1>0, <1>2, OpenOfOthers DEF Test, Decide, At, Goto, OpenOf, CallShapeOf
<1>3. CASE Take(th) \/ Expire(th) \/ Block(th) \/ Clear(th)
  BY ZenonT(60), <1>0, <1>3, OpenOfOthers
  DEF Take, Expire, Block, Clear, At, Goto, OpenOf, CallShapeOf, Expired, LockKinds
<1>4. CASE unblock_blocking_thread(th)
  BY ZenonT(60), <1>0, <1>4, OpenOfOthers
     DEF unblock_blocking_thread, Unblock, CallUnchanged, At, Goto, OpenOf
<1>5. CASE UnlockPreemption(th)
  BY <1>0, <1>5, OpenOfOthers DEF UnlockPreemption, Return, At, Goto, OpenOf
<1>6. CASE SleepLoop(th)
  BY SMTT(30), SMTT(45), SMTT(60), <1>0, <1>6, OpenOfOthers DEF SleepLoop, Return, At, Goto, OpenOf
<1> QED
  BY ZenonT(60), <1>1, <1>2, <1>3, <1>4, <1>5, <1>6 DEF CodeStep

LEMMA NextRInv == RInv /\ [Next]_vars => RInv'
<1> SUFFICES ASSUME RInv, [Next]_vars PROVE Open'
  BY NextIInv DEF RInv
<1>1. CASE preempt_isr \/ Tick \/ UNCHANGED vars
  BY ZenonT(60), <1>1 DEF preempt_isr, Tick, vars, callVars, RInv, Open, OpenOf
<1>2. CASE \E th \in Threads : CodeStep(th) \/ CallerStep(th)
  BY ZenonT(60), <1>2, OpenCode, OpenCaller
<1> QED
  BY <1>1, <1>2 DEF Next

-------------------------------------------------------------------------------
(* Every step is a step of the lock, or none.                                 *)

Op == [w \in Threads |-> IF kind[w] = "sleep" THEN "none" ELSE kind[w]]
Done == [w \in Threads |-> Outcome(w)]

LEMMA Begins ==
  ASSUME RInv, NEW th \in Threads, CallerStep(th)
  PROVE  [Service!LockNext]_(Service!lockVars)
<1> USE DEF RInv, IInv, TypeOK
<1>0. CallShapeOf(th) /\ OpenOf(th)
  BY ZenonT(60) DEF CallShape, Open
<1>1. ASSUME NEW k \in {"lock", "try", "timed"}, NEW m \in Mutexes, NEW t, Call(th, k, m, t)
      PROVE  Service!Begin(th, k, m)
  <2>1. kind[th] = "none"
    BY ZenonT(60), <1>0, <1>1 DEF Call, At, CallShapeOf
  <2>2. Op' = [Op EXCEPT ![th] = k] /\ Op[th] = "none"
    BY ZenonT(60), <1>1, <2>1 DEF Call, Op
  <2>3. Done' = Done
    BY ZenonT(60), <1>1 DEF Call, Done, Outcome
  <2>4. held' = [held EXCEPT ![th] = @ \ {m}] /\ m \notin held[th] /\ UNCHANGED owner
    BY ZenonT(60), <1>1 DEF Call, mutexVars
  <2>5. mtx' = [mtx EXCEPT ![th] = m]
    BY ZenonT(60), <1>1 DEF Call
  <2> QED
    BY <2>2, <2>3, <2>4, <2>5 DEF Service!Begin, Op, Done
<1>2. CASE StMutex_Unlock(th)
  <2>1. kind[th] = "none"
    BY <1>0, <1>2 DEF StMutex_Unlock, At, CallShapeOf
  <2>2. PICK m \in held[th] :
          /\ kind' = [kind EXCEPT ![th] = "unlock"]
          /\ mtx' = [mtx EXCEPT ![th] = m]
          /\ held' = [held EXCEPT ![th] = @ \ {m}]
    BY ZenonT(60), <1>2 DEF StMutex_Unlock
  <2>3. Op' = [Op EXCEPT ![th] = "unlock"] /\ Op[th] = "none"
    BY ZenonT(60), <2>1, <2>2 DEF Op
  <2>4. Done' = Done /\ UNCHANGED owner
    BY ZenonT(60), <1>2 DEF StMutex_Unlock, Done, Outcome, mutexVars
  <2>5. Service!Begin(th, "unlock", m) /\ m \in Mutexes
    BY ZenonT(60), <2>2, <2>3, <2>4 DEF Service!Begin, Op, Done
  <2> QED
    BY ZenonT(60), <2>5 DEF Service!LockNext
<1>3. CASE StThread_Sleep(th)
  <2>1. kind[th] = "none"
    BY ZenonT(60), <1>0, <1>3 DEF StThread_Sleep, At, CallShapeOf
  <2>2. Op' = Op /\ Done' = Done /\ UNCHANGED <<owner, held, mtx>>
    BY SMTT(30), SMTT(45), SMTT(60), <1>3, <2>1 DEF StThread_Sleep, Op, Done, Outcome, mutexVars
  <2> QED
    BY ZenonT(60), <2>2 DEF Service!lockVars, Op, Done
<1> QED
  BY ZenonT(60), <1>1, <1>2, <1>3
  DEF CallerStep, StMutex_Lock, StMutex_TryLock, StMutex_LockWithTimeout, Service!LockNext

\* A step that leaves the owners, the callers' knowledge and the calls alone, and
\* at most notes that the call has to wait, is no step of the lock.
LEMMA Waits ==
  ASSUME UNCHANGED <<owner, held, mtx, kind>>, Done' = Done
  PROVE  UNCHANGED Service!lockVars
BY DEF Service!lockVars, Done

LEMMA Decides ==
  ASSUME RInv, NEW th \in Threads, Test(th) \/ Take(th) \/ Expire(th) \/ Clear(th)
  PROVE  [Service!LockNext]_(Service!lockVars)
<1> USE DEF RInv, IInv, TypeOK
<1>0. CallShapeOf(th) /\ OpenOf(th) /\ OwnershipOf(th)
  BY DEF CallShape, Open, Ownership
<1>1. \A m \in Mutexes : locked[m] <=> owner[m] # NoThread
  BY ZenonT(60) DEF Ownership
<1>2. kind[th] # "sleep" => Op[th] = kind[th]
  BY ZenonT(60) DEF Op
<1>3. ret[th] \in {"none", "wait"} => Done[th] = "no"
  BY DEF Done, Outcome
<1>4. CASE Take(th)
  <2>1. kind[th] \in {"lock", "timed", "try"} /\ ret[th] \in {"none", "wait"} /\ pc[th] = "take"
    BY ZenonT(60), <1>0, <1>4 DEF Take, At, CallShapeOf, OpenOf
  <2>2. owner[mtx[th]] = NoThread
    BY ZenonT(60), <1>0, <1>1, <2>1 DEF OwnershipOf
  <2>3. Done' = [Done EXCEPT ![th] = "granted"]
    BY ZenonT(60), <1>4 DEF Take, Done, Outcome
  <2>4. owner' = [owner EXCEPT ![mtx[th]] = th] /\ UNCHANGED <<held, kind, mtx>>
    BY ZenonT(60), <1>4 DEF Take
  <2>5. Service!Grant(th)
    BY ZenonT(60), <1>2, <1>3, <2>1, <2>2, <2>3, <2>4 DEF Service!Grant, Service!Decide, Op, Done
  <2> QED
    BY <2>5 DEF Service!LockNext
<1>5. ASSUME kind[th] \in {"timed", "try"}, ret[th] \in {"none", "wait"}, Asking(th),
             locked[mtx[th]], Done' = [Done EXCEPT ![th] = "refused"],
             UNCHANGED <<owner, held, kind, mtx>>
      PROVE  Service!LockNext
  <2>1. owner[mtx[th]] \notin {NoThread, th}
    BY ZenonT(60), <1>0, <1>1, <1>5 DEF OwnershipOf
  <2>2. Service!Refuse(th)
    BY ZenonT(60), <1>2, <1>3, <1>5, <2>1 DEF Service!Refuse, Service!Decide, Op, Done
  <2> QED
    BY <2>2 DEF Service!LockNext
<1>6. CASE Expire(th)
  <2>1. kind[th] = "timed" /\ ret[th] \in {"none", "wait"} /\ pc[th] = "expire"
    BY ZenonT(60), <1>0, <1>6 DEF Expire, At, CallShapeOf, Expired, OpenOf
  <2>2. Asking(th) /\ locked[mtx[th]]
    BY <1>0, <2>1 DEF Asking, OwnershipOf
  <2>3. Done' = [Done EXCEPT ![th] = "refused"] /\ UNCHANGED <<owner, held, kind, mtx>>
    BY ZenonT(60), <1>6 DEF Expire, Done, Outcome
  <2> QED
    BY <1>5, <2>1, <2>2, <2>3
<1>7. CASE Clear(th)
  <2>1. kind[th] = "unlock" /\ ret[th] \in {"none", "wait"} /\ pc[th] = "clear"
    BY ZenonT(60), <1>0, <1>7 DEF Clear, At, CallShapeOf, OpenOf
  <2>2. owner[mtx[th]] = th
    BY <1>0, <2>1 DEF OwnershipOf, Releasing
  <2>3. Done' = [Done EXCEPT ![th] = "released"]
    BY ZenonT(60), <1>7 DEF Clear, Done, Outcome
  <2>4. owner' = [owner EXCEPT ![mtx[th]] = NoThread] /\ UNCHANGED <<held, kind, mtx>>
    BY ZenonT(60), <1>7 DEF Clear
  <2>5. Service!Release(th)
    BY ZenonT(60), <1>2, <1>3, <2>1, <2>2, <2>3, <2>4 DEF Service!Release, Service!Decide, Op, Done
  <2> QED
    BY <2>5 DEF Service!LockNext
<1>8. CASE Test(th)
  <2>1. /\ kind[th] \in {"lock", "timed", "try"} /\ ret[th] \in {"none", "wait"}
        /\ pc[th] = "test" /\ UNCHANGED <<owner, held, kind, mtx>>
    BY ZenonT(60), <1>0, <1>8 DEF Test, Decide, At, CallShapeOf, OpenOf, mutexVars
  <2>2. CASE kind[th] = "try" /\ locked[mtx[th]]
    <3>1. Asking(th)
      BY <2>1 DEF Asking
    <3>2. Done' = [Done EXCEPT ![th] = "refused"]
      BY ZenonT(60), <1>8, <2>2 DEF Test, Decide, Done, Outcome
    <3> QED
      BY ZenonT(60), <1>5, <2>1, <2>2, <3>1, <3>2
  <2>3. CASE ~(kind[th] = "try" /\ locked[mtx[th]])
    <3>1. ret' = ret
      BY <1>8, <2>3 DEF Test, Decide
    <3> QED
      BY ZenonT(60), <2>1, <3>1, Waits DEF Done, Outcome
  <2> QED
    BY <2>2, <2>3
<1> QED
  BY ZenonT(60), <1>4, <1>6, <1>7, <1>8

\* StThread_UnlockPreemption ends the call, or lets it wait.
LEMMA Ends ==
  ASSUME RInv, NEW th \in Threads, UnlockPreemption(th)
  PROVE  [Service!LockNext]_(Service!lockVars)
<1> USE DEF RInv, IInv, TypeOK
<1>0. CallShapeOf(th) /\ pc[th] = "leave"
  BY ZenonT(60) DEF CallShape, UnlockPreemption, At
<1>1. ret[th] \in {"busy", "success", "wait", "expired", "unlocked"}
  BY ZenonT(60), <1>0 DEF CallShapeOf
<1>2. CASE ret[th] = "wait"
  <2>1. UNCHANGED <<owner, held, mtx, kind, ret>>
    BY <1>2 DEF UnlockPreemption, mutexVars
  <2> QED
    BY ZenonT(60), <2>1, Waits DEF Done, Outcome
<1>3. CASE ret[th] # "wait"
  <2>1. Done[th] # "no" /\ (Done[th] = "granted" <=> ret[th] = "success")
    BY <1>1, <1>3 DEF Done, Outcome
  <2>2. Done' = [Done EXCEPT ![th] = "no"]
    BY ZenonT(60), <1>3 DEF UnlockPreemption, Return, Done, Outcome
  <2>3. Op' = [Op EXCEPT ![th] = "none"]
    BY ZenonT(60), <1>3 DEF UnlockPreemption, Return, Op
  <2>4. /\ held' = [held EXCEPT ![th] = IF Done[th] = "granted" THEN @ \cup {mtx[th]} ELSE @]
        /\ mtx' = [mtx EXCEPT ![th] = AnyMutex] /\ UNCHANGED owner
    BY ZenonT(60), <1>3, <2>1 DEF UnlockPreemption, Return, mutexVars
  <2>5. Service!End(th)
    BY ZenonT(60), <2>1, <2>2, <2>3, <2>4 DEF Service!End, Op, Done
  <2> QED
    BY ZenonT(60), <2>5 DEF Service!LockNext
<1> QED
  BY ZenonT(60), <1>2, <1>3

\* The other steps of the code are none of the lock's: those of the spinlock, of
\* the list and of the scheduler, and those of StThread_Sleep.
LEMMA Stutters ==
  ASSUME RInv, NEW th \in Threads,
         \/ LockPreemption(th) \/ LockAndSaveIrq(th) \/ Block(th) \/ unblock_blocking_thread(th)
         \/ UnlockAndRestoreIrq(th) \/ Yield(th) \/ SleepLoop(th)
  PROVE  UNCHANGED Service!lockVars
<1> USE DEF RInv, IInv, TypeOK
<1>0. CallShapeOf(th) /\ OpenOf(th)
  BY ZenonT(60) DEF CallShape, Open
<1>1. CASE LockPreemption(th) \/ LockAndSaveIrq(th) \/ UnlockAndRestoreIrq(th) \/ Yield(th)
  <2>1. UNCHANGED <<owner, held, mtx, kind, ret>>
    BY ZenonT(60), <1>1
       DEF LockPreemption, LockAndSaveIrq, UnlockAndRestoreIrq, Yield, CallUnchanged, mutexVars
  <2> QED
    BY <2>1, Waits DEF Done, Outcome
<1>2. CASE unblock_blocking_thread(th)
  <2>1. UNCHANGED <<owner, held, mtx, kind, ret>>
    BY ZenonT(60), <1>2 DEF unblock_blocking_thread, Unblock, CallUnchanged
  <2> QED
    BY <2>1, Waits DEF Done, Outcome
<1>3. CASE Block(th)
  <2>1. ret[th] \in {"none", "wait"}
    BY ZenonT(60), <1>0, <1>3 DEF Block, At, OpenOf
  <2>2. Done' = Done
    BY ZenonT(60), <1>3, <2>1 DEF Block, Done, Outcome
  <2> QED
    BY ZenonT(60), <1>3, <2>2, Waits DEF Block
<1>4. CASE SleepLoop(th)
  <2>1. kind[th] = "sleep" /\ mtx[th] = AnyMutex /\ ret[th] = "none"
    BY ZenonT(60), <1>0, <1>4 DEF SleepLoop, At, CallShapeOf, OpenOf
  <2>2. UNCHANGED <<owner, held, mtx, ret>> /\ Op' = Op
    BY SMTT(30), SMTT(45), SMTT(60), <1>4, <2>1 DEF SleepLoop, Return, mutexVars, Op
  <2> QED
    BY <2>2 DEF Service!lockVars, Op, Outcome
<1> QED
  BY ZenonT(60), <1>1, <1>2, <1>3, <1>4

LEMMA Simulates == RInv /\ [Next]_vars => [Service!LockNext]_(Service!lockVars)
<1> SUFFICES ASSUME RInv, [Next]_vars PROVE [Service!LockNext]_(Service!lockVars)
  OBVIOUS
<1>1. CASE preempt_isr \/ Tick \/ UNCHANGED vars
  <2>1. UNCHANGED <<owner, held, mtx, kind, ret>>
    BY <1>1 DEF preempt_isr, Tick, vars, callVars, mutexVars
  <2> QED
    BY <2>1, Waits DEF Done, Outcome
<1>2. ASSUME NEW th \in Threads, CodeStep(th) PROVE [Service!LockNext]_(Service!lockVars)
  BY <1>2, Decides, Ends, Stutters DEF CodeStep
<1>3. ASSUME NEW th \in Threads, CallerStep(th) PROVE [Service!LockNext]_(Service!lockVars)
  BY ZenonT(60), <1>3, Begins
<1> QED
  BY <1>1, <1>2, <1>3 DEF Next

LEMMA InitLock == Init => Service!LockInit
BY DEF Init, Service!LockInit, Outcome

-------------------------------------------------------------------------------
\* The mutex of mutex/mutex.c is a lock: whatever the scheduler, the timer and
\* the other threads do, every Lock, LockWithTimeout, TryLock and Unlock takes
\* effect exactly once, at a moment between its call and its return, and is
\* refused only while another thread owns the mutex.
THEOREM MutexIsALock == Spec => ImplementsLock
<1>1. Spec => []RInv
  BY InitRInv, NextRInv, PTL DEF Spec
<1> QED
  BY <1>1, InitLock, Simulates, PTL DEF Spec, ImplementsLock, Service!LockSpec

=============================================================================
