------------------------------- MODULE Mutex -------------------------------
(***************************************************************************)
(* The sleeping mutex of Strata (src/strata/mutex/mutex.c) together with    *)
(* what it stands on: the preemption lock (thread/thread.c), the            *)
(* interrupt-saving raw spinlock (spinlock/raw_spinlock.c), the voluntary   *)
(* and the timer-driven reschedule (arch/amd64/pc/thread.c and init.c).     *)
(*                                                                         *)
(* One CPU runs the threads.  pc[th] is the place a thread has reached in   *)
(* the mutex code; a thread moves only while it is `current`.  The          *)
(* reschedule chooses ANY runnable thread: which one the stride scheduler   *)
(* really chooses is the subject of module Scheduler, and nothing here      *)
(* depends on it.  The blocking list, an intrusive singly linked list in    *)
(* the code, is a sequence.                                                 *)
(***************************************************************************)
EXTENDS Integers, Sequences, FiniteSets

CONSTANTS Threads,    \* the kernel threads that use the mutexes
          Mutexes,    \* the mutexes they share
          NoThread,   \* the NULL owner
          Timeouts,   \* timeouts a caller passes (ticks, all positive)
          MaxNow      \* bound: the clock stops at this tick

ASSUME ThreadsAssumption == NoThread \notin Threads /\ Mutexes # {}
ASSUME TimeAssumption == MaxNow \in Nat /\ Timeouts \subseteq Nat \ {0}

VARIABLES
  current,      \* scheduler->current_thread
  depth,        \* preemption_disable_depth of this CPU
  irqOn,        \* the CPU's interrupt flag
  now,          \* uptime, in ticks
  state,        \* th->state
  sleepUntil,   \* th->sleep_until_uptime_ns
  spin,         \* mtx->state_lock
  locked,       \* mtx->locked
  owner,        \* mtx->owner
  blocking,     \* mtx->blocking_threads, first waiter first
  pc,           \* where the thread is in the mutex code
  kind,         \* the call it is in: none, lock, timed, try, unlock or sleep
  mtx,          \* that call's argument
  deadline,     \* deadline_ns of a timed call
  seen,         \* now_ns as the call last read it
  ret,          \* the outcome chosen under the lock
  held          \* the mutexes the thread's caller knows it holds

cpuVars == <<current, depth, irqOn, now>>
threadVars == <<state, sleepUntil>>
mutexVars == <<spin, locked, owner, blocking>>
callVars == <<pc, kind, mtx, deadline, seen, ret, held>>
vars == <<cpuVars, threadVars, mutexVars, callVars>>

States == {"running", "blocking", "sleeping"}
Kinds == {"none", "lock", "timed", "try", "unlock", "sleep"}
Results == {"none", "wait", "success", "expired", "busy", "unlocked"}
AnyMutex == CHOOSE m \in Mutexes : TRUE   \* mtx[th] outside a call

\* Places with interrupts off and the spinlock held, with preemption locked,
\* and inside a Lock or LockWithTimeout call that has not been decided yet.
InSpin == {"test", "take", "expire", "block", "clear", "wake", "unspin"}
InPreemptionLock == InSpin \cup {"spin", "leave"}
Places == InPreemptionLock \cup {"idle", "loop", "yield", "sleep"}
LockKinds == {"lock", "timed"}

-----------------------------------------------------------------------------
(* The blocking list.                                                      *)

Waiters(list) == {list[i] : i \in 1..Len(list)}
NoDuplicates(list) == \A i, j \in 1..Len(list) : list[i] = list[j] => i = j

\* Mutant of add_blocking_thread: no look whether th is already queued.
add_blocking_Unchecked(list, th) == Append(list, th)

add_blocking_thread(list, th) ==
  IF th \in Waiters(list) THEN list ELSE Append(list, th)

remove_blocking_thread(list, th) ==
  IF th \in Waiters(list)
  THEN LET k == CHOOSE j \in 1..Len(list) : list[j] = th
       IN  [i \in 1..(Len(list) - 1) |-> IF i < k THEN list[i] ELSE list[i + 1]]
  ELSE list

-----------------------------------------------------------------------------
(* Rescheduling, reduced to what it does to the threads' states.           *)

\* update_runnable_state, which every scan applies to every queued thread.
WakeExpired(th) == state[th] = "sleeping" /\ now >= sleepUntil[th]
update_runnable_state ==
  [th \in Threads |-> IF WakeExpired(th) THEN "running" ELSE state[th]]

Runnable == {th \in Threads : update_runnable_state[th] = "running"}

\* GetNextThread followed by StThreadP_Switch.  With nothing runnable the
\* current thread simply keeps the CPU, whatever its own state says.
SwitchTo(next) ==
  /\ state' = update_runnable_state
  /\ sleepUntil' = [th \in Threads |-> IF WakeExpired(th) THEN 0 ELSE sleepUntil[th]]
  /\ current' = next

Reschedule ==
  \/ \E next \in Runnable : SwitchTo(next)
  \/ Runnable = {} /\ SwitchTo(current)

\* preempt_isr: the periodic timer interrupt.
preempt_isr ==
  /\ irqOn
  /\ depth = 0
  /\ Reschedule
  /\ UNCHANGED <<depth, irqOn, now, mutexVars, callVars>>

Tick ==
  /\ now < MaxNow
  /\ now' = now + 1
  /\ UNCHANGED <<current, depth, irqOn, threadVars, mutexVars, callVars>>

-----------------------------------------------------------------------------
(* The steps of a call.  Goto moves the program counter and nothing else.  *)

At(th, place) == current = th /\ pc[th] = place
Goto(th, place) == pc' = [pc EXCEPT ![th] = place]

\* The call's local variables go out of scope when it returns.
Return(th) ==
  /\ kind' = [kind EXCEPT ![th] = "none"]
  /\ mtx' = [mtx EXCEPT ![th] = AnyMutex]
  /\ deadline' = [deadline EXCEPT ![th] = 0]
  /\ seen' = [seen EXCEPT ![th] = 0]
  /\ ret' = [ret EXCEPT ![th] = "none"]
  /\ Goto(th, "idle")

CallUnchanged == UNCHANGED <<kind, mtx, deadline, seen, ret, held>>

\* A caller enters StMutex_Lock, StMutex_LockWithTimeout or StMutex_TryLock.
\* The mutex is not recursive: a caller never locks what it holds.
Call(th, k, m, t) ==
  /\ At(th, "idle")
  /\ m \notin held[th]
  /\ now + t <= MaxNow
  /\ kind' = [kind EXCEPT ![th] = k]
  /\ mtx' = [mtx EXCEPT ![th] = m]
  /\ deadline' = [deadline EXCEPT ![th] = IF k = "timed" THEN now + t ELSE 0]
  /\ Goto(th, "loop")
  /\ UNCHANGED <<cpuVars, threadVars, mutexVars, seen, ret, held>>

StMutex_Lock(th) == \E m \in Mutexes : Call(th, "lock", m, 0)
StMutex_TryLock(th) == \E m \in Mutexes : Call(th, "try", m, 0)
StMutex_LockWithTimeout(th) == \E m \in Mutexes, t \in Timeouts : Call(th, "timed", m, t)

StMutex_Unlock(th) ==
  /\ At(th, "idle")
  /\ \E m \in held[th] :
       /\ kind' = [kind EXCEPT ![th] = "unlock"]
       /\ mtx' = [mtx EXCEPT ![th] = m]
       /\ held' = [held EXCEPT ![th] = @ \ {m}]
  /\ Goto(th, "loop")
  /\ UNCHANGED <<cpuVars, threadVars, mutexVars, deadline, seen, ret>>

\* The top of the loop: read the clock, then StThread_LockPreemption.
LockPreemption(th) ==
  /\ At(th, "loop")
  /\ seen' = [seen EXCEPT ![th] = IF kind[th] = "timed" THEN now ELSE @]
  /\ depth' = depth + 1
  /\ Goto(th, "spin")
  /\ UNCHANGED <<current, irqOn, now, threadVars, mutexVars, kind, mtx, deadline, ret, held>>

\* StRawSpinlock_LockAndSaveIrq: interrupts go off first, then it spins.
LockAndSaveIrq(th) ==
  /\ At(th, "spin")
  /\ ~spin[mtx[th]]
  /\ irqOn' = FALSE
  /\ spin' = [spin EXCEPT ![mtx[th]] = TRUE]
  /\ Goto(th, IF kind[th] = "unlock" THEN "clear" ELSE "test")
  /\ UNCHANGED <<current, depth, now, threadVars, locked, owner, blocking>>
  /\ CallUnchanged

Decide(th, place) ==
  /\ At(th, "test")
  /\ Goto(th, place)
  /\ ret' = [ret EXCEPT ![th] = IF place = "unspin" THEN "busy" ELSE @]
  /\ UNCHANGED <<cpuVars, threadVars, mutexVars, kind, mtx, deadline, seen, held>>

Expired(th) == kind[th] = "timed" /\ seen[th] >= deadline[th]

\* Mutants of Test: the deadline is looked at first; the deadline is never
\* looked at; StMutex_TryLock does not look at mtx->locked, or gives way to
\* those who wait.
Test_DeadlineFirst(th) ==
  Decide(th, IF Expired(th) THEN "expire"
             ELSE IF ~locked[mtx[th]] THEN "take"
             ELSE IF kind[th] = "try" THEN "unspin" ELSE "block")
Test_NoDeadline(th) ==
  Decide(th, IF ~locked[mtx[th]] THEN "take"
             ELSE IF kind[th] = "try" THEN "unspin" ELSE "block")
Test_TryAlwaysTakes(th) ==
  Decide(th, IF ~locked[mtx[th]] \/ kind[th] = "try" THEN "take"
             ELSE IF Expired(th) THEN "expire" ELSE "block")
Test_TryGivesWay(th) ==
  Decide(th, IF kind[th] = "try" /\ (locked[mtx[th]] \/ blocking[mtx[th]] # <<>>) THEN "unspin"
             ELSE IF ~locked[mtx[th]] THEN "take"
             ELSE IF Expired(th) THEN "expire" ELSE "block")

\* if (!mtx->locked) ... else if (now_ns >= deadline_ns) ... else block.
Test(th) ==
  Decide(th, IF ~locked[mtx[th]] THEN "take"
             ELSE IF kind[th] = "try" THEN "unspin"
             ELSE IF Expired(th) THEN "expire" ELSE "block")

\* The mutex is free: leave the list and own it.  state is not touched.
Take(th) ==
  /\ At(th, "take")
  /\ blocking' = IF kind[th] = "try" THEN blocking
                 ELSE [blocking EXCEPT ![mtx[th]] = remove_blocking_thread(@, th)]
  /\ locked' = [locked EXCEPT ![mtx[th]] = TRUE]
  /\ owner' = [owner EXCEPT ![mtx[th]] = th]
  /\ sleepUntil' = IF kind[th] = "timed" THEN [sleepUntil EXCEPT ![th] = 0] ELSE sleepUntil
  /\ ret' = [ret EXCEPT ![th] = "success"]
  /\ Goto(th, "unspin")
  /\ UNCHANGED <<cpuVars, state, spin, kind, mtx, deadline, seen, held>>

\* The deadline has passed: leave the list and report it.
Expire(th) ==
  /\ At(th, "expire")
  /\ blocking' = [blocking EXCEPT ![mtx[th]] = remove_blocking_thread(@, th)]
  /\ sleepUntil' = [sleepUntil EXCEPT ![th] = 0]
  /\ state' = [state EXCEPT ![th] = "running"]
  /\ ret' = [ret EXCEPT ![th] = "expired"]
  /\ Goto(th, "unspin")
  /\ UNCHANGED <<cpuVars, spin, locked, owner, kind, mtx, deadline, seen, held>>

\* Become BLOCKING (or SLEEPING until the deadline) and queue up.
Block(th) ==
  /\ At(th, "block")
  /\ state' = [state EXCEPT ![th] = IF kind[th] = "timed" THEN "sleeping" ELSE "blocking"]
  /\ sleepUntil' = IF kind[th] = "timed" THEN [sleepUntil EXCEPT ![th] = deadline[th]]
                   ELSE sleepUntil
  /\ blocking' = [blocking EXCEPT ![mtx[th]] = add_blocking_thread(@, th)]
  /\ ret' = [ret EXCEPT ![th] = "wait"]
  /\ Goto(th, "unspin")
  /\ UNCHANGED <<cpuVars, spin, locked, owner, kind, mtx, deadline, seen, held>>

\* StMutex_Unlock under the lock, up to `mtx->owner = NULL`.
Clear(th) ==
  /\ At(th, "clear")
  /\ locked' = [locked EXCEPT ![mtx[th]] = FALSE]
  /\ owner' = [owner EXCEPT ![mtx[th]] = NoThread]
  /\ ret' = [ret EXCEPT ![th] = "unlocked"]
  /\ Goto(th, "wake")
  /\ UNCHANGED <<cpuVars, threadVars, spin, blocking, kind, mtx, deadline, seen, held>>

Unblock(th, from) ==
  /\ At(th, "wake")
  /\ LET m == mtx[th] IN
     IF blocking[m] = <<>> THEN UNCHANGED <<state, sleepUntil, blocking>>
     ELSE /\ blocking' = [blocking EXCEPT ![m] = Tail(@)]
          /\ sleepUntil' = [sleepUntil EXCEPT ![Head(blocking[m])] = 0]
          /\ state' = [state EXCEPT ![Head(blocking[m])] = IF @ \in from THEN "running" ELSE @]
  /\ Goto(th, "unspin")
  /\ UNCHANGED <<cpuVars, spin, locked, owner>>
  /\ CallUnchanged

\* Mutants of unblock_blocking_thread: only a SLEEPING, or only a BLOCKING,
\* waiter is made runnable.
unblock_SleepingOnly(th) == Unblock(th, {"sleeping"})
unblock_BlockingOnly(th) == Unblock(th, {"blocking"})

\* The first waiter leaves the list and becomes runnable; nobody else does.
unblock_blocking_thread(th) == Unblock(th, {"blocking", "sleeping"})

\* StRawSpinlock_UnlockAndRestoreIrq: the saved flag is always "on" here.
UnlockAndRestoreIrq(th) ==
  /\ At(th, "unspin")
  /\ spin' = [spin EXCEPT ![mtx[th]] = FALSE]
  /\ irqOn' = TRUE
  /\ Goto(th, "leave")
  /\ UNCHANGED <<current, depth, now, threadVars, locked, owner, blocking>>
  /\ CallUnchanged

\* StThread_UnlockPreemption, then return to the caller or go on to yield.
UnlockPreemption(th) ==
  /\ At(th, "leave")
  /\ depth' = depth - 1
  /\ held' = IF ret[th] = "success" THEN [held EXCEPT ![th] = @ \cup {mtx[th]}] ELSE held
  /\ IF ret[th] = "wait"
     THEN Goto(th, "yield") /\ UNCHANGED <<kind, mtx, deadline, seen, ret>>
     ELSE Return(th)
  /\ UNCHANGED <<current, irqOn, now, threadVars, mutexVars>>

\* StThread_Yield: _StThreadP_DoYield reschedules; the loop starts over when
\* the thread runs again.
Yield(th) ==
  /\ At(th, "yield")
  /\ Reschedule
  /\ Goto(th, "loop")
  /\ UNCHANGED <<depth, irqOn, now, mutexVars>>
  /\ CallUnchanged

-----------------------------------------------------------------------------
(* StThread_Sleep, which a thread may call while it holds mutexes: the way  *)
(* an owner leaves the CPU to waiters that have nothing to wait for but it. *)

StThread_Sleep(th) ==
  /\ At(th, "idle")
  /\ \E t \in Timeouts :
       /\ now + t <= MaxNow
       /\ deadline' = [deadline EXCEPT ![th] = now + t]
       /\ sleepUntil' = [sleepUntil EXCEPT ![th] = now + t]
  /\ state' = [state EXCEPT ![th] = "sleeping"]
  /\ kind' = [kind EXCEPT ![th] = "sleep"]
  /\ Goto(th, "sleep")
  /\ UNCHANGED <<cpuVars, mutexVars, mtx, seen, ret, held>>

\* One turn of its loop: awake already, awake by its own look at the clock,
\* or off the CPU once more.
SleepLoop(th) ==
  /\ At(th, "sleep")
  /\ \/ /\ state[th] # "sleeping"
        /\ Return(th)
        /\ UNCHANGED <<current, threadVars>>
     \/ /\ state[th] = "sleeping"
        /\ now >= deadline[th]
        /\ state' = [state EXCEPT ![th] = "running"]
        /\ sleepUntil' = [sleepUntil EXCEPT ![th] = 0]
        /\ Return(th)
        /\ UNCHANGED current
     \/ /\ state[th] = "sleeping"
        /\ now < deadline[th]
        /\ Reschedule
        /\ UNCHANGED <<pc, kind, mtx, deadline, seen, ret>>
  /\ UNCHANGED <<depth, irqOn, now, mutexVars, held>>

-----------------------------------------------------------------------------
Init ==
  /\ current \in Threads
  /\ depth = 0 /\ irqOn = TRUE /\ now = 0
  /\ state = [th \in Threads |-> "running"]
  /\ sleepUntil = [th \in Threads |-> 0]
  /\ spin = [m \in Mutexes |-> FALSE]
  /\ locked = [m \in Mutexes |-> FALSE]
  /\ owner = [m \in Mutexes |-> NoThread]
  /\ blocking = [m \in Mutexes |-> <<>>]
  /\ pc = [th \in Threads |-> "idle"]
  /\ kind = [th \in Threads |-> "none"]
  /\ mtx = [th \in Threads |-> AnyMutex]
  /\ deadline = [th \in Threads |-> 0]
  /\ seen = [th \in Threads |-> 0]
  /\ ret = [th \in Threads |-> "none"]
  /\ held = [th \in Threads |-> {}]

\* What the code itself does next, as opposed to what its callers start.
CodeStep(th) ==
  \/ LockPreemption(th) \/ LockAndSaveIrq(th)
  \/ Test(th) \/ Take(th) \/ Expire(th) \/ Block(th)
  \/ Clear(th) \/ unblock_blocking_thread(th)
  \/ UnlockAndRestoreIrq(th) \/ UnlockPreemption(th)
  \/ Yield(th) \/ SleepLoop(th)

CallerStep(th) ==
  \/ StMutex_Lock(th) \/ StMutex_TryLock(th) \/ StMutex_LockWithTimeout(th)
  \/ StMutex_Unlock(th) \/ StThread_Sleep(th)

Next ==
  \/ preempt_isr
  \/ Tick
  \/ \E th \in Threads : CodeStep(th) \/ CallerStep(th)

Spec == Init /\ [][Next]_vars

\* A time slice is long enough to execute something; the timer interrupt
\* recurs and the scheduler passes over no thread that stays runnable (module
\* Scheduler); time goes on.
Fairness ==
  /\ \A th \in Threads : SF_vars(CodeStep(th))
  /\ \A th \in Threads : SF_vars(preempt_isr /\ current' = th)
  /\ WF_vars(Tick)

FairSpec == Spec /\ Fairness

-----------------------------------------------------------------------------
TypeOK ==
  /\ current \in Threads
  /\ depth \in {0, 1} /\ irqOn \in BOOLEAN /\ now \in Nat
  /\ state \in [Threads -> States]
  /\ sleepUntil \in [Threads -> Nat]
  /\ spin \in [Mutexes -> BOOLEAN]
  /\ locked \in [Mutexes -> BOOLEAN]
  /\ owner \in [Mutexes -> Threads \cup {NoThread}]
  /\ blocking \in [Mutexes -> Seq(Threads)]
  /\ pc \in [Threads -> Places]
  /\ kind \in [Threads -> Kinds]
  /\ mtx \in [Threads -> Mutexes]
  /\ deadline \in [Threads -> Nat]
  /\ seen \in [Threads -> Nat]
  /\ ret \in [Threads -> Results]
  /\ held \in [Threads -> SUBSET Mutexes]

\* Whoever was told it holds a mutex is its owner, and the mutex is locked; so
\* no two callers hold it at once, and the assertion in StMutex_Unlock that
\* the caller is the owner cannot fail.
OwnerHolds ==
  \A th \in Threads :
    /\ \A m \in held[th] : locked[m] /\ owner[m] = th
    /\ pc[th] = "clear" => owner[mtx[th]] = th

\* A waiter is queued once, on the mutex of the call it is in, and that call
\* is a Lock or a LockWithTimeout still undecided.
InLoop(th, m) ==
  /\ kind[th] \in LockKinds
  /\ mtx[th] = m
  /\ \/ pc[th] \in {"loop", "spin", "test", "take", "expire", "block", "yield"}
     \/ pc[th] \in {"unspin", "leave"} /\ ret[th] = "wait"

WaitersAreWaiting ==
  \A m \in Mutexes :
    /\ NoDuplicates(blocking[m])
    /\ \A th \in Waiters(blocking[m]) : InLoop(th, m)

\* No wake-up is lost: a free mutex with waiters has one thread, already off
\* the list and runnable, on its way to try for it again; or the unlocking
\* thread is just about to send one.
NoLostWakeup ==
  \A m \in Mutexes :
    ~locked[m] /\ blocking[m] # <<>> =>
      \/ \E th \in Threads :
           InLoop(th, m) /\ th \notin Waiters(blocking[m]) /\ state[th] = "running"
      \/ \E th \in Threads : pc[th] \in {"take", "wake"} /\ mtx[th] = m

\* StMutex_Lock does not set the state back to RUNNING when it takes the
\* mutex, and need not: a thread outside a blocking call is always RUNNING, so
\* the scheduler never forgets a thread that holds a mutex.
ReturnsRunnable ==
  \A th \in Threads : pc[th] = "idle" => state[th] = "running"

\* The raw spinlock, taken with preemption locked, is never contended on this
\* CPU: a spin with interrupts off would never end.
SpinlockIsFree ==
  \A th \in Threads : At(th, "spin") => ~spin[mtx[th]]

\* What every call leaves to the next: the state has its types, preemption is
\* locked at most once, the blocking list holds each undecided waiter once, a
\* returning thread is RUNNING, and the spinlock is free when it is asked for.
CallsSound == TypeOK /\ WaitersAreWaiting /\ ReturnsRunnable /\ SpinlockIsFree

\* LockWithTimeout reports TIMER_EXPIRED only after the deadline, and while the
\* mutex is held by another thread.
ExpiryIsHonest ==
  [][\A th \in Threads :
       ret'[th] = "expired" /\ ret[th] # "expired"
         => now >= deadline[th] /\ locked[mtx[th]] /\ owner[mtx[th]] # th]_vars

\* What the call has come to, of the values ret takes on the way.
Outcome(th) ==
  IF ret[th] \in {"none", "wait"} THEN "no"
  ELSE IF ret[th] \in {"busy", "expired"} THEN "refused"
  ELSE IF ret[th] = "success" THEN "granted" ELSE "released"

Service == INSTANCE Lock WITH
  Nobody <- NoThread,
  NoArg <- AnyMutex,
  own <- owner,
  has <- held,
  op <- [th \in Threads |-> IF kind[th] = "sleep" THEN "none" ELSE kind[th]],
  arg <- mtx,
  done <- [th \in Threads |-> Outcome(th)]

\* Lock, LockWithTimeout, TryLock and Unlock implement the lock of module Lock:
\* through all the loops, waits and preemptions each call takes effect exactly
\* once, Lock is never refused, and the other two are refused only at a moment
\* at which another thread owns the mutex.
ImplementsLock == Service!LockSpec

\* Progress: a free mutex somebody waits for is taken again.
FreeMutexIsTaken ==
  \A m \in Mutexes : (~locked[m] /\ blocking[m] # <<>>) ~> locked[m]

\* LockWithTimeout returns, whatever the holder does: success or expiry.
TimedLockReturns ==
  \A th \in Threads : (kind[th] = "timed" /\ pc[th] # "idle") ~> pc[th] = "idle"
=============================================================================
