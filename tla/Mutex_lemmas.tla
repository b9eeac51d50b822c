---------------------------- MODULE Mutex_lemmas ----------------------------
(***************************************************************************)
(* The inductive invariant of module Mutex, the facts about the list of    *)
(* waiters, the lemmas that reduce a step of one thread to what it does to *)
(* that thread and to the mutex of its call, and the steps of a call under *)
(* the preemption lock: each keeps the invariant.                          *)
(***************************************************************************)
EXTENDS Mutex, TLAPS

-----------------------------------------------------------------------------
(* The inductive invariant.                                                *)

\* Only the running thread is inside the preemption lock; the depth, the
\* interrupt flag and the spinlocks say exactly where it is.
Exclusion ==
  /\ \A th \in Threads : pc[th] \in InPreemptionLock => th = current
  /\ depth = IF pc[current] \in InPreemptionLock THEN 1 ELSE 0
  /\ irqOn = (pc[current] \notin InSpin)
  /\ \A m \in Mutexes : spin[m] = (pc[current] \in InSpin /\ mtx[current] = m)

\* Which calls reach which places, and with which outcome.
CallShapeOf(th) ==
  /\ pc[th] = "idle" <=> kind[th] = "none"
  /\ pc[th] = "sleep" <=> kind[th] = "sleep"
  /\ pc[th] \in {"clear", "wake"} => kind[th] = "unlock"
  /\ pc[th] = "wake" => ret[th] = "unlocked"
  /\ pc[th] \in {"test", "take"} => kind[th] \in {"lock", "timed", "try"}
  /\ pc[th] \in {"block", "yield"} => kind[th] \in LockKinds
  /\ pc[th] = "expire" => Expired(th)
  /\ pc[th] \in {"unspin", "leave"} =>
       \/ kind[th] = "unlock" /\ ret[th] = "unlocked"
       \/ kind[th] = "try" /\ ret[th] \in {"busy", "success"}
       \/ kind[th] \in LockKinds /\ ret[th] \in {"wait", "success", "expired"}
CallShape == \A th \in Threads : CallShapeOf(th)

\* A Lock, LockWithTimeout or TryLock call that has not taken its mutex.
Asking(th) ==
  /\ kind[th] \in {"lock", "timed", "try"}
  /\ ~(pc[th] \in {"unspin", "leave"} /\ ret[th] = "success")

\* An Unlock call that has not cleared the owner yet.
Releasing(th) == kind[th] = "unlock" /\ pc[th] \in {"loop", "spin", "clear"}

\* Taken, but the caller has not been told.
Taken(th) == pc[th] \in {"unspin", "leave"} /\ ret[th] = "success"

OwnershipOf(th) ==
  /\ \A m \in held[th] : owner[m] = th
  /\ \A m \in Mutexes : owner[m] = th =>
       m \in held[th] \/ (m = mtx[th] /\ (Releasing(th) \/ Taken(th)))
  /\ Asking(th) => owner[mtx[th]] # th
  /\ Releasing(th) \/ Taken(th) => owner[mtx[th]] = th /\ mtx[th] \notin held[th]
  /\ pc[th] \in {"take", "wake"} => ~locked[mtx[th]]
  /\ pc[th] \in {"block", "expire"} => locked[mtx[th]]
Ownership ==
  /\ \A m \in Mutexes : locked[m] <=> owner[m] # NoThread
  /\ \A th \in Threads : OwnershipOf(th)

\* A thread that is not RUNNING sleeps, or waits in the list of a mutex; in
\* the second case it can be the current thread only while the mutex is held.
NotRunningOf(th) ==
  state[th] # "running" =>
    \/ pc[th] = "sleep" /\ state[th] = "sleeping"
    \/ /\ InLoop(th, mtx[th])
       /\ th \in Waiters(blocking[mtx[th]])
       /\ th = current => locked[mtx[th]]
NotRunning == \A th \in Threads : NotRunningOf(th)

ClockOK == \A th \in Threads : seen[th] <= now

IInv == /\ TypeOK /\ Exclusion /\ CallShape /\ Ownership
        /\ WaitersAreWaiting /\ NoLostWakeup /\ NotRunning /\ ClockOK

-----------------------------------------------------------------------------
(* What the three list operations do to the set of waiters.                *)

\* The list built by add_blocking_thread holds the thread exactly once.
LEMMA AddWaiter ==
  ASSUME NEW S, NEW list \in Seq(S), NEW th \in S, NoDuplicates(list)
  PROVE  /\ add_blocking_thread(list, th) \in Seq(S)
         /\ Waiters(add_blocking_thread(list, th)) = Waiters(list) \cup {th}
         /\ NoDuplicates(add_blocking_thread(list, th))
<1>1. CASE th \in Waiters(list)
  BY <1>1 DEF add_blocking_thread
<1>2. CASE th \notin Waiters(list)
  <2>1. /\ Append(list, th) \in Seq(S)
        /\ Len(Append(list, th)) = Len(list) + 1
        /\ \A i \in 1..Len(list) : Append(list, th)[i] = list[i]
        /\ Append(list, th)[Len(list) + 1] = th
    OBVIOUS
  <2>2. Waiters(Append(list, th)) = Waiters(list) \cup {th}
    BY <2>1 DEF Waiters
  <2>3. NoDuplicates(Append(list, th))
    BY <1>2, <2>1 DEF Waiters, NoDuplicates
  <2> QED BY <1>2, <2>1, <2>2, <2>3 DEF add_blocking_thread
<1> QED BY <1>1, <1>2

\* remove_blocking_thread takes that one thread out and keeps the others.
LEMMA RemoveWaiter ==
  ASSUME NEW S, NEW list \in Seq(S), NEW th \in S, NoDuplicates(list)
  PROVE  /\ remove_blocking_thread(list, th) \in Seq(S)
         /\ Waiters(remove_blocking_thread(list, th)) = Waiters(list) \ {th}
         /\ NoDuplicates(remove_blocking_thread(list, th))
<1>1. CASE th \notin Waiters(list)
  BY <1>1 DEF remove_blocking_thread
<1>2. CASE th \in Waiters(list)
  <2> DEFINE k == CHOOSE j \in 1..Len(list) : list[j] = th
             out == [i \in 1..(Len(list) - 1) |-> IF i < k THEN list[i] ELSE list[i + 1]]
  <2>1. k \in 1..Len(list) /\ list[k] = th
    BY <1>2 DEF Waiters
  <2>2. remove_blocking_thread(list, th) = out
    BY <1>2 DEF remove_blocking_thread
  <2> HIDE DEF k
  <2>5. /\ out \in Seq(S)
        /\ Len(out) = Len(list) - 1
        /\ \A i \in 1..(Len(list) - 1) : out[i] = IF i < k THEN list[i] ELSE list[i + 1]
    BY <2>1
  <2> HIDE DEF out
  <2>6. ASSUME NEW w \in Waiters(out)
        PROVE  w \in Waiters(list) /\ w # th
    <3>1. PICK i \in 1..(Len(list) - 1) : out[i] = w
      BY ZenonT(60), <2>5 DEF Waiters
    <3>2. PICK j \in 1..Len(list) : j # k /\ list[j] = w
      <4>1. CASE i < k
        BY <2>1, <2>5, <3>1, <4>1
      <4>2. CASE ~(i < k)
        BY <2>1, <2>5, <3>1, <4>2
      <4> QED BY <4>1, <4>2
    <3> QED BY <2>1, <3>2 DEF Waiters, NoDuplicates
  <2>7. ASSUME NEW w \in Waiters(list), w # th
        PROVE  w \in Waiters(out)
    <3>1. PICK i \in 1..Len(list) : list[i] = w
      BY DEF Waiters
    <3>2. i # k
      BY <2>1, <2>7, <3>1
    <3>3. CASE i < k
      BY SMTT(30), SMTT(45), SMTT(60), <2>1, <2>5, <3>1, <3>3 DEF Waiters
    <3>4. CASE i > k
      <4>1. i - 1 \in 1..(Len(list) - 1) /\ ~(i - 1 < k) /\ (i - 1) + 1 = i
        BY <2>1, <3>4
      <4>2. out[i - 1] = w
        BY <2>5, <3>1, <4>1
      <4> QED BY <2>5, <4>1, <4>2 DEF Waiters
    <3> QED BY <2>1, <3>2, <3>3, <3>4
  <2>8. NoDuplicates(out)
    BY <2>1, <2>5 DEF NoDuplicates
  <2> QED BY <2>2, <2>5, <2>6, <2>7, <2>8
<1> QED BY <1>1, <1>2

\* Popping the head, as unblock_blocking_thread does, takes out that one.
LEMMA PopWaiter ==
  ASSUME NEW S, NEW list \in Seq(S), list # <<>>, NoDuplicates(list)
  PROVE  /\ Tail(list) \in Seq(S)
         /\ Head(list) \in Waiters(list)
         /\ Head(list) \in S
         /\ Waiters(Tail(list)) = Waiters(list) \ {Head(list)}
         /\ NoDuplicates(Tail(list))
<1>1. /\ Len(list) \in Nat \ {0}
      /\ Tail(list) \in Seq(S)
      /\ Len(Tail(list)) = Len(list) - 1
      /\ \A i \in 1..(Len(list) - 1) : Tail(list)[i] = list[i + 1]
      /\ Head(list) = list[1] /\ list[1] \in S
  OBVIOUS
<1>2. Head(list) \in Waiters(list)
  BY <1>1 DEF Waiters
<1>3. Waiters(Tail(list)) \subseteq Waiters(list) \ {Head(list)}
  BY <1>1 DEF Waiters, NoDuplicates
<1>4. ASSUME NEW w \in Waiters(list), w # Head(list)
      PROVE  w \in Waiters(Tail(list))
  <2>1. PICK i \in 1..Len(list) : list[i] = w
    BY DEF Waiters
  <2>2. i - 1 \in 1..(Len(list) - 1) /\ (i - 1) + 1 = i
    BY <1>1, <1>4, <2>1
  <2>3. Tail(list)[i - 1] = w
    BY <1>1, <2>1, <2>2
  <2> QED BY ZenonT(60), <1>1, <2>2, <2>3 DEF Waiters
<1>5. NoDuplicates(Tail(list))
  BY <1>1 DEF NoDuplicates
<1> QED BY <1>1, <1>2, <1>3, <1>4, <1>5

-----------------------------------------------------------------------------
(* Every step keeps the invariant.                                         *)

\* NoLostWakeup asks for a claimant of every free mutex with waiters.
Claimant(th, m) ==
  \/ InLoop(th, m) /\ th \notin Waiters(blocking[m]) /\ state[th] = "running"
  \/ pc[th] \in {"take", "wake"} /\ mtx[th] = m

\* The step is one of th's own: no other thread's call moves.
Others(th) ==
  \A w \in Threads : w # th =>
    /\ pc'[w] = pc[w] /\ kind'[w] = kind[w] /\ mtx'[w] = mtx[w] /\ ret'[w] = ret[w]
    /\ deadline'[w] = deadline[w] /\ seen'[w] = seen[w] /\ held'[w] = held[w]

\* What the invariant says of one thread.
OfThread(th) ==
  CallShapeOf(th) /\ OwnershipOf(th) /\ NotRunningOf(th) /\ seen[th] <= now

\* Its place in a lock loop and its claims are not given up.
KeepsClaims(th) ==
  \A m \in Mutexes : /\ InLoop(th, m) => InLoop(th, m)'
                     /\ Claimant(th, m) => Claimant(th, m)'

\* The scheduler's part of a step: nobody is stopped but th, and the CPU goes
\* only to a thread that runs.
Scheduled(th) ==
  /\ \A w \in Threads : w # th => state'[w] = "running" \/ state'[w] = state[w]
  /\ current' = current \/ state'[current'] = "running"

\* The invariant of all threads is the invariant of each.
LEMMA EachThread == ASSUME IInv, NEW th \in Threads PROVE OfThread(th)
  BY DEF IInv, CallShape, Ownership, NotRunning, ClockOK, OfThread

\* A step of th that leaves the mutexes alone keeps the invariant if it keeps
\* what the invariant says of th.
LEMMA LocalStep ==
  ASSUME IInv, NEW th \in Threads, TypeOK', Exclusion', OfThread(th)',
         Others(th), KeepsClaims(th), Scheduled(th),
         UNCHANGED <<locked, owner, blocking>>, now' >= now
  PROVE  IInv'
<1>1. CallShape'
  <2> SUFFICES ASSUME NEW w \in Threads, w # th PROVE CallShapeOf(w)'
    BY DEF CallShape, OfThread
  <2>1. CallShapeOf(w)
    BY DEF IInv, CallShape
  <2> QED BY <2>1 DEF Others, CallShapeOf, Expired
<1>2. Ownership'
  <2> SUFFICES ASSUME NEW w \in Threads, w # th PROVE OwnershipOf(w)'
    BY DEF IInv, Ownership, OfThread
  <2>1. OwnershipOf(w)
    BY DEF IInv, Ownership
  <2>2. /\ Asking(w)' = Asking(w) /\ Releasing(w)' = Releasing(w) /\ Taken(w)' = Taken(w)
        /\ pc'[w] = pc[w] /\ mtx'[w] = mtx[w] /\ held'[w] = held[w]
    BY DEF Others, Asking, Releasing, Taken
  <2> QED BY <2>1, <2>2 DEF OwnershipOf
<1>3. \A w \in Threads, m \in Mutexes : InLoop(w, m) => InLoop(w, m)'
  <2> SUFFICES ASSUME NEW w \in Threads, w # th, NEW m \in Mutexes, InLoop(w, m)
               PROVE  InLoop(w, m)'
    BY DEF KeepsClaims
  <2> QED BY DEF Others, InLoop
<1>4. WaitersAreWaiting'
  <2> SUFFICES ASSUME NEW m \in Mutexes, NEW w \in Waiters(blocking[m])
               PROVE  InLoop(w, m)'
    BY DEF IInv, WaitersAreWaiting
  <2>1. w \in Threads
    <3>1. blocking[m] \in Seq(Threads)
      BY DEF IInv, TypeOK
    <3> QED BY <3>1 DEF Waiters
  <2>2. InLoop(w, m)
    BY DEF IInv, WaitersAreWaiting
  <2> QED BY <1>3, <2>1, <2>2
<1>5. NoLostWakeup'
  <2> SUFFICES ASSUME NEW m \in Mutexes, ~locked'[m], blocking'[m] # <<>>
               PROVE  \E w \in Threads : Claimant(w, m)'
    BY DEF NoLostWakeup, Claimant
  <2>1. PICK w \in Threads : Claimant(w, m)
    BY DEF IInv, NoLostWakeup, Claimant
  <2>2. CASE w = th
    BY <2>1, <2>2 DEF KeepsClaims
  <2>3. CASE w # th
    <3>1. pc'[w] = pc[w] /\ mtx'[w] = mtx[w] /\ (state[w] = "running" => state'[w] = "running")
      BY ZenonT(60), <2>3 DEF Others, Scheduled
    <3> QED BY <1>3, <2>1, <3>1 DEF Claimant
  <2> QED BY <2>2, <2>3
<1>6. NotRunning'
  <2> SUFFICES ASSUME NEW w \in Threads, w # th, state'[w] # "running" PROVE NotRunningOf(w)'
    BY DEF NotRunning, NotRunningOf, OfThread
  <2>1. NotRunningOf(w) /\ mtx[w] \in Mutexes
    BY ZenonT(60) DEF IInv, NotRunning, TypeOK
  <2>2. /\ state[w] # "running" /\ state'[w] = state[w] /\ (w = current' => w = current)
        /\ pc'[w] = pc[w] /\ mtx'[w] = mtx[w]
    BY ZenonT(60) DEF Others, Scheduled
  <2>3. CASE pc[w] = "sleep" /\ state[w] = "sleeping"
    BY <2>2, <2>3 DEF NotRunningOf
  <2>4. CASE InLoop(w, mtx[w]) /\ w \in Waiters(blocking[mtx[w]]) /\ (w = current => locked[mtx[w]])
    <3>1. InLoop(w, mtx[w])'
      BY <1>3, <2>1, <2>2, <2>4 DEF InLoop, Others
    <3> QED BY <2>2, <2>4, <3>1 DEF NotRunningOf
  <2> QED BY <2>1, <2>2, <2>3, <2>4 DEF NotRunningOf
<1>7. ClockOK'
  <2> SUFFICES ASSUME NEW w \in Threads, w # th PROVE seen'[w] <= now'
    BY DEF ClockOK, OfThread
  <2>1. seen'[w] = seen[w] /\ seen[w] <= now /\ seen[w] \in Nat /\ now \in Nat /\ now' \in Nat
    BY ZenonT(60) DEF Others, IInv, ClockOK, TypeOK
  <2> QED BY <2>1
<1> QED BY <1>1, <1>2, <1>4, <1>5, <1>6, <1>7 DEF IInv

\* A step of the current thread th under the preemption lock, on the mutex of
\* its call: the other mutexes stay, and at this one th alone comes or goes, as
\* a waiter and as the owner.
OnItsMutex(th) ==
  /\ current = th /\ current' = th /\ pc[th] \in InPreemptionLock /\ mtx'[th] = mtx[th]
  /\ \A m \in Mutexes : m # mtx[th] =>
       locked'[m] = locked[m] /\ owner'[m] = owner[m] /\ blocking'[m] = blocking[m]
  /\ \A m \in Mutexes, w \in Threads : w # th => (owner'[m] = w <=> owner[m] = w)
  /\ NoDuplicates(blocking'[mtx[th]])
  /\ \A w \in Threads : w # th =>
       (w \in Waiters(blocking'[mtx[th]]) <=> w \in Waiters(blocking[mtx[th]]))

\* Such a step keeps the invariant if it keeps what the invariant says of th and
\* of its mutex.
LEMMA ListStep ==
  ASSUME IInv, NEW th \in Threads, TypeOK', Exclusion', OfThread(th)',
         Others(th), Scheduled(th), OnItsMutex(th), now' >= now,
         locked'[mtx[th]] <=> owner'[mtx[th]] # NoThread,
         th \in Waiters(blocking'[mtx[th]]) => InLoop(th, mtx[th])',
         locked'[mtx[th]] \/ blocking'[mtx[th]] = <<>> \/ Claimant(th, mtx[th])'
  PROVE  IInv'
<1>0. mtx[th] \in Mutexes
  BY DEF IInv, TypeOK
<1>1. CallShape'
  <2> SUFFICES ASSUME NEW w \in Threads, w # th PROVE CallShapeOf(w)'
    BY DEF CallShape, OfThread
  <2>1. CallShapeOf(w)
    BY ZenonT(60) DEF IInv, CallShape
  <2> QED BY <2>1 DEF Others, CallShapeOf, Expired
<1>2. \A w \in Threads : w # th => pc[w] \notin InPreemptionLock /\ pc'[w] = pc[w]
  BY ZenonT(60) DEF IInv, Exclusion, OnItsMutex, Others
<1>3. Ownership'
  <2>1. \A m \in Mutexes : locked'[m] <=> owner'[m] # NoThread
    BY ZenonT(60) DEF IInv, Ownership, OnItsMutex
  <2>2. ASSUME NEW w \in Threads, w # th PROVE OwnershipOf(w)'
    <3>1. OwnershipOf(w) /\ mtx[w] \in Mutexes /\ held[w] \subseteq Mutexes
      BY DEF IInv, Ownership, TypeOK
    <3>2. /\ Asking(w)' = Asking(w) /\ Releasing(w)' = Releasing(w) /\ Taken(w)' = Taken(w)
          /\ pc'[w] = pc[w] /\ mtx'[w] = mtx[w] /\ held'[w] = held[w]
      BY <2>2 DEF Others, Asking, Releasing, Taken
    <3>3. \A m \in Mutexes : owner'[m] = w <=> owner[m] = w
      BY ZenonT(60), <2>2 DEF OnItsMutex
    <3>4. pc[w] \notin {"take", "wake", "block", "expire"}
      BY ZenonT(60), <1>2, <2>2 DEF InPreemptionLock, InSpin
    <3> QED BY ZenonT(60), <3>1, <3>2, <3>3, <3>4 DEF OwnershipOf
  <2> QED BY <2>1, <2>2 DEF Ownership, OfThread
<1>4. \A w \in Threads, m \in Mutexes : w # th /\ InLoop(w, m) => InLoop(w, m)'
  BY DEF Others, InLoop
<1>5. \A m \in Mutexes : blocking[m] \in Seq(Threads) /\ blocking'[m] \in Seq(Threads)
  BY DEF IInv, TypeOK
<1>6. \A m \in Mutexes : m # mtx[th] => ~InLoop(th, m) /\ ~Claimant(th, m)
  BY ZenonT(60) DEF InLoop, Claimant
<1>7. WaitersAreWaiting'
  <2> SUFFICES ASSUME NEW m \in Mutexes
               PROVE  NoDuplicates(blocking'[m]) /\ \A w \in Waiters(blocking'[m]) : InLoop(w, m)'
    BY DEF WaitersAreWaiting
  <2>1. NoDuplicates(blocking'[m])
    BY ZenonT(60) DEF IInv, WaitersAreWaiting, OnItsMutex
  <2>2. ASSUME NEW w \in Waiters(blocking'[m]) PROVE InLoop(w, m)'
    <3>1. w \in Threads
      BY SMTT(30), SMTT(45), SMTT(60), <1>5 DEF Waiters
    <3>2. CASE w = th
      <4>1. m = mtx[th]
        BY ZenonT(60), <1>6, <2>2, <3>2 DEF IInv, WaitersAreWaiting, OnItsMutex
      <4> QED BY <2>2, <3>2, <4>1 DEF InLoop, OnItsMutex
    <3>3. CASE w # th
      <4>1. w \in Waiters(blocking[m])
        BY ZenonT(60), <2>2, <3>1, <3>3 DEF OnItsMutex
      <4> QED BY ZenonT(60), <1>4, <3>1, <3>3, <4>1 DEF IInv, WaitersAreWaiting
    <3> QED BY <3>2, <3>3
  <2> QED BY <2>1, <2>2
<1>8. NoLostWakeup'
  <2> SUFFICES ASSUME NEW m \in Mutexes, ~locked'[m], blocking'[m] # <<>>
               PROVE  \E w \in Threads : Claimant(w, m)'
    BY ZenonT(60) DEF NoLostWakeup, Claimant
  <2>1. CASE m = mtx[th]
    BY <2>1 DEF Claimant, InLoop, OnItsMutex
  <2>2. CASE m # mtx[th]
    <3>0. ~locked[m] /\ blocking[m] # <<>> /\ blocking'[m] = blocking[m]
      BY ZenonT(60), <2>2 DEF OnItsMutex
    <3>1. PICK w \in Threads : Claimant(w, m)
      BY <3>0 DEF IInv, NoLostWakeup, Claimant
    <3>2. w # th
      BY ZenonT(60), <1>6, <2>2, <3>1
    <3>3. pc'[w] = pc[w] /\ mtx'[w] = mtx[w] /\ (state[w] = "running" => state'[w] = "running")
      BY ZenonT(60), <3>2 DEF Others, Scheduled
    <3> QED BY ZenonT(60), <1>4, <3>0, <3>1, <3>2, <3>3 DEF Claimant
  <2> QED BY <2>1, <2>2
<1>9. NotRunning'
  <2> SUFFICES ASSUME NEW w \in Threads, w # th, state'[w] # "running" PROVE NotRunningOf(w)'
    BY DEF NotRunning, NotRunningOf, OfThread
  <2>1. NotRunningOf(w) /\ mtx[w] \in Mutexes
    BY ZenonT(60) DEF IInv, NotRunning, TypeOK
  <2>2. /\ state[w] # "running" /\ state'[w] = state[w] /\ w # current'
        /\ pc'[w] = pc[w] /\ mtx'[w] = mtx[w]
    BY DEF Others, Scheduled, OnItsMutex
  <2>3. CASE pc[w] = "sleep" /\ state[w] = "sleeping"
    BY ZenonT(60), <2>2, <2>3 DEF NotRunningOf
  <2>4. CASE InLoop(w, mtx[w]) /\ w \in Waiters(blocking[mtx[w]])
    <3>1. InLoop(w, mtx[w])'
      BY <1>4, <2>1, <2>2, <2>4 DEF InLoop, Others
    <3>2. w \in Waiters(blocking'[mtx[w]])
      BY ZenonT(60), <2>1, <2>4 DEF OnItsMutex
    <3> QED BY ZenonT(60), <2>2, <3>1, <3>2 DEF NotRunningOf
  <2> QED BY ZenonT(60), <2>1, <2>2, <2>3, <2>4 DEF NotRunningOf
<1>10. ClockOK'
  <2> SUFFICES ASSUME NEW w \in Threads, w # th PROVE seen'[w] <= now'
    BY ZenonT(60) DEF ClockOK, OfThread
  <2>1. seen'[w] = seen[w] /\ seen[w] <= now /\ seen[w] \in Nat /\ now \in Nat /\ now' \in Nat
    BY SMTT(30), SMTT(45), SMTT(60) DEF Others, IInv, ClockOK, TypeOK
  <2> QED BY SMTT(30), SMTT(45), SMTT(60), <2>1
<1> QED BY <1>1, <1>3, <1>7, <1>8, <1>9, <1>10 DEF IInv

-----------------------------------------------------------------------------
(* A call enters, takes the mutex, gives up or waits, and an unlock wakes. *)

\* A caller enters StMutex_Lock, StMutex_LockWithTimeout or StMutex_TryLock.
LEMMA Keep_Call ==
  ASSUME IInv, NEW th \in Threads, NEW k \in {"lock", "timed", "try"},
         NEW m0 \in Mutexes, NEW t \in Nat, Call(th, k, m0, t)
  PROVE  IInv'
<1> USE DEF States, Kinds, Results, Places, InSpin, InPreemptionLock, LockKinds
<1>1. TypeOK'
  <2>1. now + t \in Nat /\ k \in Kinds
    BY DEF IInv, TypeOK
  <2>2. deadline' \in [Threads -> Nat]
    BY <2>1 DEF IInv, TypeOK, Call
  <2> QED BY ZenonT(60), <2>1, <2>2 DEF IInv, TypeOK, Call, At, Goto, CallUnchanged, cpuVars, threadVars,
                 mutexVars, callVars
<1>2. /\ current = th /\ pc[th] = "idle" /\ pc'[th] = "loop" /\ kind'[th] = k /\ mtx'[th] = m0
      /\ m0 \notin held[th] /\ UNCHANGED <<current, depth, irqOn, now, spin, state, seen, ret, held>>
      /\ UNCHANGED <<locked, owner, blocking>>
  BY DEF IInv, TypeOK, Call, At, Goto, CallUnchanged, cpuVars, threadVars, mutexVars, callVars
<1>3. Others(th) /\ Scheduled(th)
  BY DEF IInv, TypeOK, Others, Scheduled, Call, At, Goto, CallUnchanged, cpuVars, threadVars,
         mutexVars, callVars
<1>4. OfThread(th) /\ TypeOK
  BY EachThread DEF IInv
<1>5. Exclusion'
  BY ZenonT(60), <1>2, <1>3, <1>4 DEF IInv, TypeOK, Exclusion, Others
<1>6. CallShapeOf(th)'
  BY ZenonT(60), <1>2, <1>4 DEF OfThread, CallShapeOf, Expired
<1>7. OwnershipOf(th)'
  BY ZenonT(60), <1>2, <1>4 DEF TypeOK, OfThread, CallShapeOf, OwnershipOf, Asking, Releasing, Taken
<1>8. KeepsClaims(th)
  BY ZenonT(60), <1>2, <1>4 DEF OfThread, CallShapeOf, KeepsClaims, Claimant, InLoop
<1>9. NotRunningOf(th)'
  BY ZenonT(60), <1>2, <1>4 DEF OfThread, CallShapeOf, NotRunningOf, InLoop
<1>10. seen'[th] <= now' /\ now' >= now
  <2>1. seen[th] \in Nat /\ now \in Nat /\ seen[th] <= now
    BY <1>4 DEF TypeOK, OfThread
  <2>2. seen'[th] = seen[th] /\ now' = now
    BY ZenonT(60), <1>2
  <2> QED BY <2>1, <2>2
<1> QED BY ZenonT(60), <1>1, <1>2, <1>3, <1>5, <1>6, <1>7, <1>8, <1>9, <1>10, LocalStep DEF OfThread

\* A holder enters StMutex_Unlock.
LEMMA Keep_Unlock ==
  ASSUME IInv, NEW th \in Threads, StMutex_Unlock(th)
  PROVE  IInv'
<1> USE DEF States, Kinds, Results, Places, InSpin, InPreemptionLock, LockKinds
<1>1. TypeOK'
  BY SMTT(30), SMTT(45), SMTT(60) DEF IInv, TypeOK, Exclusion, StMutex_Unlock, At, Goto, CallUnchanged, cpuVars, threadVars,
         mutexVars, callVars
<1>2. /\ current = th /\ pc[th] = "idle" /\ pc'[th] = "loop" /\ kind'[th] = "unlock"
      /\ mtx'[th] \in held[th] /\ held'[th] = held[th] \ {mtx'[th]}
      /\ UNCHANGED <<current, depth, irqOn, now, spin, state, deadline, seen, ret>>
      /\ UNCHANGED <<locked, owner, blocking>>
  BY SMTT(30), SMTT(45), SMTT(60) DEF IInv, TypeOK, StMutex_Unlock, At, Goto, CallUnchanged, cpuVars, threadVars, mutexVars,
         callVars
<1>3. Others(th) /\ Scheduled(th)
  BY DEF IInv, TypeOK, Others, Scheduled, StMutex_Unlock, At, Goto, CallUnchanged, cpuVars,
         threadVars, mutexVars, callVars
<1>4. OfThread(th) /\ TypeOK
  BY EachThread DEF IInv
<1>5. Exclusion'
  BY ZenonT(60), <1>2, <1>3, <1>4 DEF IInv, TypeOK, Exclusion, Others
<1>6. CallShapeOf(th)'
  BY ZenonT(60), <1>2, <1>4 DEF OfThread, CallShapeOf, Expired
<1>7. OwnershipOf(th)'
  BY ZenonT(60), <1>2, <1>4 DEF TypeOK, OfThread, CallShapeOf, OwnershipOf, Asking, Releasing, Taken
<1>8. KeepsClaims(th)
  BY ZenonT(60), <1>2, <1>4 DEF OfThread, CallShapeOf, KeepsClaims, Claimant, InLoop
<1>9. NotRunningOf(th)'
  BY ZenonT(60), <1>2, <1>4 DEF OfThread, CallShapeOf, NotRunningOf, InLoop
<1>10. seen'[th] <= now' /\ now' >= now
  <2>1. seen[th] \in Nat /\ now \in Nat /\ seen[th] <= now
    BY <1>4 DEF TypeOK, OfThread
  <2>2. seen'[th] = seen[th] /\ now' = now
    BY ZenonT(60), <1>2
  <2> QED BY <2>1, <2>2
<1> QED BY ZenonT(60), <1>1, <1>2, <1>3, <1>5, <1>6, <1>7, <1>8, <1>9, <1>10, LocalStep DEF OfThread

\* The preemption lock is taken.
LEMMA Keep_LockPreemption ==
  ASSUME IInv, NEW th \in Threads, LockPreemption(th)
  PROVE  IInv'
<1> USE DEF States, Kinds, Results, Places, InSpin, InPreemptionLock, LockKinds
<1>1. TypeOK'
  BY SMTT(30), SMTT(45), SMTT(60) DEF IInv, TypeOK, Exclusion, LockPreemption, At, Goto, CallUnchanged, cpuVars, threadVars,
         mutexVars, callVars
<1>2. /\ current = th /\ pc[th] = "loop" /\ pc'[th] = "spin"
      /\ depth' = depth + 1 /\ UNCHANGED <<current, irqOn, now, spin, state, kind, mtx, deadline, ret, held>>
      /\ UNCHANGED <<locked, owner, blocking>> /\ (seen'[th] = now \/ seen'[th] = seen[th])
  BY ZenonT(60) DEF IInv, TypeOK, LockPreemption, At, Goto, CallUnchanged, cpuVars, threadVars, mutexVars,
         callVars
<1>3. Others(th) /\ Scheduled(th)
  BY ZenonT(60) DEF IInv, TypeOK, Others, Scheduled, LockPreemption, At, Goto, CallUnchanged, cpuVars,
         threadVars, mutexVars, callVars
<1>4. OfThread(th) /\ TypeOK
  BY EachThread DEF IInv
<1>5. Exclusion'
  BY SMTT(30), SMTT(45), SMTT(60), <1>2, <1>3, <1>4 DEF IInv, TypeOK, Exclusion, Others
<1>6. CallShapeOf(th)'
  BY ZenonT(60), <1>2, <1>4 DEF OfThread, CallShapeOf, Expired
<1>7. OwnershipOf(th)'
  BY ZenonT(60), <1>2, <1>4 DEF TypeOK, OfThread, CallShapeOf, OwnershipOf, Asking, Releasing, Taken
<1>8. KeepsClaims(th)
  BY ZenonT(60), <1>2, <1>4 DEF OfThread, CallShapeOf, KeepsClaims, Claimant, InLoop
<1>9. NotRunningOf(th)'
  BY ZenonT(60), <1>2, <1>4 DEF OfThread, CallShapeOf, NotRunningOf, InLoop
<1>10. seen'[th] <= now' /\ now' >= now
  <2>1. seen[th] \in Nat /\ now \in Nat /\ seen[th] <= now
    BY <1>4 DEF TypeOK, OfThread
  <2>2. now' = now /\ (seen'[th] = now \/ seen'[th] = seen[th])
    BY ZenonT(60), <1>2
  <2> QED BY SMTT(30), SMTT(45), SMTT(60), <2>1, <2>2
<1> QED BY ZenonT(60), <1>1, <1>2, <1>3, <1>5, <1>6, <1>7, <1>8, <1>9, <1>10, LocalStep DEF OfThread

\* The spinlock is taken.
LEMMA Keep_LockAndSaveIrq ==
  ASSUME IInv, NEW th \in Threads, LockAndSaveIrq(th)
  PROVE  IInv'
<1> USE DEF States, Kinds, Results, Places, InSpin, InPreemptionLock, LockKinds
<1>1. TypeOK'
  BY ZenonT(60) DEF IInv, TypeOK, Exclusion, LockAndSaveIrq, At, Goto, CallUnchanged, cpuVars,
         threadVars, mutexVars, callVars
<1>2. /\ current = th /\ pc[th] = "spin" /\ pc'[th] = IF kind[th] = "unlock" THEN "clear" ELSE "test"
      /\ irqOn' = FALSE /\ spin' = [spin EXCEPT ![mtx[th]] = TRUE]
      /\ UNCHANGED <<current, depth, now, state, kind, mtx, deadline, seen, ret, held>>
      /\ UNCHANGED <<locked, owner, blocking>>
  BY ZenonT(60) DEF IInv, TypeOK, LockAndSaveIrq, At, Goto, CallUnchanged, cpuVars, threadVars, mutexVars,
         callVars
<1>3. Others(th) /\ Scheduled(th)
  BY DEF IInv, TypeOK, Others, Scheduled, LockAndSaveIrq, At, Goto, CallUnchanged, cpuVars,
         threadVars, mutexVars, callVars
<1>4. OfThread(th) /\ TypeOK
  BY EachThread DEF IInv
<1>5. Exclusion'
  BY ZenonT(60), <1>2, <1>3, <1>4 DEF IInv, TypeOK, Exclusion, Others
<1>6. CallShapeOf(th)'
  <2>1. kind[th] \in {"lock", "timed", "try", "unlock"}
    BY <1>2, <1>4 DEF TypeOK, OfThread, CallShapeOf
  <2>2. pc'[th] = IF kind[th] = "unlock" THEN "clear" ELSE "test"
    BY ZenonT(60), <1>2
  <2>3. kind' = kind
    BY ZenonT(60), <1>2
  <2> QED BY <2>1, <2>2, <2>3 DEF CallShapeOf
<1>7. OwnershipOf(th)'
  BY <1>2, <1>4 DEF TypeOK, OfThread, CallShapeOf, OwnershipOf, Asking, Releasing, Taken
<1>8. KeepsClaims(th)
  BY ZenonT(60), <1>2, <1>4 DEF OfThread, CallShapeOf, KeepsClaims, Claimant, InLoop
<1>9. NotRunningOf(th)'
  BY ZenonT(60), <1>2, <1>4 DEF OfThread, CallShapeOf, NotRunningOf, InLoop
<1>10. seen'[th] <= now' /\ now' >= now
  <2>1. seen[th] \in Nat /\ now \in Nat /\ seen[th] <= now
    BY <1>4 DEF TypeOK, OfThread
  <2>2. seen'[th] = seen[th] /\ now' = now
    BY ZenonT(60), <1>2
  <2> QED BY <2>1, <2>2
<1> QED BY ZenonT(60), <1>1, <1>2, <1>3, <1>5, <1>6, <1>7, <1>8, <1>9, <1>10, LocalStep DEF OfThread

\* mtx->locked and the deadline are looked at.
LEMMA Keep_Test ==
  ASSUME IInv, NEW th \in Threads, Test(th)
  PROVE  IInv'
<1> USE DEF States, Kinds, Results, Places, InSpin, InPreemptionLock, LockKinds
<1>1. TypeOK'
  BY ZenonT(60) DEF IInv, TypeOK, Exclusion, Test, Decide, At, Goto, CallUnchanged, cpuVars, threadVars,
         mutexVars, callVars
<1>2. /\ current = th /\ pc[th] = "test"
      /\ pc'[th] = IF ~locked[mtx[th]] THEN "take" ELSE IF kind[th] = "try" THEN "unspin"
                   ELSE IF Expired(th) THEN "expire" ELSE "block"
      /\ ret'[th] = IF pc'[th] = "unspin" THEN "busy" ELSE ret[th]
      /\ UNCHANGED <<current, depth, irqOn, now, spin, state, kind, mtx, deadline, seen, held>>
      /\ UNCHANGED <<locked, owner, blocking>>
  BY ZenonT(60) DEF IInv, TypeOK, Test, Decide, At, Goto, CallUnchanged, cpuVars, threadVars, mutexVars,
         callVars
<1>3. Others(th) /\ Scheduled(th)
  BY DEF IInv, TypeOK, Others, Scheduled, Test, Decide, At, Goto, CallUnchanged, cpuVars,
         threadVars, mutexVars, callVars
<1>4. OfThread(th) /\ TypeOK
  BY EachThread DEF IInv
<1>5. Exclusion'
  BY ZenonT(60), <1>2, <1>3, <1>4 DEF IInv, TypeOK, Exclusion, Others
<1>6. CallShapeOf(th)'
  BY <1>2, <1>4 DEF OfThread, CallShapeOf, Expired
<1>7. OwnershipOf(th)'
  BY ZenonT(60), <1>2, <1>4 DEF TypeOK, OfThread, CallShapeOf, OwnershipOf, Asking, Releasing, Taken
<1>8. KeepsClaims(th)
  BY ZenonT(60), <1>2, <1>4 DEF OfThread, CallShapeOf, KeepsClaims, Claimant, InLoop
<1>9. NotRunningOf(th)'
  BY ZenonT(60), <1>2, <1>4 DEF OfThread, CallShapeOf, NotRunningOf, InLoop
<1>10. seen'[th] <= now' /\ now' >= now
  <2>1. seen[th] \in Nat /\ now \in Nat /\ seen[th] <= now
    BY <1>4 DEF TypeOK, OfThread
  <2>2. seen'[th] = seen[th] /\ now' = now
    BY <1>2
  <2> QED BY <2>1, <2>2
<1> QED BY ZenonT(60), <1>1, <1>2, <1>3, <1>5, <1>6, <1>7, <1>8, <1>9, <1>10, LocalStep DEF OfThread

\* The free mutex is taken.
LEMMA Keep_Take ==
  ASSUME IInv, NEW th \in Threads, Take(th)
  PROVE  IInv'
<1> USE DEF States, Kinds, Results, Places, InSpin, InPreemptionLock, LockKinds
<1>1. TypeOK /\ Exclusion /\ OfThread(th) /\ mtx[th] \in Mutexes
  BY ZenonT(60), EachThread DEF IInv, TypeOK
<1>2. blocking[mtx[th]] \in Seq(Threads) /\ NoDuplicates(blocking[mtx[th]])
  BY ZenonT(60), <1>1 DEF IInv, TypeOK, WaitersAreWaiting
<1>3. /\ remove_blocking_thread(blocking[mtx[th]], th) \in Seq(Threads)
      /\ NoDuplicates(remove_blocking_thread(blocking[mtx[th]], th))
      /\ Waiters(remove_blocking_thread(blocking[mtx[th]], th)) = Waiters(blocking[mtx[th]]) \ {th}
  BY ZenonT(60), <1>2, RemoveWaiter
<1>4. /\ blocking' \in [Mutexes -> Seq(Threads)]
      /\ \A m \in Mutexes : m # mtx[th] => blocking'[m] = blocking[m]
      /\ NoDuplicates(blocking'[mtx[th]])
      /\ Waiters(blocking'[mtx[th]]) = Waiters(blocking[mtx[th]]) \ {th}
  <2>1. CASE kind[th] = "try"
    <3>1. th \notin Waiters(blocking[mtx[th]])
      BY ZenonT(60), <1>1, <2>1 DEF IInv, WaitersAreWaiting, InLoop
    <3> QED BY ZenonT(60), <1>1, <1>2, <2>1, <3>1 DEF Take, TypeOK
  <2>2. CASE kind[th] # "try"
    BY ZenonT(60), <1>1, <1>3, <2>2 DEF Take, TypeOK
  <2> QED BY ZenonT(60), <2>1, <2>2
<1>5. /\ current = th /\ pc[th] = "take" /\ pc'[th] = "unspin" /\ ret'[th] = "success"
      /\ locked'[mtx[th]] = TRUE /\ owner'[mtx[th]] = th
      /\ \A m \in Mutexes : m # mtx[th] => locked'[m] = locked[m] /\ owner'[m] = owner[m]
      /\ UNCHANGED <<current, depth, irqOn, now, spin, kind, mtx, deadline, seen, held, state>>
  BY ZenonT(60), <1>1 DEF TypeOK, Take, At, Goto, CallUnchanged, cpuVars, threadVars, mutexVars, callVars
<1>6. TypeOK'
  BY ZenonT(60), <1>1, <1>4 DEF TypeOK, Take, At, Goto, CallUnchanged, cpuVars, threadVars, mutexVars, callVars
<1>7. Others(th) /\ Scheduled(th)
  BY <1>1 DEF TypeOK, Others, Scheduled, Take, At, Goto, CallUnchanged, cpuVars, threadVars,
         mutexVars, callVars
<1>8. Exclusion'
  BY ZenonT(60), <1>1, <1>5, <1>7 DEF TypeOK, Exclusion, Others
<1>9. OnItsMutex(th)
  <2>1. owner[mtx[th]] = NoThread
    BY ZenonT(60), <1>1, <1>5 DEF OfThread, OwnershipOf, IInv, Ownership
  <2>2. \A m \in Mutexes, w \in Threads : w # th => (owner'[m] = w <=> owner[m] = w)
    BY ZenonT(60), <1>5, <2>1, ThreadsAssumption
  <2> QED BY ZenonT(60), <1>1, <1>2, <1>4, <1>5, <2>2 DEF OnItsMutex
<1>10. CallShapeOf(th)'
  BY <1>1, <1>5 DEF OfThread, CallShapeOf, Expired
<1>11. OwnershipOf(th)'
  <2>1. held[th] \subseteq Mutexes /\ kind[th] \in {"lock", "timed", "try"}
    BY ZenonT(60), <1>1, <1>5 DEF TypeOK, OfThread, CallShapeOf
  <2>2. /\ owner[mtx[th]] # th
        /\ \A m \in held[th] : owner[m] = th
        /\ \A m \in Mutexes : owner[m] = th => m \in held[th]
    BY ZenonT(60), <1>1, <1>5, <2>1 DEF OfThread, OwnershipOf, Asking, Releasing, Taken
  <2>3. mtx[th] \notin held[th]
    BY <2>2
  <2> QED BY ZenonT(60), <1>1, <1>5, <2>1, <2>2, <2>3 DEF OwnershipOf, Asking, Releasing, Taken
<1>12. NotRunningOf(th)'
  BY ZenonT(60), <1>1, <1>4, <1>5
     DEF OfThread, CallShapeOf, OwnershipOf, NotRunningOf, InLoop, Expired
<1>13. seen'[th] <= now' /\ now' >= now
  <2>1. seen[th] \in Nat /\ now \in Nat /\ seen[th] <= now
    BY ZenonT(60), <1>1 DEF TypeOK, OfThread
  <2>2. now' = now /\ seen'[th] = seen[th]
    BY ZenonT(60), <1>5
  <2> QED BY <2>1, <2>2
<1>14. /\ locked'[mtx[th]] <=> owner'[mtx[th]] # NoThread
       /\ th \in Waiters(blocking'[mtx[th]]) => InLoop(th, mtx[th])'
       /\ locked'[mtx[th]] \/ blocking'[mtx[th]] = <<>> \/ Claimant(th, mtx[th])'
  BY ZenonT(60), <1>4, <1>5, ThreadsAssumption
<1> QED BY ZenonT(60), <1>6, <1>7, <1>8, <1>9, <1>10, <1>11, <1>12, <1>13, <1>14, ListStep
           DEF OfThread

\* The call gives up at its deadline.
LEMMA Keep_Expire ==
  ASSUME IInv, NEW th \in Threads, Expire(th)
  PROVE  IInv'
<1> USE DEF States, Kinds, Results, Places, InSpin, InPreemptionLock, LockKinds
<1>1. TypeOK /\ Exclusion /\ OfThread(th) /\ mtx[th] \in Mutexes
  BY ZenonT(60), EachThread DEF IInv, TypeOK
<1>2. blocking[mtx[th]] \in Seq(Threads) /\ NoDuplicates(blocking[mtx[th]])
  BY ZenonT(60), <1>1 DEF IInv, TypeOK, WaitersAreWaiting
<1>3. /\ remove_blocking_thread(blocking[mtx[th]], th) \in Seq(Threads)
      /\ NoDuplicates(remove_blocking_thread(blocking[mtx[th]], th))
      /\ Waiters(remove_blocking_thread(blocking[mtx[th]], th)) = Waiters(blocking[mtx[th]]) \ {th}
  BY <1>2, RemoveWaiter
<1>4. /\ blocking' \in [Mutexes -> Seq(Threads)]
      /\ \A m \in Mutexes : m # mtx[th] => blocking'[m] = blocking[m]
      /\ NoDuplicates(blocking'[mtx[th]])
      /\ Waiters(blocking'[mtx[th]]) = Waiters(blocking[mtx[th]]) \ {th}
  BY ZenonT(60), <1>1, <1>3 DEF Expire, TypeOK
<1>5. /\ current = th /\ pc[th] = "expire" /\ pc'[th] = "unspin" /\ ret'[th] = "expired"
      /\ state'[th] = "running"
      /\ UNCHANGED <<current, depth, irqOn, now, spin, kind, mtx, deadline, seen, held, locked, owner>>
  BY ZenonT(60), <1>1 DEF TypeOK, Expire, At, Goto, CallUnchanged, cpuVars, threadVars, mutexVars, callVars
<1>6. TypeOK'
  BY ZenonT(60), <1>1, <1>4
     DEF TypeOK, Expire, At, Goto, CallUnchanged, cpuVars, threadVars, mutexVars, callVars
<1>7. Others(th) /\ Scheduled(th)
  BY <1>1 DEF TypeOK, Others, Scheduled, Expire, At, Goto, CallUnchanged, cpuVars, threadVars,
         mutexVars, callVars
<1>8. Exclusion'
  BY ZenonT(60), <1>1, <1>5, <1>7 DEF TypeOK, Exclusion, Others
<1>9. OnItsMutex(th)
  BY ZenonT(60), <1>1, <1>2, <1>4, <1>5 DEF OnItsMutex
<1>10. CallShapeOf(th)'
  BY ZenonT(60), <1>1, <1>5 DEF OfThread, CallShapeOf, Expired
<1>11. OwnershipOf(th)'
  BY ZenonT(60), <1>1, <1>5
     DEF TypeOK, OfThread, CallShapeOf, OwnershipOf, Asking, Releasing, Taken, Expired
<1>12. NotRunningOf(th)'
  BY ZenonT(60), <1>1, <1>4, <1>5
     DEF OfThread, CallShapeOf, OwnershipOf, NotRunningOf, InLoop, Expired
<1>13. seen'[th] <= now' /\ now' >= now
  <2>1. seen[th] \in Nat /\ now \in Nat /\ seen[th] <= now
    BY ZenonT(60), <1>1 DEF TypeOK, OfThread
  <2>2. now' = now /\ seen'[th] = seen[th]
    BY ZenonT(60), <1>5
  <2> QED BY <2>1, <2>2
<1>14. /\ locked'[mtx[th]] <=> owner'[mtx[th]] # NoThread
       /\ th \in Waiters(blocking'[mtx[th]]) => InLoop(th, mtx[th])'
       /\ locked'[mtx[th]] \/ blocking'[mtx[th]] = <<>> \/ Claimant(th, mtx[th])'
  <2>1. locked[mtx[th]] /\ owner[mtx[th]] # NoThread
    BY ZenonT(60), <1>1, <1>5 DEF OfThread, OwnershipOf, IInv, Ownership
  <2> QED BY ZenonT(60), <1>4, <1>5, <2>1
<1> QED BY ZenonT(60), <1>6, <1>7, <1>8, <1>9, <1>10, <1>11, <1>12, <1>13, <1>14, ListStep
           DEF OfThread

\* The caller becomes a waiter.
LEMMA Keep_Block ==
  ASSUME IInv, NEW th \in Threads, Block(th)
  PROVE  IInv'
<1> USE DEF States, Kinds, Results, Places, InSpin, InPreemptionLock, LockKinds
<1>1. TypeOK /\ Exclusion /\ OfThread(th) /\ mtx[th] \in Mutexes
  BY ZenonT(60), EachThread DEF IInv, TypeOK
<1>2. blocking[mtx[th]] \in Seq(Threads) /\ NoDuplicates(blocking[mtx[th]])
  BY <1>1 DEF IInv, TypeOK, WaitersAreWaiting
<1>3. /\ add_blocking_thread(blocking[mtx[th]], th) \in Seq(Threads)
      /\ NoDuplicates(add_blocking_thread(blocking[mtx[th]], th))
      /\ Waiters(add_blocking_thread(blocking[mtx[th]], th)) = Waiters(blocking[mtx[th]]) \cup {th}
  BY SMTT(30), SMTT(45), SMTT(60), <1>2, AddWaiter
<1>4. /\ blocking' \in [Mutexes -> Seq(Threads)]
      /\ \A m \in Mutexes : m # mtx[th] => blocking'[m] = blocking[m]
      /\ NoDuplicates(blocking'[mtx[th]])
      /\ Waiters(blocking'[mtx[th]]) = Waiters(blocking[mtx[th]]) \cup {th}
  BY ZenonT(60), <1>1, <1>3 DEF Block, TypeOK
<1>5. /\ current = th /\ pc[th] = "block" /\ pc'[th] = "unspin" /\ ret'[th] = "wait"
      /\ state'[th] # "running"
      /\ UNCHANGED <<current, depth, irqOn, now, spin, kind, mtx, deadline, seen, held, locked, owner>>
  BY ZenonT(60), <1>1 DEF TypeOK, Block, At, Goto, CallUnchanged, cpuVars, threadVars, mutexVars, callVars
<1>6. TypeOK'
  BY ZenonT(60), <1>1, <1>4 DEF TypeOK, Block, At, Goto, CallUnchanged, cpuVars, threadVars, mutexVars, callVars
<1>7. Others(th) /\ Scheduled(th)
  BY ZenonT(60), <1>1 DEF TypeOK, Others, Scheduled, Block, At, Goto, CallUnchanged, cpuVars, threadVars,
         mutexVars, callVars
<1>8. Exclusion'
  BY ZenonT(60), <1>1, <1>5, <1>7 DEF TypeOK, Exclusion, Others
<1>9. OnItsMutex(th)
  BY ZenonT(60), <1>1, <1>2, <1>4, <1>5 DEF OnItsMutex
<1>10. CallShapeOf(th)'
  BY ZenonT(60), <1>1, <1>5 DEF OfThread, CallShapeOf, Expired
<1>11. OwnershipOf(th)'
  BY ZenonT(60), <1>1, <1>5 DEF TypeOK, OfThread, CallShapeOf, OwnershipOf, Asking, Releasing, Taken, Expired
<1>12. NotRunningOf(th)'
  BY ZenonT(60), <1>1, <1>4, <1>5 DEF OfThread, CallShapeOf, OwnershipOf, NotRunningOf, InLoop, Expired
<1>13. seen'[th] <= now' /\ now' >= now
  BY SMTT(30), SMTT(45), SMTT(60), <1>1, <1>5 DEF TypeOK, OfThread
<1>14. /\ locked'[mtx[th]] <=> owner'[mtx[th]] # NoThread
       /\ th \in Waiters(blocking'[mtx[th]]) => InLoop(th, mtx[th])'
       /\ locked'[mtx[th]] \/ blocking'[mtx[th]] = <<>> \/ Claimant(th, mtx[th])'
  <2>1. locked[mtx[th]] /\ owner[mtx[th]] # NoThread
    BY ZenonT(60), <1>1, <1>5 DEF OfThread, OwnershipOf, IInv, Ownership
  <2>2. InLoop(th, mtx[th])'
    BY ZenonT(60), <1>1, <1>5 DEF OfThread, CallShapeOf, InLoop
  <2> QED BY ZenonT(60), <1>5, <2>1, <2>2
<1> QED BY ZenonT(60), <1>6, <1>7, <1>8, <1>9, <1>10, <1>11, <1>12, <1>13, <1>14, ListStep DEF OfThread

\* The owner is cleared.
LEMMA Keep_Clear ==
  ASSUME IInv, NEW th \in Threads, Clear(th)
  PROVE  IInv'
<1> USE DEF States, Kinds, Results, Places, InSpin, InPreemptionLock, LockKinds
<1>1. TypeOK /\ Exclusion /\ OfThread(th) /\ mtx[th] \in Mutexes
  BY ZenonT(60), EachThread DEF IInv, TypeOK
<1>2. blocking[mtx[th]] \in Seq(Threads) /\ NoDuplicates(blocking[mtx[th]])
  BY <1>1 DEF IInv, TypeOK, WaitersAreWaiting
<1>4. blocking' = blocking
  BY ZenonT(60) DEF Clear, threadVars
<1>5. /\ current = th /\ pc[th] = "clear" /\ pc'[th] = "wake" /\ ret'[th] = "unlocked"
      /\ locked'[mtx[th]] = FALSE /\ owner'[mtx[th]] = NoThread
      /\ \A m \in Mutexes : m # mtx[th] => locked'[m] = locked[m] /\ owner'[m] = owner[m]
      /\ UNCHANGED <<current, depth, irqOn, now, spin, kind, mtx, deadline, seen, held, state>>
  BY ZenonT(60), <1>1 DEF TypeOK, Clear, At, Goto, CallUnchanged, cpuVars, threadVars, mutexVars, callVars
<1>6. TypeOK'
  BY ZenonT(60), <1>1, <1>4 DEF TypeOK, Clear, At, Goto, CallUnchanged, cpuVars, threadVars, mutexVars, callVars
<1>7. Others(th) /\ Scheduled(th)
  BY ZenonT(60), <1>1 DEF TypeOK, Others, Scheduled, Clear, At, Goto, CallUnchanged, cpuVars, threadVars,
         mutexVars, callVars
<1>8. Exclusion'
  BY ZenonT(60), <1>1, <1>5, <1>7 DEF TypeOK, Exclusion, Others
<1>9. OnItsMutex(th)
  <2>1. owner[mtx[th]] = th
    BY ZenonT(60), <1>1, <1>5 DEF OfThread, OwnershipOf, CallShapeOf, Releasing
  <2>2. \A m \in Mutexes, w \in Threads : w # th => (owner'[m] = w <=> owner[m] = w)
    BY ZenonT(60), <1>5, <2>1, ThreadsAssumption
  <2> QED BY ZenonT(60), <1>1, <1>2, <1>4, <1>5, <2>2 DEF OnItsMutex
<1>10. CallShapeOf(th)'
  BY ZenonT(60), <1>1, <1>5 DEF OfThread, CallShapeOf, Expired
<1>11. OwnershipOf(th)'
  <2>1. kind[th] = "unlock" /\ mtx[th] \notin held[th] /\ held[th] \subseteq Mutexes
    BY ZenonT(60), <1>1, <1>5 DEF TypeOK, OfThread, CallShapeOf, OwnershipOf, Releasing
  <2>2. \A m \in held[th] : m # mtx[th] /\ owner'[m] = th
    BY ZenonT(60), <1>1, <1>5, <2>1 DEF OfThread, OwnershipOf
  <2>3. \A m \in Mutexes : owner'[m] = th => m \in held[th]
    BY ZenonT(60), <1>1, <1>5, ThreadsAssumption DEF OfThread, OwnershipOf
  <2> QED BY ZenonT(60), <1>5, <2>1, <2>2, <2>3 DEF OwnershipOf, Asking, Releasing, Taken
<1>12. NotRunningOf(th)'
  BY ZenonT(60), <1>1, <1>4, <1>5 DEF OfThread, CallShapeOf, OwnershipOf, NotRunningOf, InLoop, Expired
<1>13. seen'[th] <= now' /\ now' >= now
  BY <1>1, <1>5 DEF TypeOK, OfThread
<1>14. /\ locked'[mtx[th]] <=> owner'[mtx[th]] # NoThread
       /\ th \in Waiters(blocking'[mtx[th]]) => InLoop(th, mtx[th])'
       /\ locked'[mtx[th]] \/ blocking'[mtx[th]] = <<>> \/ Claimant(th, mtx[th])'
  BY ZenonT(60), <1>1, <1>4, <1>5, ThreadsAssumption
     DEF OfThread, CallShapeOf, IInv, WaitersAreWaiting, TypeOK, InLoop, Claimant
<1> QED BY ZenonT(60), <1>6, <1>7, <1>8, <1>9, <1>10, <1>11, <1>12, <1>13, <1>14, ListStep DEF OfThread

\* The first waiter, if there is one, is woken.
LEMMA Keep_unblock ==
  ASSUME IInv, NEW th \in Threads, unblock_blocking_thread(th)
  PROVE  IInv'
<1> USE DEF IInv, unblock_blocking_thread, Unblock, At, Goto, Return, CallUnchanged, cpuVars, threadVars, mutexVars, callVars, States, Kinds, Results, Places, InSpin, InPreemptionLock, LockKinds
<1> DEFINE m0 == mtx[th]
           hd == Head(blocking[m0])
           tl == Tail(blocking[m0])
<1>a. /\ m0 \in Mutexes
      /\ \A m \in Mutexes : NoDuplicates(blocking[m]) /\ blocking[m] \in Seq(Threads)
  BY ZenonT(60) DEF TypeOK, WaitersAreWaiting
<1>b. blocking[m0] # <<>> =>
             /\ hd \in Threads /\ hd \in Waiters(blocking[m0])
             /\ tl \in Seq(Threads) /\ NoDuplicates(tl)
             /\ Waiters(tl) = Waiters(blocking[m0]) \ {hd}
  BY ZenonT(60), <1>a, PopWaiter
<1>c. /\ blocking[m0] = <<>> => UNCHANGED <<state, sleepUntil, blocking>>
      /\ blocking[m0] # <<>> =>
           /\ blocking' = [blocking EXCEPT ![m0] = tl]
           /\ sleepUntil' = [sleepUntil EXCEPT ![hd] = 0]
           /\ state' = [state EXCEPT ![hd] = IF @ \in {"blocking", "sleeping"} THEN "running" ELSE @]
  BY ZenonT(60)
<1>f. /\ pc' = [pc EXCEPT ![th] = "unspin"] /\ pc[th] = "wake" /\ current = th
      /\ UNCHANGED <<current, depth, irqOn, now, spin, locked, owner, kind, mtx, deadline, seen, ret, held>>
  OBVIOUS
<1> HIDE DEF m0, hd, tl, unblock_blocking_thread, Unblock
<1>g. blocking[m0] # <<>> =>
             /\ state' \in [Threads -> States] /\ sleepUntil' \in [Threads -> Nat]
             /\ state'[hd] = "running"
             /\ \A w \in Threads : w # hd => state'[w] = state[w]
  <2> HAVE blocking[m0] # <<>>
  <2>1. state \in [Threads -> {"running", "blocking", "sleeping"}] /\ sleepUntil \in [Threads -> Nat]
    BY ZenonT(60) DEF TypeOK
  <2>2. state[hd] \in {"running", "blocking", "sleeping"}
    BY ZenonT(60), <1>b, <2>1
  <2>3. state' = [state EXCEPT ![hd] = "running"]
    <3>1. CASE state[hd] = "running"
      BY <1>b, <1>c, <2>1, <3>1
    <3>2. CASE state[hd] \in {"blocking", "sleeping"}
      BY <1>b, <1>c, <2>1, <3>2
    <3> QED BY <2>2, <3>1, <3>2
  <2> QED BY SMTT(30), SMTT(45), SMTT(60), <1>b, <1>c, <2>1, <2>3
<1>h. blocking[m0] # <<>> =>
             /\ blocking' \in [Mutexes -> Seq(Threads)] /\ blocking'[m0] = tl
             /\ \A m \in Mutexes : m # m0 => blocking'[m] = blocking[m]
  <2> HAVE blocking[m0] # <<>>
  <2>1. blocking \in [Mutexes -> Seq(Threads)] /\ blocking' = [blocking EXCEPT ![m0] = tl]
    BY ZenonT(60), <1>c DEF TypeOK
  <2> QED BY <1>a, <1>b, <2>1
<1>d. /\ \A m \in Mutexes : m # m0 \/ blocking[m0] = <<>> => blocking'[m] = blocking[m]
      /\ blocking[m0] # <<>> => blocking'[m0] = tl /\ state'[hd] = "running"
      /\ \A w \in Threads : blocking[m0] = <<>> \/ w # hd => state'[w] = state[w]
      /\ \A w \in Threads : state[w] = "running" => state'[w] = "running"
  BY ZenonT(60), <1>c, <1>g, <1>h
<1>e. \A m \in Mutexes : NoDuplicates(blocking'[m]) /\ Waiters(blocking'[m]) \subseteq Waiters(blocking[m])
  BY ZenonT(60), <1>a, <1>b, <1>d
<1>1. TypeOK'
  <2>1. CASE blocking[m0] = <<>>
    BY <1>c, <1>f, <2>1 DEF TypeOK
  <2>2. CASE blocking[m0] # <<>>
    BY ZenonT(60), <1>f, <1>g, <1>h, <2>2 DEF TypeOK
  <2> QED BY ZenonT(60), <2>1, <2>2
<1>2. Exclusion'
  BY ZenonT(60), <1>f DEF TypeOK, Exclusion
<1>3. CallShape'
  BY SMTT(30), SMTT(45), SMTT(60), <1>f DEF TypeOK, CallShape, CallShapeOf, Expired, Ownership, OwnershipOf, Exclusion
<1>4. Ownership'
  <2>1. pc'[th] = "unspin" /\ \A w \in Threads : w # th => pc'[w] = pc[w]
    BY ZenonT(60), <1>f DEF TypeOK
  <2>2. ASSUME NEW w \in Threads, w # th PROVE OwnershipOf(w)'
    BY <1>f, <2>1, <2>2 DEF Ownership, OwnershipOf, Asking, Releasing, Taken
  <2>3. OwnershipOf(th)'
    <3>1. OwnershipOf(th) /\ CallShapeOf(th)
      BY ZenonT(60) DEF Ownership, CallShape
    <3> QED BY ZenonT(60), <1>f, <2>1, <3>1 DEF OwnershipOf, CallShapeOf, Asking, Releasing, Taken
  <2>4. \A m \in Mutexes : (locked[m] <=> owner[m] # NoThread)'
    BY ZenonT(60), <1>f DEF Ownership
  <2> QED BY <2>2, <2>3, <2>4 DEF Ownership
<1>5. WaitersAreWaiting'
  BY SMTT(30), SMTT(45), SMTT(60), <1>e, <1>f DEF TypeOK, CallShape, CallShapeOf, WaitersAreWaiting, InLoop
<1>6. NoLostWakeup'
  <2> SUFFICES ASSUME NEW m \in Mutexes, ~locked'[m], blocking'[m] # <<>>
               PROVE  \E w \in Threads : Claimant(w, m)'
    BY DEF NoLostWakeup, Claimant
  <2>1. CASE m = m0
    <3>1. blocking[m0] # <<>>
      BY ZenonT(60), <1>a, <1>d, <2>1
    <3>2. InLoop(hd, m0) /\ hd # th
      BY SMTT(30), SMTT(45), SMTT(60), <1>a, <1>b, <1>f, <3>1 DEF WaitersAreWaiting, InLoop, m0
    <3>3. PICK h \in Threads : h = hd
      BY <1>b, <3>1
    <3>4. h \notin Waiters(blocking'[m]) /\ state'[h] = "running"
      BY ZenonT(60), <1>b, <1>d, <2>1, <3>1, <3>3
    <3>5. InLoop(h, m)'
      BY ZenonT(60), <1>f, <2>1, <3>2, <3>3 DEF TypeOK, InLoop
    <3> QED BY ZenonT(60), <3>4, <3>5 DEF Claimant
  <2>2. CASE m # m0
    <3>0. ~locked[m] /\ blocking[m] # <<>>
      BY ZenonT(60), <1>d, <1>f, <2>2
    <3>1. PICK w \in Threads : Claimant(w, m)
      BY ZenonT(60), <3>0 DEF NoLostWakeup, Claimant
    <3>2. Claimant(w, m)'
      BY ZenonT(60), <1>d, <1>f, <2>2, <3>1 DEF TypeOK, Claimant, InLoop, m0
    <3> QED BY ZenonT(60), <3>2
  <2> QED BY ZenonT(60), <2>1, <2>2
<1>7. NotRunning'
  <2> SUFFICES ASSUME NEW w \in Threads, state'[w] # "running"
               PROVE  \/ pc'[w] = "sleep" /\ state'[w] = "sleeping"
                      \/ /\ InLoop(w, mtx[w])'
                         /\ w \in Waiters(blocking'[mtx'[w]])
                         /\ w = current' => locked'[mtx'[w]]
    BY ZenonT(60) DEF NotRunning, NotRunningOf
  <2>1. state[w] # "running" /\ state'[w] = state[w] /\ (blocking[m0] # <<>> => w # hd)
    BY ZenonT(60), <1>d
  <2>2. CASE pc[w] = "sleep" /\ state[w] = "sleeping"
    BY <1>f, <2>1, <2>2 DEF TypeOK
  <2>3. CASE InLoop(w, mtx[w]) /\ w \in Waiters(blocking[mtx[w]])
    <3>1. w # th /\ mtx[w] \in Mutexes
      BY ZenonT(60), <1>f, <2>3 DEF InLoop, TypeOK
    <3>2. w \in Waiters(blocking'[mtx[w]])
      BY ZenonT(60), <1>a, <1>b, <1>d, <2>1, <2>3, <3>1 DEF WaitersAreWaiting, m0
    <3>3. InLoop(w, mtx[w])'
      BY ZenonT(60), <1>f, <2>3, <3>1 DEF InLoop, TypeOK
    <3> QED BY ZenonT(60), <1>f, <3>1, <3>2, <3>3
  <2> QED BY ZenonT(60), <2>1, <2>2, <2>3 DEF NotRunning, NotRunningOf
<1>8. ClockOK'
  BY <1>f DEF TypeOK, ClockOK
<1> QED BY ZenonT(60), <1>1, <1>2, <1>3, <1>4, <1>5, <1>6, <1>7, <1>8

=============================================================================
