--------------------------------- MODULE Lock ---------------------------------
(* What mutex/mutex.c promises its callers, without the waiting: a call takes *)
(* effect in one step between its beginning and its end.  A lock is granted   *)
(* only while nobody owns the mutex, refused only to a call that may give up  *)
(* and only while another thread owns it, and released by its owner.          *)

CONSTANTS Threads, Mutexes, Nobody, NoArg

VARIABLES
    own,     \* own[m]: who owns the mutex
    has,     \* has[th]: the mutexes the thread was told it holds
    op,      \* op[th]: the call it is in
    arg,     \* arg[th]: its mutex, NoArg outside of calls
    done     \* done[th]: "no", or what the call has come to

lockVars == <<own, has, op, arg, done>>

LockInit ==
    /\ own = [m \in Mutexes |-> Nobody]
    /\ has = [th \in Threads |-> {}]
    /\ op = [th \in Threads |-> "none"]
    /\ arg = [th \in Threads |-> NoArg]
    /\ done = [th \in Threads |-> "no"]

Begin(th, o, m) ==
    /\ op[th] = "none"
    /\ o = "unlock" <=> m \in has[th]
    /\ op' = [op EXCEPT ![th] = o]
    /\ arg' = [arg EXCEPT ![th] = m]
    /\ has' = [has EXCEPT ![th] = @ \ {m}]
    /\ UNCHANGED <<own, done>>

Decide(th, ops, result) ==
    /\ op[th] \in ops
    /\ done[th] = "no"
    /\ done' = [done EXCEPT ![th] = result]
    /\ UNCHANGED <<has, op, arg>>

Grant(th) ==
    /\ Decide(th, {"lock", "timed", "try"}, "granted")
    /\ own[arg[th]] = Nobody
    /\ own' = [own EXCEPT ![arg[th]] = th]

Refuse(th) ==
    /\ Decide(th, {"timed", "try"}, "refused")
    /\ own[arg[th]] \notin {Nobody, th}
    /\ UNCHANGED own

Release(th) ==
    /\ Decide(th, {"unlock"}, "released")
    /\ own[arg[th]] = th
    /\ own' = [own EXCEPT ![arg[th]] = Nobody]

End(th) ==
    /\ done[th] # "no"
    /\ has' = [has EXCEPT ![th] = IF done[th] = "granted" THEN @ \cup {arg[th]} ELSE @]
    /\ op' = [op EXCEPT ![th] = "none"]
    /\ arg' = [arg EXCEPT ![th] = NoArg]
    /\ done' = [done EXCEPT ![th] = "no"]
    /\ UNCHANGED own

LockNext ==
    \E th \in Threads :
        \/ \E o \in {"lock", "timed", "try", "unlock"}, m \in Mutexes : Begin(th, o, m)
        \/ Grant(th) \/ Refuse(th) \/ Release(th) \/ End(th)

LockSpec == LockInit /\ [][LockNext]_lockVars

===============================================================================
