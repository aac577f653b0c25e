------------------------------ MODULE Condition -----------------------------
(***************************************************************************)
(* A condition variable (util/Condition.h) of a MutexLock: the threads that*)
(* wait, and those that have been woken and still have to lock the mutex   *)
(* again.  Waiting gives the mutex up in the same step.                    *)
(***************************************************************************)
NewCondition == [waiting |-> {}, woken |-> {}]

Wait(c, t) == [waiting |-> c.waiting \cup {t}, woken |-> c.woken \ {t}]

Wake(c, t) == [waiting |-> c.waiting \ {t}, woken |-> c.woken \cup {t}]

\* What notify may make of c: pthread_cond_signal wakes some waiting thread.
Notify(c) == IF c.waiting = {} THEN {c} ELSE {Wake(c, t) : t \in c.waiting}

NotifyAll(c) == [waiting |-> {}, woken |-> c.woken \cup c.waiting]

\* t has the mutex again and wait() returns.
Return(c, t) == [c EXCEPT !.woken = @ \ {t}]

ConditionOf(T) == {c \in [waiting : SUBSET T, woken : SUBSET T] : c.waiting \cap c.woken = {}}
=============================================================================
