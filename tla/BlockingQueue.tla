---------------------------- MODULE BlockingQueue ---------------------------
(***************************************************************************)
(* The bounded queue of util/BlockingQueue.h: put and take under mutex_,   *)
(* with a condition for each side, and setMaxQueueSize, which takes no lock*)
(* and notifies nobody.                                                    *)
(*                                                                         *)
(* A critical section is one step, except that put reads maxQueueSize_     *)
(* twice: once to see whether there is a limit, and once for each test.    *)
(***************************************************************************)
EXTENDS Condition, Integers, Sequences

CONSTANTS Thread,     \* the threads that call put and take
          Task,       \* the elements, each put once
          NoTask, NoThread,
          Size,       \* what setMaxQueueSize is called with: -1 is no limit
          MaxChanges  \* bound on the calls of setMaxQueueSize

ASSUME ThreadAssumption == NoThread \notin Thread
ASSUME TaskAssumption == NoTask \notin Task
ASSUME SizeAssumption == Size \subseteq Int /\ MaxChanges \in Nat

VARIABLES
  queue,        \* queue_
  maxQueueSize, \* maxQueueSize_; 0 until it is set
  mutex,        \* who is inside put between its reads of maxQueueSize_
  notEmpty, notFull,
  call,         \* "put": between two tests or waiting; "take": waiting
  arg,          \* the element a thread wants to put
  changes,      \* number of calls of setMaxQueueSize
  changed       \* history: it was called after the first put

limitVars == <<maxQueueSize, changes, changed>>
queueVars == <<queue, mutex, notEmpty, notFull, call, arg, limitVars>>

QueueInit ==
  /\ queue = <<>> /\ maxQueueSize = 0 /\ mutex = NoThread
  /\ notEmpty = NewCondition /\ notFull = NewCondition
  /\ call = [t \in Thread |-> "none"] /\ arg = [t \in Thread |-> NoTask]
  /\ changes = 0 /\ changed = FALSE

Finish(t) == call' = [call EXCEPT ![t] = "none"] /\ arg' = [arg EXCEPT ![t] = NoTask]
-----------------------------------------------------------------------------
\* Faulty: a waiting consumer is notified of the first element only.
PushFirstNotifies(x) ==
  /\ queue' = Append(queue, x)
  /\ IF queue = <<>> THEN notEmpty' \in Notify(notEmpty) ELSE UNCHANGED notEmpty

\* Faulty: no consumer is notified.
PushSilently(x) == queue' = Append(queue, x) /\ UNCHANGED notEmpty

Push(x) == queue' = Append(queue, x) /\ notEmpty' \in Notify(notEmpty)

\* The comparison is one of size_t: a negative limit is larger than any size.
Full == maxQueueSize >= 0 /\ Len(queue) >= maxQueueSize

\* lock and the first read of maxQueueSize_: without a limit the element goes in.
EnterPut(t, x) ==
  /\ mutex = NoThread /\ call[t] = "none"
  /\ IF maxQueueSize = 0
       THEN Push(x) /\ UNCHANGED <<mutex, call, arg>>
       ELSE /\ mutex' = t
            /\ call' = [call EXCEPT ![t] = "put"] /\ arg' = [arg EXCEPT ![t] = x]
            /\ UNCHANGED <<queue, notEmpty>>
  /\ UNCHANGED <<notFull, limitVars>>

\* The test of the while loop; at 0 every size is too large.
TestFull(t) ==
  /\ mutex = t /\ mutex' = NoThread
  /\ IF Full THEN notFull' = Wait(notFull, t) /\ UNCHANGED <<queue, notEmpty, call, arg>>
             ELSE Push(arg[t]) /\ Finish(t) /\ UNCHANGED notFull
  /\ UNCHANGED limitVars

\* Faulty: if instead of while.
ResumePutUntested(t) ==
  /\ mutex = NoThread /\ t \in notFull.woken
  /\ notFull' = Return(notFull, t)
  /\ Push(arg[t]) /\ Finish(t)
  /\ UNCHANGED <<mutex, limitVars>>

ResumePut(t) ==
  /\ mutex = NoThread /\ t \in notFull.woken
  /\ mutex' = t /\ notFull' = Return(notFull, t)
  /\ UNCHANGED <<queue, notEmpty, call, arg, limitVars>>

\* Faulty: the element stays in the queue.
PopNothing == UNCHANGED queue /\ IF maxQueueSize = 0 THEN UNCHANGED notFull ELSE notFull' \in Notify(notFull)

\* Faulty: producers are notified only when the queue was full.
PopNotifiesIfFull ==
  /\ queue' = Tail(queue)
  /\ IF Full THEN notFull' \in Notify(notFull) ELSE UNCHANGED notFull

\* Faulty: producers are not notified.
PopSilently == queue' = Tail(queue) /\ UNCHANGED notFull

Pop == /\ queue' = Tail(queue)
       /\ IF maxQueueSize = 0 THEN UNCHANGED notFull ELSE notFull' \in Notify(notFull)

\* take: the caller waits, or leaves with the head of the queue.
Take(t) ==
  /\ mutex = NoThread /\ call[t] = "none"
  /\ IF queue = <<>>
       THEN /\ notEmpty' = Wait(notEmpty, t) /\ call' = [call EXCEPT ![t] = "take"]
            /\ UNCHANGED <<queue, notFull>>
       ELSE Pop /\ UNCHANGED <<notEmpty, call>>
  /\ UNCHANGED <<mutex, arg, limitVars>>

ResumeTake(t) ==
  /\ mutex = NoThread /\ t \in notEmpty.woken
  /\ IF queue = <<>>
       THEN notEmpty' = Wait(notEmpty, t) /\ UNCHANGED <<queue, notFull, call>>
       ELSE Pop /\ notEmpty' = Return(notEmpty, t) /\ call' = [call EXCEPT ![t] = "none"]
  /\ UNCHANGED <<mutex, arg, limitVars>>

\* pthread_cond_wait may return without a reason.
SpuriousWakeup ==
  /\ \/ \E t \in notEmpty.waiting : notEmpty' = Wake(notEmpty, t) /\ UNCHANGED notFull
     \/ \E t \in notFull.waiting : notFull' = Wake(notFull, t) /\ UNCHANGED notEmpty
  /\ UNCHANGED <<queue, mutex, call, arg, limitVars>>

SetMaxQueueSize(n) ==
  /\ changes < MaxChanges /\ changes' = changes + 1
  /\ maxQueueSize' = n
  /\ UNCHANGED <<queue, mutex, notEmpty, notFull, call, arg>>
=============================================================================
