----------------------------- MODULE TimerQueue -----------------------------
(***************************************************************************)
(* The TimerQueue of one Eventloop (reactor/TimeEvent.h, TimeEvent.cpp):   *)
(* timers_, activeTimers_, the batch of expired timers that handleRead     *)
(* runs, and the timerfd.                                                  *)
(*                                                                         *)
(* Callbacks, tasks and timers on the loop's thread call addTimer and      *)
(* cancel, which then act at once; calls from other threads arrive as      *)
(* tasks, in order (module SerialExecutor).  A member of Timer is one      *)
(* allocation together with its sequence_, so an address that is used      *)
(* again is another member.  Time advances in units of the 100 us that     *)
(* howMuchTimeFromNow waits at least.                                      *)
(***************************************************************************)
EXTENDS Integers, Sequences

CONSTANTS Timer,    \* every Timer ever allocated
          Repeat,   \* those with repeat_, and ...
          Interval, \* ... their interval_, which may round to 0
          Horizon,  \* bound on the times that callers ask for
          MaxTime,  \* bound on the clock
          NoTime, NoTimer

ASSUME IntervalAssumption == Repeat \subseteq Timer /\ Interval \in [Repeat -> Nat]
ASSUME BoundAssumption == Horizon \in Nat /\ MaxTime \in Nat \ {0} /\ Horizon <= MaxTime
ASSUME NoneAssumption == NoTime \notin Int /\ NoTimer \notin Timer

VARIABLES
  now,        \* the clock
  time,       \* time_ of every timer
  allocated,  \* timers on the heap
  deleted,    \* timers deleted
  timers,     \* timers_: pairs of a time and a timer
  active,     \* activeTimers_
  armed,      \* when the timerfd becomes readable, or NoTime
  tasks,      \* calls of other threads that the loop has not executed
  expired,    \* handleRead's expired, a set of such pairs
  ran,        \* the expired timers whose callback has been started
  batchNow,   \* handleRead's now
  calling,    \* callingExpiredTimers_
  canceling,  \* cancelingTimers_
  current,    \* the timer whose callback is running
  asked,      \* history: timers for which cancel was called
  cancelled   \* history: timers in the queue or in the batch when cancelled

heapVars == <<allocated, deleted>>
setVars == <<time, timers, active>>
batchVars == <<expired, ran, batchNow, calling, canceling, current>>
historyVars == <<asked, cancelled>>
vars == <<now, heapVars, setVars, armed, tasks, batchVars, historyVars>>

Init == /\ now = 1
        /\ time = [t \in Timer |-> 0] /\ timers = {} /\ active = {}
        /\ allocated = {} /\ deleted = {}
        /\ armed = NoTime /\ tasks = <<>>
        /\ expired = {} /\ ran = {} /\ batchNow = 0
        /\ calling = FALSE /\ canceling = {} /\ current = NoTimer
        /\ asked = {} /\ cancelled = {}
-----------------------------------------------------------------------------
Later(a, b) == IF a > b THEN a ELSE b

\* resetTimerfd: the timerfd expires at the given time, never in the past.
\* At MaxTime, where the clock stops, the least delay is 0.
ArmAt(when) == armed' = Later(when, IF now < MaxTime THEN now + 1 ELSE now)

\* Callbacks and tasks run on the loop's thread between two polls.
InLoopThread == ~calling \/ current # NoTimer

\* Faulty: the timerfd is armed for the first timer only.
AddTimerInLoopUnarmed(t, when) ==
  /\ timers' = timers \cup {<<when, t>>}
  /\ active' = active \cup {t}
  /\ IF timers = {} THEN ArmAt(when) ELSE UNCHANGED armed

\* insert, and the timerfd re-armed when the earliest time has changed.
AddTimerInLoop(t, when) ==
  /\ timers' = timers \cup {<<when, t>>}
  /\ active' = active \cup {t}
  /\ IF \A e \in timers : when < e[1] THEN ArmAt(when) ELSE UNCHANGED armed

\* Faulty: a timer of the running batch is not remembered as cancelled.
CancelInLoopActiveOnly(t) ==
  /\ timers' = timers \ {<<time[t], t>>}
  /\ active' = active \ {t}
  /\ deleted' = IF t \in active THEN deleted \cup {t} ELSE deleted
  /\ UNCHANGED canceling
  /\ cancelled' = IF t \in active \cup {e[2] : e \in expired} THEN cancelled \cup {t} ELSE cancelled

\* A timer in the queue is erased and deleted; for any other timer the call
\* counts only while a batch runs, and keeps the timer from being restarted.
CancelInLoop(t) ==
  /\ IF t \in active
       THEN /\ timers' = timers \ {<<time[t], t>>}
            /\ active' = active \ {t}
            /\ deleted' = deleted \cup {t}
            /\ UNCHANGED canceling
       ELSE /\ canceling' = IF calling THEN canceling \cup {t} ELSE canceling
            /\ UNCHANGED <<timers, active, deleted>>
  /\ cancelled' = IF t \in active \cup {e[2] : e \in expired} THEN cancelled \cup {t} ELSE cancelled
-----------------------------------------------------------------------------
(***************************************************************************)
(* addTimer and cancel.                                                    *)
(***************************************************************************)
NewTimer(t, when) ==
  /\ t \notin allocated
  /\ allocated' = allocated \cup {t}
  /\ time' = [time EXCEPT ![t] = when]

AddTimerFromLoop(t, when) ==
  /\ InLoopThread
  /\ NewTimer(t, when)
  /\ AddTimerInLoop(t, when)
  /\ UNCHANGED <<now, deleted, tasks, batchVars, historyVars>>

AddTimerFromThread(t, when) ==
  /\ NewTimer(t, when)
  /\ tasks' = Append(tasks, <<"add", t>>)
  /\ UNCHANGED <<now, deleted, timers, active, armed, batchVars, historyVars>>

MayCancel(t) == t \in allocated \ asked /\ asked' = asked \cup {t}

CancelFromLoop(t) ==
  /\ InLoopThread
  /\ MayCancel(t)
  /\ CancelInLoop(t)
  /\ UNCHANGED <<now, allocated, time, armed, tasks, expired, ran, batchNow, calling, current>>

CancelFromThread(t) ==
  /\ MayCancel(t)
  /\ tasks' = Append(tasks, <<"cancel", t>>)
  /\ UNCHANGED <<now, heapVars, setVars, armed, batchVars, cancelled>>

\* The loop executes a task while it handles no event.
RunTask ==
  /\ ~calling /\ tasks # <<>>
  /\ tasks' = Tail(tasks)
  /\ LET op == Head(tasks)[1]
         t  == Head(tasks)[2]
     IN \/ op = "add" /\ AddTimerInLoop(t, time[t]) /\ UNCHANGED <<deleted, canceling, cancelled>>
        \/ op = "cancel" /\ CancelInLoop(t) /\ UNCHANGED armed
  /\ UNCHANGED <<now, allocated, time, asked, expired, ran, batchNow, calling, current>>
-----------------------------------------------------------------------------
(***************************************************************************)
(* handleRead: the timerfd is readable.                                    *)
(***************************************************************************)
Due(e) == e[1] <= now

\* Faulty: an expired timer stays in activeTimers_.
HandleReadKeepActive ==
  /\ ~calling /\ armed # NoTime /\ armed <= now
  /\ armed' = NoTime
  /\ batchNow' = now
  /\ expired' = {e \in timers : Due(e)}
  /\ timers' = timers \ expired'
  /\ active' = active
  /\ ran' = {} /\ calling' = TRUE /\ canceling' = {}
  /\ UNCHANGED <<now, heapVars, time, tasks, current, historyVars>>

\* readTimerfd, getExpired, and the start of the batch.
HandleRead ==
  /\ ~calling /\ armed # NoTime /\ armed <= now
  /\ armed' = NoTime
  /\ batchNow' = now
  /\ expired' = {e \in timers : Due(e)}
  /\ timers' = timers \ expired'
  /\ active' = active \ {e[2] : e \in expired'}
  /\ ran' = {} /\ calling' = TRUE /\ canceling' = {}
  /\ UNCHANGED <<now, heapVars, time, tasks, current, historyVars>>

\* The callbacks run in the order of the times; addresses order the others.
RunTimer(t) ==
  /\ calling /\ current = NoTimer
  /\ \E e \in expired : /\ e[2] = t /\ t \notin ran
                        /\ \A f \in expired : f[1] < e[1] => f[2] \in ran
  /\ current' = t
  /\ ran' = ran \cup {t}
  /\ UNCHANGED <<now, heapVars, setVars, armed, tasks, expired, batchNow, calling, canceling, historyVars>>

EndCallback == /\ current # NoTimer
               /\ current' = NoTimer
               /\ UNCHANGED <<now, heapVars, setVars, armed, tasks,
                              expired, ran, batchNow, calling, canceling, historyVars>>

Batch == {e[2] : e \in expired}
Restarted == (Batch \cap Repeat) \ canceling

\* Faulty: the timerfd is left alone when the next time is not valid or later.
RearmIfOverdue ==
  IF \E e \in timers' : e[1] <= now THEN ArmAt(now) ELSE UNCHANGED armed

\* nextExpire is the time of timers_.begin(); time 0 is not valid().
Rearm ==
  IF timers' = {}
    THEN UNCHANGED armed
    ELSE \E e \in timers' : /\ \A f \in timers' : e[1] <= f[1]
                            /\ IF e[1] > 0 THEN ArmAt(e[1]) ELSE UNCHANGED armed

\* Faulty: what is not restarted is dropped without delete.
ResetWithoutDelete ==
  /\ calling /\ current = NoTimer /\ Batch \subseteq ran
  /\ time' = [t \in Timer |-> IF t \in Restarted THEN batchNow + Interval[t] ELSE time[t]]
  /\ timers' = timers \cup {<<batchNow + Interval[t], t>> : t \in Restarted}
  /\ active' = active \cup Restarted
  /\ deleted' = deleted
  /\ Rearm
  /\ expired' = {} /\ ran' = {} /\ calling' = FALSE
  /\ UNCHANGED <<now, allocated, tasks, batchNow, canceling, current, historyVars>>

\* reset: repeating timers that were not cancelled are inserted again, the
\* others deleted, and the timerfd is armed for the earliest time, if valid.
Reset ==
  /\ calling /\ current = NoTimer /\ Batch \subseteq ran
  /\ time' = [t \in Timer |-> IF t \in Restarted THEN batchNow + Interval[t] ELSE time[t]]
  /\ timers' = timers \cup {<<batchNow + Interval[t], t>> : t \in Restarted}
  /\ active' = active \cup Restarted
  /\ deleted' = deleted \cup (Batch \ Restarted)
  /\ Rearm
  /\ expired' = {} /\ ran' = {} /\ calling' = FALSE
  /\ UNCHANGED <<now, allocated, tasks, batchNow, canceling, current, historyVars>>

Tick == /\ now < MaxTime
        /\ now' = now + 1
        /\ UNCHANGED <<heapVars, setVars, armed, tasks, batchVars, historyVars>>
-----------------------------------------------------------------------------
LoopStep == RunTask \/ HandleRead \/ (\E t \in Timer : RunTimer(t)) \/ EndCallback \/ Reset

Calls == \E t \in Timer :
            \/ \E when \in 0..Horizon : AddTimerFromLoop(t, when) \/ AddTimerFromThread(t, when)
            \/ CancelFromLoop(t) \/ CancelFromThread(t)

Next == LoopStep \/ Calls \/ Tick

\* Time passes and callbacks return.  Every iteration of the loop handles the
\* timerfd when it is readable and then the queued tasks, so neither of the
\* two can be put off for ever by the other.
Fairness == /\ WF_vars(Tick)
            /\ SF_vars(HandleRead) /\ SF_vars(RunTask)
            /\ WF_vars(\E t \in Timer : RunTimer(t)) /\ WF_vars(EndCallback) /\ WF_vars(Reset)

Spec == Init /\ [][Next]_vars
FairSpec == Spec /\ Fairness
-----------------------------------------------------------------------------
(***************************************************************************)
(* Properties.                                                             *)
(***************************************************************************)
Entry == Nat \X Timer
Handed == {tasks[i][2] : i \in {j \in 1..Len(tasks) : tasks[j][1] = "add"}}

TypeOK ==
  /\ now \in Nat /\ batchNow \in Nat
  /\ time \in [Timer -> Nat]
  /\ timers \subseteq Entry /\ expired \subseteq Entry
  /\ allocated \subseteq Timer /\ deleted \subseteq Timer /\ active \subseteq Timer
  /\ canceling \subseteq Timer /\ asked \subseteq Timer /\ cancelled \subseteq Timer
  /\ armed \in Nat \cup {NoTime}
  /\ tasks \in Seq({"add", "cancel"} \X Timer)
  /\ calling \in BOOLEAN
  /\ ~calling => expired = {} /\ current = NoTimer
  /\ current \in ran \cup {NoTimer} /\ ran \subseteq Batch

\* timers_ and activeTimers_ hold the same timers, and timers_ under the time
\* they have: cancel finds in one what it erases from the other by time.
SetsAgree == /\ active = {e[2] : e \in timers}
             /\ \A e \in timers \cup expired : e[1] = time[e[2]]

\* A timer on the heap is in exactly one place: in a task on its way to the
\* loop, in the queue, in the running batch, or deleted.  So it is deleted
\* once, followed only while it exists, and never leaked.
EachTimerInOnePlace ==
  /\ allocated = Handed \cup active \cup Batch \cup deleted
  /\ Handed \cap (active \cup Batch \cup deleted) = {}
  /\ active \cap (Batch \cup deleted) = {}
  /\ Batch \cap deleted = {}
  /\ \A i, j \in 1..Len(tasks) : tasks[i] = tasks[j] /\ tasks[i][1] = "add" => i = j

\* Outside a batch the timerfd is armed, and for no later than the earliest
\* timer or the next instant: no insertion, cancellation, restart or batch
\* leaves a timer that nothing will wake the loop for.
ArmedForEarliest ==
  ~calling /\ timers # {} => /\ armed # NoTime
                             /\ \A e \in timers : armed <= Later(e[1], now + 1)

\* Cancelling a timer that is queued or in the running batch, also from its
\* own callback, takes: it is deleted with the batch and not restarted.
CancelledStaysOut == /\ cancelled \cap active = {}
                     /\ ~calling => cancelled \subseteq deleted

\* The queue, the batch and the calls of other threads, together, are a timer
\* service: no callback is early, none is repeated after a cancellation that
\* took, a repeating timer keeps its interval, and cancelling is final.
Waiting == Handed \cup active \cup (Batch \ ran)
Service == INSTANCE TimerService WITH due <- time, waiting <- Waiting, called <- ran,
                                      over <- deleted, stopped <- cancelled
ImplementsTimerService == Service!Spec

\* Every timer is run or cancelled, also one added while a batch is running.
TimersFire == \A t \in Timer :
                t \in Handed \/ (t \in active /\ time[t] <= Horizon) ~> t \in ran \cup deleted
=============================================================================
