---------------------------- MODULE TimerService ----------------------------
(***************************************************************************)
(* What a TimerQueue promises to those that set timers: none is called     *)
(* before its time, a one-shot timer once, a repeating one with its        *)
(* interval between the times of two calls; a timer cancelled before its   *)
(* time is not called any more, one cancelled later at most once; and no   *)
(* timer is dropped that was not cancelled.                                *)
(***************************************************************************)
EXTENDS Integers

CONSTANTS Timer,    \* every timer that is ever set
          Repeat,   \* those that repeat, and ...
          Interval, \* ... after how long
          Horizon   \* bound on the times that are asked for

VARIABLES now,      \* the clock
          due,      \* the time of each timer
          waiting,  \* timers to be called
          called,   \* timers called that have not been set again
          over,     \* timers that will never be called again
          stopped   \* timers that have been cancelled

vars == <<now, due, waiting, called, over, stopped>>

Init == /\ now = 1
        /\ due = [t \in Timer |-> 0]
        /\ waiting = {} /\ called = {} /\ over = {} /\ stopped = {}

Set(t, when) == /\ t \notin waiting \cup called \cup over
                /\ due' = [due EXCEPT ![t] = when]
                /\ waiting' = waiting \cup {t}
                /\ UNCHANGED <<now, called, over, stopped>>

Call(t) == /\ t \in waiting /\ due[t] <= now
           /\ waiting' = waiting \ {t}
           /\ called' = called \cup {t}
           /\ UNCHANGED <<now, due, over, stopped>>

\* A timer is dropped at once, ...
CancelWaiting(t) == /\ t \in waiting
                    /\ waiting' = waiting \ {t}
                    /\ over' = over \cup {t}
                    /\ stopped' = stopped \cup {t}
                    /\ UNCHANGED <<now, due, called>>

\* ... or its time has come and it is not set again.
CancelDue(t) == /\ t \in waiting \cup called /\ due[t] <= now
                /\ stopped' = stopped \cup {t}
                /\ UNCHANGED <<now, due, waiting, called, over>>

\* What has been called is set again, counted from a moment when the timers
\* called were due, or is over.
SetAgain == (called \cap Repeat) \ stopped

Finish == /\ \E since \in 0..now :
                /\ \A t \in called : due[t] <= since
                /\ due' = [t \in Timer |-> IF t \in SetAgain THEN since + Interval[t] ELSE due[t]]
          /\ waiting' = waiting \cup SetAgain
          /\ over' = over \cup (called \ SetAgain)
          /\ called' = {}
          /\ UNCHANGED <<now, stopped>>

Tick == now' = now + 1 /\ UNCHANGED <<due, waiting, called, over, stopped>>

Next == \/ Finish \/ Tick
        \/ \E t \in Timer : \/ \E when \in 0..Horizon : Set(t, when)
                            \/ Call(t) \/ CancelWaiting(t) \/ CancelDue(t)

Spec == Init /\ [][Next]_vars
=============================================================================
