--------------------------- MODULE SerialExecutor ---------------------------
(***************************************************************************)
(* What an event loop promises to the code that hands it work: a task      *)
(* given to queueInLoop is executed at most once, and queued tasks are     *)
(* executed one at a time in the order in which they were queued.  Only    *)
(* tasks that the loop's own thread passes to runInLoop may overtake the   *)
(* queue: they run on the spot.                                            *)
(***************************************************************************)
EXTENDS Sequences

CONSTANTS Task,     \* every task that is ever handed to the loop
          Direct    \* the tasks that the loop's own thread may run on the spot

VARIABLES fresh,    \* tasks not yet handed over
          pending,  \* tasks queued and not yet started
          executed  \* tasks started, in that order

vars == <<fresh, pending, executed>>

Init == /\ fresh = Task
        /\ pending = <<>>
        /\ executed = <<>>

Submit(k) == /\ k \in fresh
             /\ fresh' = fresh \ {k}
             /\ pending' = Append(pending, k)
             /\ UNCHANGED executed

Execute == /\ pending # <<>>
           /\ executed' = Append(executed, Head(pending))
           /\ pending' = Tail(pending)
           /\ UNCHANGED fresh

ExecuteDirectly(k) == /\ k \in fresh \cap Direct
                      /\ fresh' = fresh \ {k}
                      /\ executed' = Append(executed, k)
                      /\ UNCHANGED pending

Next == \/ Execute
        \/ \E k \in Task : Submit(k) \/ ExecuteDirectly(k)

Spec == Init /\ [][Next]_vars
=============================================================================
