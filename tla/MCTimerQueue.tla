---------------------------- MODULE MCTimerQueue ----------------------------
(***************************************************************************)
(* A one-shot timer and a repeating one: batches of both, timers added and *)
(* cancelled by callbacks of the running batch, and a clock that passes    *)
(* every time that can be asked for.                                       *)
(***************************************************************************)
EXTENDS TimerQueue, TLC

CONSTANTS once, periodic

MCTimer == {once, periodic}
MCInterval == [t \in {periodic} |-> 1]
=============================================================================
