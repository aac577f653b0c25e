---------------------------- MODULE MCPollSelect ----------------------------
(***************************************************************************)
(* Two handlers beside the loop's own two, and two descriptor numbers      *)
(* beside the loop's: numbers are reused, and maxfd_ steps down past gaps. *)
(***************************************************************************)
EXTENDS PollSelect, TLC

CONSTANTS timer, wakeup, conn1, conn2

MCHandler == {timer, wakeup, conn1, conn2}
MCGarbage == {-8, 2, 7}
Symmetry == Permutations({conn1, conn2})
=============================================================================
