---------------------------- MODULE MCThreadPool ----------------------------
(***************************************************************************)
(* Two workers and two producers with four functions: queues of one and two*)
(* places fill up while both producers, or a worker, wait.                 *)
(***************************************************************************)
EXTENDS ThreadPool, TLC

CONSTANTS w1, w2, p1, p2

MCWorker == {w1, w2}
MCThread == {w1, w2, p1, p2}
MCSize == {-1, 0, 1, 2}
=============================================================================
