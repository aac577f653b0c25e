---------------------------- MODULE MCEventloop -----------------------------
(***************************************************************************)
(* Two foreign threads and the loop's own thread: enough for a task        *)
(* appended between another thread's write to the eventfd and its append.  *)
(***************************************************************************)
EXTENDS Eventloop

CONSTANTS t1, t2, foreign1, foreign2, own1, own2, setup1

MCThreads == {t1, t2}
MCTask == {foreign1, foreign2, own1, own2, setup1}
MCOwnTasks == {own1, own2, setup1}
MCSetupTasks == {setup1}
=============================================================================
