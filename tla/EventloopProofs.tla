--------------------------- MODULE EventloopProofs --------------------------
(***************************************************************************)
(* Theorems about Eventloop, for any number of threads, handlers and       *)
(* tasks.                                                                  *)
(***************************************************************************)
EXTENDS Eventloop, SequenceTheorems, TLAPS

\* The types, the mutex discipline and the loop's flags: TypeOK is inductive.
THEOREM TypeCorrect == Spec => []TypeOK
<1> USE ThreadAssumption, HandlerAssumption, TaskAssumption
      DEF ThreadAssumption, HandlerAssumption, TaskAssumption, AllThreads
<1>1. Init => TypeOK
  <2> SUFFICES ASSUME Init PROVE TypeOK
    OBVIOUS
  <2>1. /\ postPc \in [AllThreads -> {"idle", "wakeup", "lock", "append"}]
        /\ posting \in [AllThreads -> Task \cup {NoTask}]
        /\ \A t \in AllThreads : postPc[t] = "idle" /\ mutex # t
    BY DEF Init
  <2>2. tasks \in Seq(Task) /\ taskings \in Seq(Task) /\ executed \in Seq(Task)
    BY DEF Init
  <2> QED
    BY <2>1, <2>2 DEF Init, TypeOK, LoopPc
<1>2. TypeOK /\ [Next]_vars => TypeOK'
  <2> SUFFICES ASSUME TypeOK, [Next]_vars PROVE TypeOK'
    OBVIOUS
  <2> USE DEF TypeOK, LoopPc, LoopGoto
  <2>1. CASE StartLoop
    BY <2>1 DEF StartLoop, postVars
  <2>2. CASE CheckQuit
    BY <2>2 DEF CheckQuit, postVars
  <2>3. CASE PollWait
    BY <2>3 DEF PollWait, postVars
  <2>4. CASE WakeupReadCallback
    BY <2>4 DEF WakeupReadCallback, postVars
  <2>5. ASSUME NEW h \in Handlers, HandleEvents(h) PROVE TypeOK'
    BY <2>5 DEF HandleEvents, postVars
  <2>6. CASE EndHandler
    BY <2>6 DEF EndHandler, postVars
  <2>7. CASE CheckTasks
    BY <2>7 DEF CheckTasks, postVars
  <2>8. CASE SwapTasks
    BY <2>8 DEF SwapTasks, postVars
  <2>9. CASE RunTask
    BY <2>9 DEF RunTask, postVars
  <2>10. CASE EndTask
    BY <2>10 DEF EndTask, postVars
  <2>11. CASE EndTasks
    BY <2>11 DEF EndTasks, postVars
  <2>12. CASE SetQuit
    BY <2>12 DEF SetQuit, postVars
  <2>13. ASSUME NEW t \in AllThreads, Wakeup(t) PROVE TypeOK'
    BY <2>13 DEF Wakeup, loopVars
  <2>14. ASSUME NEW t \in AllThreads, LockToAdd(t) PROVE TypeOK'
    BY <2>14 DEF LockToAdd, loopVars
  <2>15. ASSUME NEW t \in AllThreads, AddTask(t) PROVE TypeOK'
    BY <2>15 DEF AddTask, loopVars
  <2>16. ASSUME NEW t \in AllThreads, NEW k \in Task, QueueInLoop(t, k) PROVE TypeOK'
    BY <2>16 DEF QueueInLoop, MayHandOver, loopVars
  <2>17. ASSUME NEW k \in Task, RunInLoopDirectly(k) PROVE TypeOK'
    BY <2>17 DEF RunInLoopDirectly, MayHandOver, loopVars, postVars
  <2>18. CASE UNCHANGED vars
    BY <2>18 DEF vars, loopVars, postVars
  <2> QED
    BY <2>1, <2>2, <2>3, <2>4, <2>5, <2>6, <2>7, <2>8, <2>9, <2>10, <2>11, <2>12,
       <2>13, <2>14, <2>15, <2>16, <2>17, <2>18 DEF Next, LoopStep, PostStep
<1>3. QED
  BY <1>1, <1>2, PTL DEF Spec

-----------------------------------------------------------------------------
LEMMA CoveredInductive == TypeOK /\ LoopTasksCovered /\ [Next]_vars => LoopTasksCovered'
<1> SUFFICES ASSUME TypeOK, LoopTasksCovered, [Next]_vars PROVE LoopTasksCovered'
  OBVIOUS
<1> USE ThreadAssumption, HandlerAssumption, TaskAssumption
    DEF ThreadAssumption, HandlerAssumption, TaskAssumption, AllThreads,
        TypeOK, LoopPc, LoopTasksCovered, LoopTasks, InCallback, LoopGoto
<1>1. CASE StartLoop
  BY <1>1 DEF StartLoop, postVars
<1>2. CASE CheckQuit
  BY <1>2 DEF CheckQuit, postVars
<1>3. CASE PollWait
  BY <1>3 DEF PollWait, postVars
<1>4. CASE WakeupReadCallback
  BY <1>4 DEF WakeupReadCallback, postVars
<1>5. ASSUME NEW h \in Handlers, HandleEvents(h) PROVE LoopTasksCovered'
  BY <1>5 DEF HandleEvents, postVars
<1>6. CASE EndHandler
  BY <1>6 DEF EndHandler, postVars
<1>7. CASE CheckTasks
  BY <1>7 DEF CheckTasks, postVars
<1>8. CASE SwapTasks
  BY <1>8 DEF SwapTasks, postVars
<1>9. CASE RunTask
  BY <1>9 DEF RunTask, postVars
<1>10. CASE EndTask
  BY <1>10 DEF EndTask, postVars
<1>11. CASE EndTasks
  BY <1>11 DEF EndTasks, postVars
<1>12. CASE SetQuit
  BY <1>12 DEF SetQuit, postVars
<1>13. ASSUME NEW t \in AllThreads, Wakeup(t) PROVE LoopTasksCovered'
  BY <1>13 DEF Wakeup, loopVars
<1>14. ASSUME NEW t \in AllThreads, LockToAdd(t) PROVE LoopTasksCovered'
  BY <1>14 DEF LockToAdd, loopVars
<1>15. ASSUME NEW t \in AllThreads, AddTask(t) PROVE LoopTasksCovered'
  <2>1. /\ Len(tasks') = Len(tasks) + 1
        /\ \A i \in 1..Len(tasks) : tasks'[i] = tasks[i]
        /\ tasks'[Len(tasks) + 1] = posting[t]
    BY <1>15 DEF AddTask
  <2>2. CASE t = LoopThread
    BY <1>15, <2>1, <2>2 DEF AddTask, loopVars
  <2>3. CASE t \in Threads
    BY <1>15, <2>1, <2>3 DEF AddTask, loopVars
  <2> QED
    BY <2>2, <2>3
<1>16. ASSUME NEW t \in AllThreads, NEW k \in Task, QueueInLoop(t, k) PROVE LoopTasksCovered'
  BY <1>16 DEF QueueInLoop, MayHandOver, loopVars
<1>17. ASSUME NEW k \in Task, RunInLoopDirectly(k) PROVE LoopTasksCovered'
  BY <1>17 DEF RunInLoopDirectly, MayHandOver, loopVars, postVars
<1>18. CASE UNCHANGED vars
  BY <1>18 DEF vars, loopVars, postVars
<1> QED
  BY <1>1, <1>2, <1>3, <1>4, <1>5, <1>6, <1>7, <1>8, <1>9, <1>10, <1>11, <1>12,
     <1>13, <1>14, <1>15, <1>16, <1>17, <1>18 DEF Next, LoopStep, PostStep

\* A task that the loop's own thread queues while looping never waits for
\* select: queueInLoop's eventHandling_ test wakes the loop up for it.
THEOREM OwnTasksAreNeverStranded == Spec => []OwnTasksNotStranded
<1>1. Init => LoopTasksCovered
  BY DEF Init, LoopTasksCovered, AllThreads
<1>2. LoopTasksCovered => OwnTasksNotStranded
  BY DEF LoopTasksCovered, OwnTasksNotStranded
<1>3. QED
  BY <1>1, <1>2, TypeCorrect, CoveredInductive, PTL DEF Spec
-----------------------------------------------------------------------------
LEMMA HandedOverInductive == TypeOK /\ HandedOverOnce /\ [Next]_vars => HandedOverOnce'
<1> SUFFICES ASSUME TypeOK, HandedOverOnce, [Next]_vars PROVE HandedOverOnce'
  OBVIOUS
<1> USE TaskAssumption DEF TaskAssumption, TypeOK, HandedOverOnce
<1>1. CASE UNCHANGED <<postVars, fresh>>
  BY <1>1 DEF postVars
<1>2. ASSUME NEW t \in AllThreads, Wakeup(t) PROVE HandedOverOnce'
  BY <1>2 DEF Wakeup
<1>3. ASSUME NEW t \in AllThreads, LockToAdd(t) PROVE HandedOverOnce'
  BY <1>3 DEF LockToAdd
<1>4. ASSUME NEW t \in AllThreads, AddTask(t) PROVE HandedOverOnce'
  BY <1>4 DEF AddTask
<1>5. ASSUME NEW t \in AllThreads, NEW k \in Task, QueueInLoop(t, k) PROVE HandedOverOnce'
  BY <1>5 DEF QueueInLoop, MayHandOver
<1>6. ASSUME NEW k \in Task, RunInLoopDirectly(k) PROVE HandedOverOnce'
  BY <1>6 DEF RunInLoopDirectly, postVars
<1>7. LoopStep \/ SetQuit \/ UNCHANGED vars => UNCHANGED <<postVars, fresh>>
  BY DEF LoopStep, StartLoop, CheckQuit, PollWait, WakeupReadCallback, HandleEvents, EndHandler,
         CheckTasks, SwapTasks, RunTask, EndTask, EndTasks, SetQuit, vars
<1> QED
  BY <1>1, <1>2, <1>3, <1>4, <1>5, <1>6, <1>7 DEF Next, PostStep
-----------------------------------------------------------------------------
(***************************************************************************)
(* The refinement: appending is Submit, starting a queued task is Execute, *)
(* running one on the spot is ExecuteDirectly, and the rest stutters.      *)
(***************************************************************************)
pendingTasks == taskings \o tasks
unposted == fresh \cup Posted

LEMMA SubmitStep ==
  ASSUME TypeOK, HandedOverOnce, NEW t \in AllThreads, AddTask(t)
  PROVE  Executor!Submit(posting[t])
<1> USE TaskAssumption DEF TaskAssumption, TypeOK, AddTask, HandedOverOnce
<1>1. posting[t] \in Task /\ posting[t] # NoTask
  OBVIOUS
<1>2. posting[t] \in unposted
  BY <1>1 DEF unposted, Posted
<1>3. Posted' = Posted \ {posting[t]}
  BY <1>1 DEF Posted
<1>4. unposted' = unposted \ {posting[t]}
  BY <1>3 DEF unposted, loopVars
<1>5. pendingTasks' = Append(pendingTasks, posting[t])
  <2>1. tasks' = Append(tasks, posting[t]) /\ taskings' = taskings
    BY DEF loopVars
  <2>2. tasks \in Seq(Task) /\ taskings \in Seq(Task) /\ pendingTasks \in Seq(Task)
    BY ConcatProperties DEF pendingTasks
  <2>3. tasks' = tasks \o <<posting[t]>>
    BY ONLY <2>1, <2>2, <1>1, AppendIsConcat
  <2>4. pendingTasks' = pendingTasks \o <<posting[t]>>
    BY ONLY <2>1, <2>2, <2>3, <1>1, ConcatAssociative DEF pendingTasks
  <2> QED
    BY ONLY <2>4, <2>2, <1>1, AppendIsConcat
<1> QED
  BY <1>2, <1>4, <1>5 DEF Executor!Submit, unposted, pendingTasks, loopVars

LEMMA ExecuteStep == TypeOK /\ RunTask => Executor!Execute
<1> SUFFICES ASSUME TypeOK, RunTask PROVE Executor!Execute
  OBVIOUS
<1> USE DEF TypeOK, RunTask
<1>1. taskings = <<Head(taskings)>> \o Tail(taskings) /\ Head(taskings) \in Task
  BY HeadTailProperties
<1>2. pendingTasks = <<Head(taskings)>> \o pendingTasks'
  BY <1>1, ConcatAssociative DEF pendingTasks
<1>3. pendingTasks # <<>> /\ Head(pendingTasks) = Head(taskings) /\ Tail(pendingTasks) = pendingTasks'
  BY <1>1, <1>2 DEF pendingTasks
<1>4. UNCHANGED unposted
  BY DEF unposted, Posted, postVars
<1> QED
  BY <1>3, <1>4 DEF Executor!Execute, unposted, pendingTasks

LEMMA DirectStep ==
  ASSUME TypeOK, HandedOverOnce, NEW k \in Task, RunInLoopDirectly(k)
  PROVE  Executor!ExecuteDirectly(k)
<1> USE DEF RunInLoopDirectly, MayHandOver
<1>1. k \in fresh \cap OwnTasks
  OBVIOUS
<1>2. k \notin Posted
  BY <1>1 DEF HandedOverOnce, Posted
<1>3. unposted' = unposted \ {k}
  BY <1>2 DEF unposted, Posted, postVars
<1> QED
  BY <1>1, <1>3 DEF Executor!ExecuteDirectly, unposted, postVars, loopVars

LEMMA QueueStutters ==
  ASSUME TypeOK, HandedOverOnce, NEW t \in AllThreads, NEW k \in Task, QueueInLoop(t, k)
  PROVE  UNCHANGED Executor!vars
<1> USE TaskAssumption DEF TaskAssumption, TypeOK, QueueInLoop, MayHandOver
<1>1. posting[t] = NoTask
  BY DEF HandedOverOnce
<1>2. Posted' = Posted \cup {k}
  BY <1>1 DEF Posted
<1> QED
  BY <1>2 DEF Executor!vars, loopVars

\* queueInLoop and runInLoop implement the serial executor, for every number
\* of threads and tasks: tasks run at most once and in the order appended.
THEOREM RefinesSerialExecutor == Spec => ImplementsSerialExecutor
<1>1. Init => Executor!Init
  BY DEF Init, Executor!Init, Posted
<1>2. TypeOK /\ HandedOverOnce /\ [Next]_vars => [Executor!Next]_(Executor!vars)
  <2> SUFFICES ASSUME TypeOK, HandedOverOnce, [Next]_vars
               PROVE  [Executor!Next]_(Executor!vars)
    OBVIOUS
  <2>1. CASE SwapTasks
    <3>1. tasks \in Seq(Task) /\ taskings = <<>>
      BY <2>1 DEF SwapTasks, LoopGoto, TypeOK
    <3> QED
      BY <2>1, <3>1, ConcatEmptySeq DEF SwapTasks, Executor!vars, Posted, postVars
  <2>2. CASE RunTask
    BY <2>2, ExecuteStep DEF Executor!Next
  <2>3. CASE UNCHANGED <<taskings, tasks, postVars, fresh, executed>>
    BY <2>3 DEF Executor!vars, Posted, postVars
  <2>4. ASSUME NEW t \in AllThreads, Wakeup(t) \/ LockToAdd(t)
        PROVE  UNCHANGED Executor!vars
    BY <2>4 DEF Wakeup, LockToAdd, Executor!vars, Posted, loopVars
  <2>5. ASSUME NEW t \in AllThreads, AddTask(t) PROVE Executor!Next
    <3>1. posting[t] \in Task
      BY <2>5 DEF TypeOK, AddTask
    <3> QED
      BY <2>5, <3>1, SubmitStep DEF Executor!Next
  <2>6. ASSUME NEW t \in AllThreads, NEW k \in Task, QueueInLoop(t, k)
        PROVE  UNCHANGED Executor!vars
    BY <2>6, QueueStutters
  <2>7. ASSUME NEW k \in Task, RunInLoopDirectly(k) PROVE Executor!Next
    BY <2>7, DirectStep DEF Executor!Next
  <2>8. \/ SwapTasks \/ RunTask \/ \E t \in AllThreads : PostStep(t)
        \/ \E t \in AllThreads, k \in Task : QueueInLoop(t, k)
        \/ \E k \in Task : RunInLoopDirectly(k)
        \/ UNCHANGED <<taskings, tasks, postVars, fresh, executed>>
    BY DEF Next, LoopStep, StartLoop, CheckQuit, PollWait, WakeupReadCallback, HandleEvents,
           EndHandler, CheckTasks, EndTask, EndTasks, SetQuit, vars, loopVars
  <2> QED
    BY <2>1, <2>2, <2>3, <2>4, <2>5, <2>6, <2>7, <2>8 DEF PostStep
<1>3. Init => HandedOverOnce
  BY TaskAssumption DEF TaskAssumption, Init, HandedOverOnce
<1>4. QED
  BY <1>1, <1>2, <1>3, TypeCorrect, HandedOverInductive, PTL
     DEF Spec, ImplementsSerialExecutor, Executor!Spec
=============================================================================
