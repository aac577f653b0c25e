----------------------------- MODULE Eventloop ------------------------------
(***************************************************************************)
(* One kknet::Eventloop (reactor/Eventloop.h, Eventloop.cpp): the thread   *)
(* inside loop() and the other threads that hand it work through           *)
(* runInLoop and queueInLoop.                                              *)
(*                                                                         *)
(* The loop thread alternates between poll_->wait, the callbacks of the    *)
(* descriptors reported ready, and the tasks of tasks_.  Handing over a    *)
(* task takes three steps that interleave with everything else: the write  *)
(* to the eventfd, mutex_.lock(), and the append that unlocks.  A task     *)
(* stands for one std::function and is handed over once.                   *)
(***************************************************************************)
EXTENDS Naturals, Sequences

CONSTANTS Threads,        \* threads other than the loop's own
          LoopThread,     \* the thread whose tid is threadId_
          WakeupHandler,  \* wakeupHandler_, registered for wakeupFd_
          Handlers,       \* the handlers of all other descriptors
          Task,           \* every task handed to this loop
          OwnTasks,       \* those handed over by the loop's own thread ...
          SetupTasks,     \* ... and of these, those from before loop()
          NoThread,       \* mutex_ is free
          NoTask          \* a thread outside queueInLoop

ASSUME ThreadAssumption == LoopThread \notin Threads /\ NoThread \notin Threads \cup {LoopThread}
ASSUME HandlerAssumption == WakeupHandler \notin Handlers
ASSUME TaskAssumption == /\ SetupTasks \subseteq OwnTasks /\ OwnTasks \subseteq Task
                         /\ NoTask \notin Task

VARIABLES
  loopPc,         \* where the loop thread is in loop()
  quit,           \* quit_
  active,         \* the reported handlers whose events are still unhandled
  eventHandling,  \* eventHandling_
  wakeupFd,       \* TRUE when the counter of wakeupFd_ is not zero
  tasks,          \* tasks_
  taskings,       \* runTasks' local vector, without the tasks started
  mutex,          \* the thread that holds mutex_
  postPc,         \* where each thread is in queueInLoop
  posting,        \* the task each thread is handing over
  fresh,          \* history: tasks not yet handed over
  executed        \* history: tasks started, in order

loopVars == <<loopPc, quit, active, eventHandling, taskings>>
postVars == <<postPc, posting>>
vars == <<loopVars, wakeupFd, tasks, mutex, postVars, fresh, executed>>

AllThreads == Threads \cup {LoopThread}

Init == /\ loopPc = "setup" /\ quit = FALSE /\ active = {} /\ eventHandling = FALSE
        /\ wakeupFd = FALSE /\ tasks = <<>> /\ taskings = <<>> /\ mutex = NoThread
        /\ postPc = [t \in AllThreads |-> "idle"]
        /\ posting = [t \in AllThreads |-> NoTask]
        /\ fresh = Task /\ executed = <<>>
-----------------------------------------------------------------------------
(***************************************************************************)
(* Handing over a task.                                                    *)
(***************************************************************************)

\* The loop's thread hands over work from a callback, a task, or set-up code.
InCallback == loopPc \in {"setup", "handler", "task"}

MayHandOver(t, k) ==
  /\ postPc[t] = "idle"
  /\ k \in fresh
  /\ IF t = LoopThread
       THEN InCallback /\ k \in OwnTasks /\ (loopPc = "setup" <=> k \in SetupTasks)
       ELSE k \notin OwnTasks

\* Faulty: the loop's own thread never writes to the eventfd.
QueueInLoopSilently(t, k) ==
  /\ MayHandOver(t, k)
  /\ fresh' = fresh \ {k}
  /\ posting' = [posting EXCEPT ![t] = k]
  /\ postPc' = [postPc EXCEPT ![t] = IF t # LoopThread THEN "wakeup" ELSE "lock"]
  /\ UNCHANGED <<loopVars, wakeupFd, tasks, mutex, executed>>

\* queueInLoop entered: whether to wake the loop up is decided here.
QueueInLoop(t, k) ==
  /\ MayHandOver(t, k)
  /\ fresh' = fresh \ {k}
  /\ posting' = [posting EXCEPT ![t] = k]
  /\ postPc' = [postPc EXCEPT ![t] = IF t # LoopThread \/ eventHandling THEN "wakeup" ELSE "lock"]
  /\ UNCHANGED <<loopVars, wakeupFd, tasks, mutex, executed>>

Wakeup(t) ==
  /\ postPc[t] = "wakeup"
  /\ wakeupFd' = TRUE
  /\ postPc' = [postPc EXCEPT ![t] = "lock"]
  /\ UNCHANGED <<loopVars, tasks, mutex, posting, fresh, executed>>

LockToAdd(t) ==
  /\ postPc[t] = "lock"
  /\ mutex = NoThread
  /\ mutex' = t
  /\ postPc' = [postPc EXCEPT ![t] = "append"]
  /\ UNCHANGED <<loopVars, wakeupFd, tasks, posting, fresh, executed>>

AddTask(t) ==
  /\ postPc[t] = "append"
  /\ tasks' = Append(tasks, posting[t])
  /\ mutex' = NoThread
  /\ postPc' = [postPc EXCEPT ![t] = "idle"]
  /\ posting' = [posting EXCEPT ![t] = NoTask]
  /\ UNCHANGED <<loopVars, wakeupFd, fresh, executed>>

\* runInLoop called by the loop's own thread runs the function on the spot
\* (from any other thread runInLoop is QueueInLoop).
RunInLoopDirectly(k) ==
  /\ MayHandOver(LoopThread, k)
  /\ fresh' = fresh \ {k}
  /\ executed' = Append(executed, k)
  /\ UNCHANGED <<loopVars, wakeupFd, tasks, mutex, postVars>>

SetQuit == /\ quit' = TRUE
           /\ UNCHANGED <<loopPc, active, eventHandling, taskings, wakeupFd, tasks, mutex,
                          postVars, fresh, executed>>
-----------------------------------------------------------------------------
(***************************************************************************)
(* The loop thread inside loop().                                          *)
(***************************************************************************)
LoopGoto(from, to) == loopPc = from /\ loopPc' = to

\* Faulty: loop() begins with quit_ = false.
StartLoopAnew == /\ postPc[LoopThread] = "idle"
                 /\ LoopGoto("setup", "check")
                 /\ quit' = FALSE
                 /\ UNCHANGED <<active, eventHandling, taskings, wakeupFd, tasks, mutex,
                                postVars, fresh, executed>>

StartLoop == /\ postPc[LoopThread] = "idle"
             /\ LoopGoto("setup", "check")
             /\ UNCHANGED <<quit, active, eventHandling, taskings, wakeupFd, tasks, mutex,
                            postVars, fresh, executed>>

\* while(!quit_)
CheckQuit == /\ LoopGoto("check", IF quit THEN "done" ELSE "select")
             /\ UNCHANGED <<quit, active, eventHandling, taskings, wakeupFd, tasks, mutex,
                            postVars, fresh, executed>>

\* poll_->wait returns what is ready, or nothing: after WAIT_TIME seconds in
\* which nothing became ready, or because select failed.
PollWait == /\ LoopGoto("select", "events")
            /\ \/ \E H \in SUBSET Handlers :
                     active' = H \cup (IF wakeupFd THEN {WakeupHandler} ELSE {})
               \/ active' = {}
            /\ UNCHANGED <<quit, eventHandling, taskings, wakeupFd, tasks, mutex,
                           postVars, fresh, executed>>

\* Reading the eventfd resets its counter.
WakeupReadCallback ==
  /\ loopPc = "events" /\ WakeupHandler \in active
  /\ active' = active \ {WakeupHandler}
  /\ wakeupFd' = FALSE
  /\ UNCHANGED <<loopPc, quit, eventHandling, taskings, tasks, mutex, postVars, fresh, executed>>

HandleEvents(h) ==
  /\ LoopGoto("events", "handler")
  /\ h \in active
  /\ active' = active \ {h}
  /\ UNCHANGED <<quit, eventHandling, taskings, wakeupFd, tasks, mutex,
                 postVars, fresh, executed>>

EndHandler == /\ postPc[LoopThread] = "idle"
              /\ LoopGoto("handler", "events")
              /\ UNCHANGED <<quit, active, eventHandling, taskings, wakeupFd, tasks, mutex,
                             postVars, fresh, executed>>

\* eventHandling_ is set and tasks_.empty() read without mutex_: while a
\* thread is inside emplace_back an empty vector may already look non-empty.
CheckTasks ==
  /\ loopPc = "events" /\ active = {}
  /\ eventHandling' = TRUE
  /\ \/ (tasks # <<>> \/ mutex # NoThread) /\ loopPc' = "swap"
     \/ tasks = <<>> /\ loopPc' = "run"
  /\ UNCHANGED <<quit, active, taskings, wakeupFd, tasks, mutex, postVars, fresh, executed>>

\* Faulty: tasks_ is copied instead of swapped.
CopyTasks ==
  /\ LoopGoto("swap", "run")
  /\ mutex = NoThread
  /\ taskings' = tasks
  /\ UNCHANGED <<quit, active, eventHandling, wakeupFd, tasks, mutex, postVars, fresh, executed>>

\* runTasks: lock, swap, unlock.
SwapTasks ==
  /\ LoopGoto("swap", "run")
  /\ mutex = NoThread
  /\ taskings' = tasks
  /\ tasks' = <<>>
  /\ UNCHANGED <<quit, active, eventHandling, wakeupFd, mutex, postVars, fresh, executed>>

RunTask ==
  /\ LoopGoto("run", "task")
  /\ taskings # <<>>
  /\ taskings' = Tail(taskings)
  /\ executed' = Append(executed, Head(taskings))
  /\ UNCHANGED <<quit, active, eventHandling, wakeupFd, tasks, mutex, postVars, fresh>>

EndTask == /\ postPc[LoopThread] = "idle"
           /\ LoopGoto("task", "run")
           /\ UNCHANGED <<quit, active, eventHandling, taskings, wakeupFd, tasks, mutex,
                          postVars, fresh, executed>>

\* Faulty: tasks_ is cleared once its tasks have been executed.
EndTasksClearing == /\ taskings = <<>>
                    /\ LoopGoto("run", "check")
                    /\ eventHandling' = FALSE
                    /\ tasks' = <<>>
                    /\ UNCHANGED <<quit, active, taskings, wakeupFd, mutex,
                                   postVars, fresh, executed>>

EndTasks == /\ taskings = <<>>
            /\ LoopGoto("run", "check")
            /\ eventHandling' = FALSE
            /\ UNCHANGED <<quit, active, taskings, wakeupFd, tasks, mutex,
                           postVars, fresh, executed>>
-----------------------------------------------------------------------------
LoopStep == \/ StartLoop \/ CheckQuit \/ PollWait
            \/ WakeupReadCallback \/ (\E h \in Handlers : HandleEvents(h)) \/ EndHandler
            \/ CheckTasks \/ SwapTasks \/ RunTask \/ EndTask \/ EndTasks

PostStep(t) == Wakeup(t) \/ LockToAdd(t) \/ AddTask(t)

Next == \/ LoopStep
        \/ SetQuit
        \/ \E t \in AllThreads : PostStep(t)
        \/ \E t \in AllThreads, k \in Task : QueueInLoop(t, k)
        \/ \E k \in Task : RunInLoopDirectly(k)

\* The loop thread and a thread inside queueInLoop keep running: callbacks
\* and tasks return, and select returns after WAIT_TIME at the latest.
Fairness == /\ WF_vars(LoopStep)
            /\ \A t \in AllThreads : WF_vars(PostStep(t))

Spec == Init /\ [][Next]_vars
FairSpec == Spec /\ Fairness
-----------------------------------------------------------------------------
(***************************************************************************)
(* Properties.                                                             *)
(***************************************************************************)
LoopPc == {"setup", "check", "select", "events", "handler", "swap", "run", "task", "done"}

\* The types, and how the loop's flags, mutex_ and the local vector go with
\* where the threads are: mutex_ is held exactly inside addTask, and
\* eventHandling_ is set exactly while the tasks of an iteration are handled.
TypeOK ==
  /\ loopPc \in LoopPc
  /\ quit \in BOOLEAN /\ wakeupFd \in BOOLEAN
  /\ active \subseteq Handlers \cup {WakeupHandler}
  /\ eventHandling \in BOOLEAN
  /\ eventHandling <=> loopPc \in {"swap", "run", "task"}
  /\ tasks \in Seq(Task) /\ taskings \in Seq(Task) /\ executed \in Seq(Task)
  /\ taskings # <<>> => loopPc \in {"run", "task"}
  /\ fresh \subseteq Task
  /\ postPc \in [AllThreads -> {"idle", "wakeup", "lock", "append"}]
  /\ posting \in [AllThreads -> Task \cup {NoTask}]
  /\ \A t \in AllThreads : postPc[t] # "idle" => posting[t] \in Task
  /\ mutex \in AllThreads \cup {NoThread}
  /\ \A t \in AllThreads : mutex = t <=> postPc[t] = "append"

LoopTasks == OwnTasks \ SetupTasks

\* A task that the loop's own thread queues while looping is never left
\* waiting for a descriptor or for the timeout of select: when the loop goes
\* to wait with such a task queued, the eventfd is readable.  This is what
\* the eventHandling_ test of queueInLoop is for.
OwnTasksNotStranded ==
  loopPc = "select" /\ ~wakeupFd => \A i \in 1..Len(tasks) : tasks[i] \notin LoopTasks

\* The inductive form of OwnTasksNotStranded.  From the swap to the next
\* return of select, a LoopTask in tasks_ is covered by the eventfd.
LoopTasksCovered ==
  /\ loopPc \in {"run", "task", "check", "select"} /\ ~wakeupFd
       => \A i \in 1..Len(tasks) : tasks[i] \notin LoopTasks
  /\ loopPc = "setup" => \A i \in 1..Len(tasks) : tasks[i] \notin LoopTasks
  /\ loopPc = "task" /\ postPc[LoopThread] \in {"lock", "append"} => wakeupFd
  /\ postPc[LoopThread] # "idle" => InCallback
  /\ postPc[LoopThread] # "idle" /\ loopPc = "setup" => posting[LoopThread] \in SetupTasks
  /\ \A t \in Threads : postPc[t] # "idle" => posting[t] \notin OwnTasks

\* "While poll is being waited for, it must be woken up" (the comment at
\* queueInLoop): whenever the loop waits with a task queued that was handed
\* over after loop() began, the eventfd is readable.  The code writes to the
\* eventfd before it queues the task, and the loop can consume the write in
\* between.
NoLostWakeup ==
  loopPc = "select" /\ ~wakeupFd => \A i \in 1..Len(tasks) : tasks[i] \in SetupTasks

\* queueInLoop and runInLoop implement a serial executor: tasks are started
\* in the order in which they were appended, each at most once.
Posted == {posting[t] : t \in AllThreads} \ {NoTask}
Executor == INSTANCE SerialExecutor
              WITH Direct  <- OwnTasks,
                   fresh   <- fresh \cup Posted,
                   pending <- taskings \o tasks
ImplementsSerialExecutor == Executor!Spec

\* What the refinement rests on: a task is handed over by one thread, once.
HandedOverOnce ==
  /\ \A t \in AllThreads : posting[t] # NoTask <=> postPc[t] # "idle"
  /\ \A t \in AllThreads : posting[t] \notin fresh
  /\ \A t, u \in AllThreads : posting[t] = posting[u] /\ posting[t] # NoTask => t = u

Queued(k)  == \E i \in 1..Len(tasks) : tasks[i] = k
Started(k) == \E i \in 1..Len(executed) : executed[i] = k

\* Every queued task is started, unless the loop is told to quit: a wake-up
\* that came too early delays the task until select times out, no longer.
QueuedTasksRun == \A k \in Task : Queued(k) ~> Started(k) \/ quit

\* Setting quit_ makes loop() return, whatever is still queued.
QuitStopsLoop == quit ~> loopPc = "done"
=============================================================================
