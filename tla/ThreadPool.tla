----------------------------- MODULE ThreadPool -----------------------------
(***************************************************************************)
(* ThreadPool (util/ThreadPool.h, ThreadPool.cpp): start() creates the     *)
(* workers one after the other; each takes a function from the queue and   *)
(* runs it, for ever.  Functions are put by other threads, before, during  *)
(* and after start(), and by the functions themselves.                     *)
(***************************************************************************)
EXTENDS BlockingQueue, FiniteSets

CONSTANT Worker       \* the threads of the pool; the others are producers

ASSUME WorkerAssumption == Worker \subseteq Thread /\ IsFiniteSet(Thread)

VARIABLES
  status,  \* of a worker: "absent", "created", "running", "failed"
  job,     \* the function a worker runs
  fresh,   \* history: functions not yet put
  done     \* history: functions that have returned

poolVars == <<status, job, fresh, done>>
vars == <<queueVars, poolVars>>

Init == /\ QueueInit
        /\ status = [w \in Worker |-> "absent"] /\ job = [w \in Worker |-> NoTask]
        /\ fresh = Task /\ done = {}

Created(w, s) == /\ status[w] = "absent" /\ \A v \in Worker : status[v] # "created"
                 /\ status' = [status EXCEPT ![w] = s]
                 /\ UNCHANGED <<queueVars, job, fresh, done>>

\* start(): the next worker is created when the one before is running.
StartWorker(w) == Created(w, "created")

\* pthread_create fails: start() goes on without the worker.
StartFails(w) == Created(w, "failed")

EnterRunFunc(w) == /\ status[w] = "created"
                   /\ status' = [status EXCEPT ![w] = "running"]
                   /\ UNCHANGED <<queueVars, job, fresh, done>>

Idle(w) == status[w] = "running" /\ job[w] = NoTask

\* runFunc: take, now or after a wait, gives the function to run.
TakeFunc(w) ==
  /\ Idle(w)
  /\ Take(w) \/ ResumeTake(w)
  /\ job' = IF queue = <<>> THEN job ELSE [job EXCEPT ![w] = Head(queue)]
  /\ UNCHANGED <<status, fresh, done>>

FuncReturns(w) ==
  /\ job[w] # NoTask /\ call[w] = "none"
  /\ done' = done \cup {job[w]} /\ job' = [job EXCEPT ![w] = NoTask]
  /\ UNCHANGED <<queueVars, status, fresh>>

\* A producer, or a function of a worker, puts another function; which one is
\* next makes no difference.
PutFunc(t) ==
  /\ t \in Worker => job[t] # NoTask
  /\ fresh # {}
  /\ LET x == CHOOSE y \in fresh : TRUE IN EnterPut(t, x) /\ fresh' = fresh \ {x}
  /\ UNCHANGED <<status, job, done>>

GoOn(t) == (TestFull(t) \/ ResumePut(t)) /\ UNCHANGED poolVars

\* Usually setMaxQueueSize comes before the first put.
SetMax == \E n \in Size : /\ SetMaxQueueSize(n)
                          /\ changed' = (changed \/ fresh # Task)
                          /\ UNCHANGED poolVars

WorkerStep(w) == EnterRunFunc(w) \/ TakeFunc(w) \/ FuncReturns(w)

Next == \/ \E w \in Worker : StartWorker(w) \/ StartFails(w) \/ WorkerStep(w)
        \/ \E t \in Thread : PutFunc(t) \/ GoOn(t)
        \/ SetMax \/ (SpuriousWakeup /\ UNCHANGED poolVars)

\* Workers and threads inside put keep running, functions return, and who
\* waits for the mutex, which is soon free again, gets it in the end.
Fairness == /\ \A w \in Worker : SF_vars(TakeFunc(w)) /\ WF_vars(EnterRunFunc(w) \/ FuncReturns(w))
            /\ \A t \in Thread : SF_vars(GoOn(t))

Spec == Init /\ [][Next]_vars
FairSpec == Spec /\ Fairness
-----------------------------------------------------------------------------
(***************************************************************************)
(* Properties.                                                             *)
(***************************************************************************)
Queued == {queue[i] : i \in 1..Len(queue)}
Putting == {t \in Thread : call[t] = "put"}

TypeOK ==
  /\ queue \in Seq(Task) /\ maxQueueSize \in Size \cup {0}
  /\ mutex \in Thread \cup {NoThread}
  /\ notEmpty \in ConditionOf(Worker) /\ notFull \in ConditionOf(Thread)
  /\ call \in [Thread -> {"none", "put", "take"}] /\ arg \in [Thread -> Task \cup {NoTask}]
  /\ changes \in Nat /\ changed \in BOOLEAN
  /\ status \in [Worker -> {"absent", "created", "running", "failed"}]
  /\ job \in [Worker -> Task \cup {NoTask}] /\ fresh \subseteq Task /\ done \subseteq Task

\* Everybody inside a call is in one place: holding the mutex, waiting, or
\* woken; a worker waits for a function only when it has none.
CallsAccounted ==
  /\ Putting = notFull.waiting \cup notFull.woken \cup ({mutex} \ {NoThread})
  /\ mutex \notin notFull.waiting \cup notFull.woken
  /\ {t \in Thread : call[t] = "take"} = notEmpty.waiting \cup notEmpty.woken
  /\ \A t \in Thread : arg[t] # NoTask <=> call[t] = "put"
  /\ \A w \in Worker : /\ call[w] = "take" => job[w] = NoTask
                       /\ call[w] = "put" => job[w] # NoTask
                       /\ status[w] # "running" => job[w] = NoTask /\ call[w] = "none"

\* A function is put, run and finished once: it waits with its producer, in
\* the queue, or with the worker that runs it, never with two of them.
EachTaskOnce ==
  /\ Task = fresh \cup done \cup Queued \cup {arg[t] : t \in Putting}
                  \cup ({job[w] : w \in Worker} \ {NoTask})
  /\ \A i, j \in 1..Len(queue) : queue[i] = queue[j] => i = j
  /\ \A t, u \in Putting : arg[t] = arg[u] => t = u
  /\ \A v, w \in Worker : job[v] = job[w] /\ job[v] # NoTask => v = w
  /\ fresh \cap done = {} /\ (fresh \cup done) \cap Queued = {}
  /\ \A t \in Putting : arg[t] \notin fresh \cup done \cup Queued
  /\ \A w \in Worker : job[w] \notin fresh \cup done \cup Queued \cup {arg[t] : t \in Putting}

\* notify wakes one: while a worker still sleeps, there is an awakened one for
\* every function in the queue.
NoForgottenConsumer == notEmpty.waiting # {} => Len(queue) <= Cardinality(notEmpty.woken)

\* While a producer sleeps, there is one awake inside put for every free place:
\* as long as the limit was set before the first put.
NoForgottenProducer ==
  ~changed /\ notFull.waiting # {} =>
    maxQueueSize - Len(queue) <= Cardinality(notFull.woken \cup ({mutex} \ {NoThread}))

\* A limit that was set before the first put is kept.
WithinLimit == ~changed /\ maxQueueSize > 0 => Len(queue) <= maxQueueSize

\* Unless in the end every worker is stuck in a put of its own, the functions
\* in the queue, which are finitely many, are all taken; and every put returns
\* if the limit was set before the first.
SomeWorkerFree == \E w \in Worker : status[w] = "running" /\ call[w] # "put"

TasksRun == []<>SomeWorkerFree => []<>(queue = <<>>)
PutsReturn == []<>SomeWorkerFree => []<>(Putting = {} \/ changed)
=============================================================================
