-------------------------- MODULE ThreadPoolProofs --------------------------
(***************************************************************************)
(* Proofs about ThreadPool, for any threads, functions and limits.  The    *)
(* invariants are proved in three layers, each used by the next: where the *)
(* threads are (CallsAccounted), where the functions are (EachTaskOnce),   *)
(* and how many wake-ups are under way for what is in the queue.           *)
(***************************************************************************)
EXTENDS ThreadPool, FiniteSetTheorems, TLAPS

Placed == TypeOK /\ CallsAccounted

\* Appending to a sequence adds its element to the elements.
LEMMA AppendElements ==
  ASSUME NEW S, NEW s \in Seq(S), NEW x \in S
  PROVE  /\ Append(s, x) \in Seq(S) /\ Len(Append(s, x)) = Len(s) + 1
         /\ \A i \in 1..Len(s) : Append(s, x)[i] = s[i]
         /\ Append(s, x)[Len(s) + 1] = x
  OBVIOUS

LEMMA TailElements ==
  ASSUME NEW S, NEW s \in Seq(S), s # <<>>
  PROVE  /\ Tail(s) \in Seq(S) /\ Len(Tail(s)) = Len(s) - 1 /\ Len(s) \in Nat \ {0}
         /\ \A i \in 1..(Len(s) - 1) : Tail(s)[i] = s[i + 1]
         /\ Head(s) = s[1] /\ Head(s) \in S
  OBVIOUS

\* notify, Wake, Wait and Return keep a condition's threads in one place each.
LEMMA ConditionSteps ==
  ASSUME NEW T, NEW c \in ConditionOf(T), NEW t \in T
  PROVE  /\ Wait(c, t) \in ConditionOf(T) /\ Return(c, t) \in ConditionOf(T)
         /\ Wake(c, t) \in ConditionOf(T)
         /\ Notify(c) \subseteq ConditionOf(T)
         /\ \A d \in Notify(c) : d.waiting \cup d.woken = c.waiting \cup c.woken
  BY DEF ConditionOf, Wait, Wake, Return, Notify

LEMMA InitPlaced == Init => Placed
<1> SUFFICES ASSUME Init PROVE Placed
  OBVIOUS
<1> USE DEF Init, QueueInit, NewCondition
<1>1. TypeOK
  <2>1. queue \in Seq(Task)
    OBVIOUS
  <2>2. notEmpty \in ConditionOf(Worker) /\ notFull \in ConditionOf(Thread)
    BY DEF ConditionOf
  <2> QED
    BY <2>1, <2>2 DEF TypeOK
<1>2. \A t \in Thread : call[t] = "none" /\ arg[t] = NoTask
  OBVIOUS
<1>3. \A w \in Worker : job[w] = NoTask
  OBVIOUS
<1>4. Putting = {} /\ {t \in Thread : call[t] = "take"} = {}
  BY <1>2 DEF Putting
<1>5. CallsAccounted
  BY <1>2, <1>3, <1>4, WorkerAssumption DEF CallsAccounted
<1> QED
  BY <1>1, <1>5 DEF Placed

\* Everybody keeps to one place, step by step.
LEMMA NextPlaced == Placed /\ [Next]_vars => Placed'
<1> SUFFICES ASSUME Placed, [Next]_vars PROVE Placed'
  OBVIOUS
<1> USE ThreadAssumption, TaskAssumption, WorkerAssumption DEF Placed
<1>1. TypeOK /\ CallsAccounted
  OBVIOUS
<1>2. ASSUME NEW w \in Worker, NEW s \in {"created", "failed"}, Created(w, s) PROVE Placed'
  BY <1>1, <1>2 DEF Created, TypeOK, CallsAccounted, Putting, queueVars, limitVars
<1>3. ASSUME NEW w \in Worker, EnterRunFunc(w) PROVE Placed'
  BY <1>1, <1>3 DEF EnterRunFunc, TypeOK, CallsAccounted, Putting, queueVars, limitVars
<1>4. ASSUME NEW w \in Worker, TakeFunc(w) PROVE Placed'
  <2> USE <1>4 DEF TakeFunc, Idle
  <2>1. w \in Thread /\ notFull' \in ConditionOf(Thread)
        /\ notFull'.waiting \cup notFull'.woken = notFull.waiting \cup notFull.woken
    BY <1>1, ConditionSteps DEF TypeOK, Take, ResumeTake, Pop
  <2>2. queue = <<>> => queue' = queue /\ job' = job /\ notEmpty' = Wait(notEmpty, w)
                        /\ notFull' = notFull /\ call' = [call EXCEPT ![w] = "take"]
    BY <1>1, <2>1 DEF Take, ResumeTake, TypeOK, CallsAccounted, ConditionOf
  <2>3. queue # <<>> => queue' = Tail(queue) /\ job' = [job EXCEPT ![w] = Head(queue)]
                        /\ notEmpty' = Return(notEmpty, w) /\ call' = [call EXCEPT ![w] = "none"]
    BY <1>1, <2>1 DEF Take, ResumeTake, Pop, TypeOK, CallsAccounted, ConditionOf, Return
  <2>4. UNCHANGED <<mutex, arg, limitVars, status, fresh, done>>
    BY DEF Take, ResumeTake
  <2>5. TypeOK'
    <3>1. queue' \in Seq(Task) /\ job' \in [Worker -> Task \cup {NoTask}]
      BY <1>1, <2>2, <2>3, TailElements DEF TypeOK
    <3>2. notEmpty' \in ConditionOf(Worker)
      BY <1>1, <2>2, <2>3, ConditionSteps DEF TypeOK
    <3>3. call' \in [Thread -> {"none", "put", "take"}]
      BY <1>1, <2>1, <2>2, <2>3 DEF TypeOK
    <3> QED
      BY <1>1, <2>1, <2>4, <3>1, <3>2, <3>3 DEF TypeOK, limitVars
  <2>6. Putting' = Putting
    BY <1>1, <2>1, <2>2, <2>3 DEF TypeOK, CallsAccounted, Putting
  <2>7. CallsAccounted'
    <3>1. notEmpty \in ConditionOf(Worker) /\ w \in Worker /\ w \notin notEmpty.waiting
      BY <1>1, <2>1 DEF TypeOK, CallsAccounted, ConditionOf, Take, ResumeTake
    <3>2. w \notin Return(notEmpty, w).woken /\ Return(notEmpty, w).waiting = notEmpty.waiting
          /\ Return(notEmpty, w).woken = notEmpty.woken \ {w}
          /\ Wait(notEmpty, w).waiting \cup Wait(notEmpty, w).woken
               = notEmpty.waiting \cup notEmpty.woken \cup {w}
      BY <3>1 DEF Return, Wait, ConditionOf
    <3>3. {u \in Thread : call'[u] = "take"} = notEmpty'.waiting \cup notEmpty'.woken
      <4>1. CASE queue = <<>>
        BY <1>1, <2>1, <2>2, <3>2, <4>1 DEF TypeOK, CallsAccounted
      <4>2. CASE queue # <<>>
        BY <1>1, <2>1, <2>3, <3>1, <3>2, <4>2 DEF TypeOK, CallsAccounted
      <4> QED
        BY <4>1, <4>2
    <3>4. \A v \in Worker : /\ call'[v] = "take" => job'[v] = NoTask
                            /\ call'[v] = "put" => job'[v] # NoTask
                            /\ status'[v] # "running" => job'[v] = NoTask /\ call'[v] = "none"
      BY <1>1, <2>1, <2>2, <2>3, <2>4 DEF TypeOK, CallsAccounted
    <3>5. \A u \in Thread : arg'[u] # NoTask <=> call'[u] = "put"
      BY <1>1, <2>1, <2>2, <2>3, <2>4 DEF TypeOK, CallsAccounted, Putting
    <3> QED
      BY <1>1, <2>1, <2>4, <2>6, <3>3, <3>4, <3>5 DEF CallsAccounted
  <2> QED
    BY <2>5, <2>7
<1>5. ASSUME NEW w \in Worker, FuncReturns(w) PROVE Placed'
  BY <1>1, <1>5 DEF FuncReturns, TypeOK, CallsAccounted, Putting, queueVars, limitVars
<1>6. ASSUME NEW t \in Thread, PutFunc(t) PROVE Placed'
  <2> DEFINE x == CHOOSE y \in fresh : TRUE
  <2> USE <1>6 DEF PutFunc, EnterPut
  <2>1. x \in fresh /\ x \in Task /\ x # NoTask
    BY <1>1 DEF TypeOK
  <2> HIDE DEF x
  <2>2. mutex = NoThread /\ call[t] = "none" /\ fresh' = fresh \ {x}
        /\ UNCHANGED <<notFull, limitVars, status, job, done>>
    BY DEF x
  <2>3. CASE maxQueueSize = 0
    <3>1. queue' = Append(queue, x) /\ notEmpty' \in Notify(notEmpty) /\ UNCHANGED <<mutex, call, arg>>
      BY <2>3 DEF Push, x
    <3>2. /\ notEmpty' \in ConditionOf(Worker)
          /\ notEmpty'.waiting \cup notEmpty'.woken = notEmpty.waiting \cup notEmpty.woken
      BY <1>1, <3>1, ConditionSteps DEF TypeOK, Notify, Wake, ConditionOf
    <3>3. queue' \in Seq(Task)
      BY <1>1, <2>1, <3>1, AppendElements DEF TypeOK
    <3>4. TypeOK'
      BY <1>1, <2>2, <3>1, <3>2, <3>3 DEF TypeOK, limitVars
    <3>5. CallsAccounted'
      BY <1>1, <2>2, <3>1, <3>2 DEF CallsAccounted, Putting
    <3> QED
      BY <3>4, <3>5
  <2>4. CASE maxQueueSize # 0
    <3>1. mutex' = t /\ call' = [call EXCEPT ![t] = "put"] /\ arg' = [arg EXCEPT ![t] = x]
          /\ UNCHANGED <<queue, notEmpty>>
      BY <2>4 DEF x
    <3>2. TypeOK'
      BY <1>1, <2>1, <2>2, <3>1 DEF TypeOK, limitVars
    <3>3. Putting' = Putting \cup {t}
      BY <1>1, <3>1 DEF TypeOK, Putting
    <3>4. CallsAccounted'
      BY <1>1, <2>1, <2>2, <3>1, <3>3 DEF TypeOK, CallsAccounted, Putting
    <3> QED
      BY <3>2, <3>4
  <2> QED
    BY <2>3, <2>4
<1>7. ASSUME NEW t \in Thread, GoOn(t) PROVE Placed'
  <2> USE <1>7 DEF GoOn, poolVars, limitVars
  <2>1. CASE TestFull(t) /\ Full
    <3>1. mutex = t /\ mutex' = NoThread /\ notFull' = Wait(notFull, t)
          /\ UNCHANGED <<queue, notEmpty, call, arg, limitVars, poolVars>>
      BY <2>1 DEF TestFull
    <3>2. TypeOK'
      BY <1>1, <3>1, ConditionSteps DEF TypeOK
    <3>3. CallsAccounted'
      BY <1>1, <3>1 DEF TypeOK, CallsAccounted, Putting, Wait
    <3> QED
      BY <3>2, <3>3
  <2>2. CASE TestFull(t) /\ ~Full
    <3>1. mutex = t /\ mutex' = NoThread /\ queue' = Append(queue, arg[t])
          /\ notEmpty' \in Notify(notEmpty)
          /\ call' = [call EXCEPT ![t] = "none"] /\ arg' = [arg EXCEPT ![t] = NoTask]
          /\ UNCHANGED <<notFull, limitVars, poolVars>>
      BY <2>2 DEF TestFull, Push, Finish
    <3>2. call[t] = "put" /\ arg[t] \in Task
      BY <1>1, <3>1 DEF TypeOK, CallsAccounted, Putting
    <3>3. /\ notEmpty' \in ConditionOf(Worker)
          /\ notEmpty'.waiting \cup notEmpty'.woken = notEmpty.waiting \cup notEmpty.woken
      BY <1>1, <3>1, ConditionSteps DEF TypeOK, Notify, Wake, ConditionOf
    <3>4. queue' \in Seq(Task)
      BY <1>1, <3>1, <3>2, AppendElements DEF TypeOK
    <3>5. TypeOK'
      BY <1>1, <3>1, <3>3, <3>4 DEF TypeOK
    <3>6. Putting' = Putting \ {t}
      BY <1>1, <3>1 DEF TypeOK, Putting
    <3>7. CallsAccounted'
      BY <1>1, <3>1, <3>2, <3>3, <3>6 DEF TypeOK, CallsAccounted, Putting
    <3> QED
      BY <3>5, <3>7
  <2>3. CASE ResumePut(t)
    <3>1. TypeOK'
      BY <1>1, <2>3, ConditionSteps DEF TypeOK, ResumePut
    <3>2. CallsAccounted'
      BY <1>1, <2>3 DEF TypeOK, CallsAccounted, Putting, ResumePut, Return, ConditionOf
    <3> QED
      BY <3>1, <3>2
  <2> QED
    BY <2>1, <2>2, <2>3
<1>8. CASE SetMax
  BY <1>1, <1>8 DEF SetMax, SetMaxQueueSize, poolVars, TypeOK, CallsAccounted, Putting
<1>9. CASE SpuriousWakeup /\ UNCHANGED poolVars
  <2>1. TypeOK'
    BY <1>1, <1>9, ConditionSteps DEF SpuriousWakeup, TypeOK, ConditionOf, Wake, poolVars, limitVars
  <2>2. CallsAccounted'
    BY <1>1, <1>9 DEF SpuriousWakeup, TypeOK, CallsAccounted, Putting, Wake, ConditionOf, poolVars, limitVars
  <2> QED
    BY <2>1, <2>2
<1>10. CASE UNCHANGED vars
  BY <1>1, <1>10 DEF vars, queueVars, poolVars, limitVars, TypeOK, CallsAccounted, Putting
<1> QED
  BY <1>2, <1>3, <1>4, <1>5, <1>6, <1>7, <1>8, <1>9, <1>10
  DEF Next, StartWorker, StartFails, WorkerStep

\* The state stays within its types, for every number of threads, workers and
\* functions, and whatever setMaxQueueSize is called with.
THEOREM TypeCorrect == Spec => []TypeOK
<1> QED
  BY InitPlaced, NextPlaced, PTL DEF Spec, Placed

\* util/BlockingQueue.h and Condition.h: a caller of put or take is in one
\* place, and a worker waits for a function only when it has none.
THEOREM EveryCallAccounted == Spec => []CallsAccounted
<1> QED
  BY InitPlaced, NextPlaced, PTL DEF Spec, Placed
-----------------------------------------------------------------------------
(***************************************************************************)
(* Where the functions are.                                                *)
(***************************************************************************)
Elements(s) == {s[i] : i \in 1..Len(s)}
Distinct(s) == \A i, j \in 1..Len(s) : s[i] = s[j] => i = j

LEMMA AppendDistinct ==
  ASSUME NEW S, NEW s \in Seq(S), NEW x \in S
  PROVE  /\ Elements(Append(s, x)) = Elements(s) \cup {x}
         /\ Distinct(s) /\ x \notin Elements(s) => Distinct(Append(s, x))
  BY AppendElements DEF Elements, Distinct

LEMMA TailDistinct ==
  ASSUME NEW S, NEW s \in Seq(S), s # <<>>, Distinct(s)
  PROVE  /\ Elements(Tail(s)) = Elements(s) \ {Head(s)}
         /\ Distinct(Tail(s)) /\ Head(s) \in Elements(s)
<1>1. /\ Tail(s) \in Seq(S) /\ Len(Tail(s)) = Len(s) - 1 /\ Len(s) \in Nat \ {0}
      /\ \A i \in 1..(Len(s) - 1) : Tail(s)[i] = s[i + 1]
      /\ Head(s) = s[1]
  BY TailElements
<1>2. Elements(Tail(s)) \subseteq Elements(s) \ {Head(s)}
  BY <1>1 DEF Elements, Distinct
<1>3. ASSUME NEW x \in Elements(s) \ {Head(s)} PROVE x \in Elements(Tail(s))
  <2>1. PICK i \in 1..Len(s) : x = s[i]
    BY <1>3 DEF Elements
  <2>2. i # 1 /\ i - 1 \in 1..(Len(s) - 1) /\ Tail(s)[i - 1] = s[(i - 1) + 1] /\ (i - 1) + 1 = i
    BY <1>1, <1>3, <2>1
  <2> QED
    BY <1>1, <2>1, <2>2 DEF Elements
<1>4. Distinct(Tail(s))
  BY <1>1 DEF Distinct
<1>5. Head(s) \in Elements(s)
  BY <1>1 DEF Elements
<1> QED
  BY <1>2, <1>3, <1>4, <1>5

\* EachTaskOnce, with the sets it speaks of named.
Held == {arg[t] : t \in Putting}
Run == {job[w] : w \in Worker} \ {NoTask}
Once ==
  /\ Task = fresh \cup done \cup Elements(queue) \cup Held \cup Run
  /\ Distinct(queue)
  /\ \A t, u \in Putting : arg[t] = arg[u] => t = u
  /\ \A v, w \in Worker : job[v] = job[w] /\ job[v] # NoTask => v = w
  /\ fresh \cap done = {} /\ (fresh \cup done) \cap Elements(queue) = {}
  /\ Held \cap (fresh \cup done \cup Elements(queue)) = {}
  /\ Run \cap (fresh \cup done \cup Elements(queue) \cup Held) = {}

LEMMA OnceIsEachTaskOnce == TypeOK /\ CallsAccounted => (Once <=> EachTaskOnce)
<1> SUFFICES ASSUME TypeOK, CallsAccounted PROVE Once <=> EachTaskOnce
  OBVIOUS
<1>1. Elements(queue) = Queued
  BY DEF Elements, Queued
<1>2. (\A t \in Putting : arg[t] \notin fresh \cup done \cup Queued)
        <=> Held \cap (fresh \cup done \cup Queued) = {}
  BY DEF Held
<1>3. NoTask \notin fresh \cup done \cup Queued \cup Held
  BY TaskAssumption DEF TypeOK, CallsAccounted, Queued, Held, Putting
<1>4. (\A w \in Worker : job[w] \notin fresh \cup done \cup Queued \cup Held)
        <=> Run \cap (fresh \cup done \cup Queued \cup Held) = {}
  BY <1>3 DEF Run
<1>5. Distinct(queue) <=> \A i, j \in 1..Len(queue) : queue[i] = queue[j] => i = j
  BY DEF Distinct
<1>6. Held = {arg[t] : t \in Putting} /\ Run = {job[w] : w \in Worker} \ {NoTask}
  BY DEF Held, Run
<1> QED
  BY <1>1, <1>2, <1>4, <1>5, <1>6 DEF Once, EachTaskOnce

\* What Once speaks of, when none of it changes.
LEMMA OnceUnchanged ==
  ASSUME Once, UNCHANGED <<queue, arg, Putting, job, fresh, done>>
  PROVE  Once'
<1>1. Elements(queue') = Elements(queue) /\ (Distinct(queue') <=> Distinct(queue))
  OBVIOUS
<1>2. Held' = Held /\ Run' = Run
  BY DEF Held, Run
<1> QED
  BY <1>1, <1>2 DEF Once

\* A function moves from one place to the next.
LEMMA NextOnce == Placed /\ Once /\ [Next]_vars => Once'
<1> SUFFICES ASSUME Placed, Once, [Next]_vars PROVE Once'
  OBVIOUS
<1> USE ThreadAssumption, TaskAssumption, WorkerAssumption
<1>1. TypeOK /\ CallsAccounted /\ queue \in Seq(Task)
  BY DEF Placed, TypeOK
<1>2. ASSUME NEW w \in Worker, NEW s \in {"created", "failed"}, Created(w, s) PROVE Once'
  BY <1>2, OnceUnchanged DEF Created, Putting, queueVars
<1>3. ASSUME NEW w \in Worker, EnterRunFunc(w) PROVE Once'
  BY <1>3, OnceUnchanged DEF EnterRunFunc, Putting, queueVars
<1>4. ASSUME NEW w \in Worker, TakeFunc(w) PROVE Once'
  <2>1. job[w] = NoTask /\ arg' = arg /\ fresh' = fresh /\ done' = done /\ Putting' = Putting
    BY <1>1, <1>4 DEF TakeFunc, Idle, Take, ResumeTake, Pop, TypeOK, CallsAccounted, Putting, ConditionOf
  <2>2. CASE queue = <<>>
    BY <1>4, <2>1, <2>2, OnceUnchanged DEF TakeFunc, Take, ResumeTake
  <2>3. CASE queue # <<>>
    <3>1. queue' = Tail(queue) /\ job' = [job EXCEPT ![w] = Head(queue)]
      BY <1>4, <2>3 DEF TakeFunc, Take, ResumeTake, Pop
    <3>2. /\ Elements(queue') = Elements(queue) \ {Head(queue)} /\ Distinct(queue')
          /\ Head(queue) \in Elements(queue) /\ Head(queue) \in Task
      BY <1>1, <2>3, <3>1, TailDistinct, TailElements DEF Once
    <3>3. Held' = Held
      BY <2>1 DEF Held
    <3>4. Run' = Run \cup {Head(queue)}
      BY <1>1, <2>1, <3>1, <3>2 DEF Run, TypeOK
    <3>5. \A u, v \in Worker : job'[u] = job'[v] /\ job'[u] # NoTask => u = v
      BY <1>1, <3>1, <3>2 DEF Once, Run, TypeOK
    <3> QED
      BY <2>1, <3>2, <3>3, <3>4, <3>5 DEF Once
  <2> QED
    BY <2>2, <2>3
<1>5. ASSUME NEW w \in Worker, FuncReturns(w) PROVE Once'
  <2>1. /\ job[w] # NoTask /\ done' = done \cup {job[w]} /\ job' = [job EXCEPT ![w] = NoTask]
        /\ UNCHANGED <<queue, arg, Putting, fresh>>
    BY <1>5 DEF FuncReturns, queueVars, Putting
  <2>2. Elements(queue') = Elements(queue) /\ Distinct(queue') /\ Held' = Held
    BY <2>1 DEF Once, Held
  <2>3. Run' = Run \ {job[w]} /\ job[w] \in Run
    BY <1>1, <2>1 DEF Once, Run, TypeOK
  <2>4. \A u, v \in Worker : job'[u] = job'[v] /\ job'[u] # NoTask => u = v
    BY <1>1, <2>1 DEF Once, TypeOK
  <2> QED
    BY <2>1, <2>2, <2>3, <2>4 DEF Once
<1>6. ASSUME NEW t \in Thread, PutFunc(t) PROVE Once'
  <2> DEFINE x == CHOOSE y \in fresh : TRUE
  <2>1. x \in fresh /\ x \in Task /\ fresh' = fresh \ {x} /\ EnterPut(t, x)
        /\ job' = job /\ done' = done /\ Run' = Run
    BY <1>1, <1>6 DEF PutFunc, TypeOK, Run
  <2> HIDE DEF x
  <2>2. CASE maxQueueSize = 0
    <3>1. queue' = Append(queue, x) /\ arg' = arg /\ call' = call
      BY <2>1, <2>2 DEF EnterPut, Push
    <3>2. Elements(queue') = Elements(queue) \cup {x} /\ Distinct(queue')
      BY <1>1, <2>1, <3>1, AppendDistinct DEF Once
    <3>3. Putting' = Putting /\ Held' = Held
      BY <3>1 DEF Putting, Held
    <3> QED
      BY <2>1, <3>1, <3>2, <3>3 DEF Once
  <2>3. CASE maxQueueSize # 0
    <3>1. /\ queue' = queue /\ call[t] = "none"
          /\ call' = [call EXCEPT ![t] = "put"] /\ arg' = [arg EXCEPT ![t] = x]
      BY <2>1, <2>3 DEF EnterPut
    <3>2. Putting' = Putting \cup {t} /\ t \notin Putting
      BY <1>1, <3>1 DEF TypeOK, Putting
    <3>3. Held' = Held \cup {x}
      BY <1>1, <3>1, <3>2 DEF TypeOK, Held, Putting
    <3>4. \A u, v \in Putting' : arg'[u] = arg'[v] => u = v
      BY <1>1, <2>1, <3>1, <3>2 DEF TypeOK, Once, Held, Putting
    <3> QED
      BY <2>1, <3>1, <3>3, <3>4 DEF Once
  <2> QED
    BY <2>2, <2>3
<1>7. ASSUME NEW t \in Thread, GoOn(t) PROVE Once'
  <2>1. UNCHANGED <<job, fresh, done>> /\ Run' = Run
    BY <1>7 DEF GoOn, poolVars, Run
  <2>2. CASE TestFull(t) /\ ~Full
    <3>1. /\ mutex = t /\ queue' = Append(queue, arg[t])
          /\ call' = [call EXCEPT ![t] = "none"] /\ arg' = [arg EXCEPT ![t] = NoTask]
      BY <2>2 DEF TestFull, Push, Finish
    <3>2. t \in Putting /\ arg[t] \in Task /\ arg[t] \in Held
      BY <1>1, <3>1 DEF TypeOK, CallsAccounted, Putting, Held
    <3>3. Elements(queue') = Elements(queue) \cup {arg[t]} /\ Distinct(queue')
      BY <1>1, <3>1, <3>2, AppendDistinct DEF Once
    <3>4. Putting' = Putting \ {t} /\ \A u \in Putting' : arg'[u] = arg[u] /\ u \in Putting
      BY <1>1, <3>1 DEF TypeOK, Putting
    <3>5. Held' = Held \ {arg[t]}
      BY <3>2, <3>4 DEF Held, Once
    <3>6. \A u, v \in Putting' : arg'[u] = arg'[v] => u = v
      BY <3>4 DEF Once
    <3> QED
      BY <2>1, <3>2, <3>3, <3>5, <3>6 DEF Once
  <2>3. CASE (TestFull(t) /\ Full) \/ ResumePut(t)
    BY <2>1, <2>3, OnceUnchanged DEF TestFull, ResumePut, Putting
  <2> QED
    BY <1>7, <2>2, <2>3 DEF GoOn
<1>8. CASE SetMax
  BY <1>8, OnceUnchanged DEF SetMax, SetMaxQueueSize, poolVars, Putting
<1>9. CASE SpuriousWakeup /\ UNCHANGED poolVars
  BY <1>9, OnceUnchanged DEF SpuriousWakeup, poolVars, Putting
<1>10. CASE UNCHANGED vars
  BY <1>10, OnceUnchanged DEF vars, queueVars, poolVars, Putting
<1> QED
  BY <1>2, <1>3, <1>4, <1>5, <1>6, <1>7, <1>8, <1>9, <1>10
  DEF Next, StartWorker, StartFails, WorkerStep

LEMMA InitOnce == Init => Once
<1> SUFFICES ASSUME Init PROVE Once
  OBVIOUS
<1>1. Elements(queue) = {} /\ Distinct(queue)
  BY DEF Init, QueueInit, Elements, Distinct
<1>2. Putting = {} /\ Held = {} /\ Run = {} /\ \A w \in Worker : job[w] = NoTask
  BY WorkerAssumption DEF Init, QueueInit, Putting, Held, Run
<1> QED
  BY <1>1, <1>2 DEF Init, Once

\* ThreadPool's promise: a function that is put is run once, by one worker.
THEOREM EachTaskOnceAlways == Spec => []EachTaskOnce
<1>1. Placed /\ Once => EachTaskOnce
  BY OnceIsEachTaskOnce DEF Placed
<1> QED
  BY <1>1, InitPlaced, NextPlaced, InitOnce, NextOnce, PTL DEF Spec
-----------------------------------------------------------------------------
(***************************************************************************)
(* Wake-ups.                                                               *)
(***************************************************************************)
\* A finite condition: what each operation does to the number of those awake.
LEMMA ConditionCounts ==
  ASSUME NEW T, IsFiniteSet(T), NEW c \in ConditionOf(T), NEW t \in T
  PROVE  /\ IsFiniteSet(c.woken) /\ Cardinality(c.woken) \in Nat
         /\ t \in c.waiting => Cardinality(Wake(c, t).woken) = Cardinality(c.woken) + 1
         /\ t \in c.woken => Cardinality(c.woken \ {t}) = Cardinality(c.woken) - 1
         /\ \A d \in Notify(c) : c.waiting # {} => Cardinality(d.woken) = Cardinality(c.woken) + 1
<1>1. c.woken \subseteq T /\ c.waiting \subseteq T /\ c.waiting \cap c.woken = {}
  BY DEF ConditionOf
<1>2. IsFiniteSet(c.woken) /\ Cardinality(c.woken) \in Nat
  BY <1>1, FS_Subset, FS_CardinalityType
<1>3. \A u \in c.waiting : Cardinality(Wake(c, u).woken) = Cardinality(c.woken) + 1
  BY <1>1, <1>2, FS_AddElement DEF Wake
<1>4. t \in c.woken => Cardinality(c.woken \ {t}) = Cardinality(c.woken) - 1
  BY <1>2, FS_RemoveElement
<1>5. \A d \in Notify(c) : c.waiting # {} => \E u \in c.waiting : d = Wake(c, u)
  BY DEF Notify
<1> QED
  BY <1>2, <1>3, <1>4, <1>5

\* notify wakes one consumer for each function that comes in, and no more
\* than one function goes to each that is awake.
LEMMA NextConsumer == Placed /\ NoForgottenConsumer /\ [Next]_vars => NoForgottenConsumer'
<1> SUFFICES ASSUME Placed, NoForgottenConsumer, [Next]_vars, notEmpty'.waiting # {}
             PROVE  Len(queue') <= Cardinality(notEmpty'.woken)
  BY DEF NoForgottenConsumer
<1> USE ThreadAssumption, TaskAssumption, WorkerAssumption DEF Placed
<1>1. /\ queue \in Seq(Task) /\ Len(queue) \in Nat
      /\ notEmpty \in ConditionOf(Worker) /\ IsFiniteSet(Worker)
  BY FS_Subset DEF TypeOK
<1>2. IsFiniteSet(notEmpty.woken) /\ Cardinality(notEmpty.woken) \in Nat
  BY <1>1, FS_Subset, FS_CardinalityType DEF ConditionOf
<1>3. CASE UNCHANGED <<queue, notEmpty>>
  BY <1>3 DEF NoForgottenConsumer
<1>4. ASSUME NEW x \in Task, Push(x) PROVE Len(queue') <= Cardinality(notEmpty'.woken)
  <2>1. Len(queue') = Len(queue) + 1 /\ notEmpty' \in Notify(notEmpty)
    BY <1>1, <1>4, AppendElements DEF Push
  <2>2. notEmpty.waiting # {}
    BY <2>1 DEF Notify, Wake
  <2>3. PICK u \in notEmpty.waiting : notEmpty' = Wake(notEmpty, u)
    BY <2>1, <2>2 DEF Notify
  <2>4. Cardinality(Wake(notEmpty, u).woken) = Cardinality(notEmpty.woken) + 1
    BY <1>1, ConditionCounts DEF ConditionOf
  <2>5. Len(queue) <= Cardinality(notEmpty.woken)
    BY <2>2 DEF NoForgottenConsumer
  <2> QED
    BY <1>1, <1>2, <2>1, <2>3, <2>4, <2>5
<1>5. ASSUME NEW w \in Worker, TakeFunc(w) PROVE Len(queue') <= Cardinality(notEmpty'.woken)
  <2>1. CASE queue = <<>>
    <3>1. Len(queue') = 0 /\ notEmpty' = Wait(notEmpty, w)
      BY <1>5, <2>1 DEF TakeFunc, Take, ResumeTake
    <3>2. Cardinality(notEmpty'.woken) \in Nat
      BY <1>1, <3>1, ConditionSteps, FS_Subset, FS_CardinalityType DEF ConditionOf
    <3> QED
      BY <3>1, <3>2
  <2>2. CASE queue # <<>> /\ Take(w)
    BY <1>1, <1>2, <2>2, TailElements DEF Take, Pop, NoForgottenConsumer
  <2>3. CASE queue # <<>> /\ ResumeTake(w)
    <3>1. Len(queue') = Len(queue) - 1 /\ w \in notEmpty.woken /\ notEmpty' = Return(notEmpty, w)
      BY <1>1, <2>3, TailElements DEF ResumeTake, Pop
    <3>2. notEmpty'.waiting = notEmpty.waiting /\ notEmpty'.woken = notEmpty.woken \ {w}
      BY <1>1, <3>1 DEF Return, ConditionOf
    <3>3. Cardinality(notEmpty.woken \ {w}) = Cardinality(notEmpty.woken) - 1
      BY <1>1, <3>1, ConditionCounts
    <3> QED
      BY <1>1, <1>2, <3>1, <3>2, <3>3 DEF NoForgottenConsumer
  <2> QED
    BY <1>5, <2>1, <2>2, <2>3 DEF TakeFunc
<1>6. ASSUME NEW t \in Thread, PutFunc(t) PROVE Len(queue') <= Cardinality(notEmpty'.woken)
  <2> DEFINE x == CHOOSE y \in fresh : TRUE
  <2>1. x \in Task /\ EnterPut(t, x)
    BY <1>6 DEF PutFunc, TypeOK
  <2> HIDE DEF x
  <2> QED
    BY <1>3, <1>4, <2>1 DEF EnterPut
<1>7. ASSUME NEW t \in Thread, GoOn(t) PROVE Len(queue') <= Cardinality(notEmpty'.woken)
  <2>1. CASE TestFull(t) /\ ~Full
    <3>1. arg[t] \in Task /\ Push(arg[t])
      BY <2>1 DEF TestFull, TypeOK, CallsAccounted, Putting
    <3> QED
      BY <1>4, <3>1
  <2> QED
    BY <1>3, <1>7, <2>1 DEF GoOn, TestFull, ResumePut
<1>8. CASE SpuriousWakeup /\ UNCHANGED poolVars
  <2>1. CASE UNCHANGED notEmpty
    BY <1>3, <1>8, <2>1 DEF SpuriousWakeup
  <2>2. ASSUME NEW u \in notEmpty.waiting, notEmpty' = Wake(notEmpty, u)
        PROVE  Len(queue') <= Cardinality(notEmpty'.woken)
    <3>1. queue' = queue /\ Len(queue) <= Cardinality(notEmpty.woken)
      BY <1>8 DEF SpuriousWakeup, NoForgottenConsumer
    <3>2. Cardinality(Wake(notEmpty, u).woken) = Cardinality(notEmpty.woken) + 1
      BY <1>1, ConditionCounts DEF ConditionOf
    <3> QED
      BY <1>1, <1>2, <2>2, <3>1, <3>2
  <2> QED
    BY <1>8, <2>1, <2>2 DEF SpuriousWakeup
<1> QED
  BY <1>3, <1>5, <1>6, <1>7, <1>8
  DEF Next, StartWorker, StartFails, Created, WorkerStep, EnterRunFunc, FuncReturns, SetMax,
      SetMaxQueueSize, vars, queueVars

\* BlockingQueue.h:25: no function waits in the queue while the worker that
\* should be awake for it sleeps.
THEOREM ConsumersNeverForgotten == Spec => []NoForgottenConsumer
<1>1. Init => NoForgottenConsumer
  BY DEF Init, QueueInit, NewCondition, NoForgottenConsumer
<1> QED
  BY <1>1, InitPlaced, NextPlaced, NextConsumer, PTL DEF Spec

\* The producers that will test the limit without being notified.
Awake == notFull.woken \cup ({mutex} \ {NoThread})

LEMMA AwakeCounts ==
  ASSUME Placed
  PROVE  /\ IsFiniteSet(Awake) /\ Cardinality(Awake) \in Nat
         /\ Awake \subseteq Awake' /\ IsFiniteSet(Awake') => Cardinality(Awake) <= Cardinality(Awake')
         /\ \A t \in Awake : Cardinality(Awake \ {t}) = Cardinality(Awake) - 1
         /\ \A t \in Thread \ Awake : Cardinality(Awake \cup {t}) = Cardinality(Awake) + 1
<1>1. Awake \subseteq Thread
  BY DEF Awake, Placed, TypeOK, ConditionOf
<1>2. IsFiniteSet(Awake) /\ Cardinality(Awake) \in Nat
  BY <1>1, WorkerAssumption, FS_Subset, FS_CardinalityType
<1>3. Awake \subseteq Awake' /\ IsFiniteSet(Awake') => Cardinality(Awake) <= Cardinality(Awake')
  BY FS_Subset
<1>4. \A t \in Awake : Cardinality(Awake \ {t}) = Cardinality(Awake) - 1
  BY <1>2, FS_RemoveElement
<1>5. \A t \in Thread \ Awake : Cardinality(Awake \cup {t}) = Cardinality(Awake) + 1
  BY <1>2, FS_AddElement
<1> QED
  BY <1>2, <1>3, <1>4, <1>5

\* A limit counts as set before the first put only while nothing is queued
\* and nobody is inside put.
LEMMA LimitSetEarly ==
  ASSUME Placed, Once, SetMax, ~changed'
  PROVE  queue = <<>> /\ notFull.waiting = {} /\ ~changed
<1>1. fresh = Task /\ ~changed
  BY DEF SetMax, Placed, TypeOK
<1>2. Elements(queue) = {} /\ Held = {}
  BY <1>1, TaskAssumption DEF Once, Placed, TypeOK, CallsAccounted, Held, Elements, Putting
<1>3. queue \in Seq(Task) /\ Len(queue) \in Nat
  BY DEF Placed, TypeOK
<1>4. \A i \in 1..Len(queue) : queue[i] \in Elements(queue)
  BY DEF Elements
<1>5. queue = <<>>
  BY <1>2, <1>3, <1>4
<1>6. Putting = {}
  BY <1>2 DEF Held
<1> QED
  BY <1>1, <1>5, <1>6 DEF Placed, CallsAccounted

\* The queue grows only by a put that found room, or when there is no limit.
LEMMA NextLimit == Placed /\ Once /\ WithinLimit /\ [Next]_vars => WithinLimit'
<1> SUFFICES ASSUME Placed, Once, WithinLimit, [Next]_vars, ~changed', maxQueueSize' > 0
             PROVE  Len(queue') <= maxQueueSize'
  BY DEF WithinLimit
<1>1. /\ queue \in Seq(Task) /\ Len(queue) \in Nat /\ maxQueueSize \in Int
      /\ changed \in BOOLEAN
  BY SizeAssumption DEF Placed, TypeOK
<1>2. CASE UNCHANGED <<queue, limitVars>>
  BY <1>2 DEF WithinLimit, limitVars
<1>3. CASE SetMax
  BY <1>1, <1>3, LimitSetEarly, SizeAssumption DEF SetMax, SetMaxQueueSize
<1>4. ASSUME NEW w \in Worker, TakeFunc(w) PROVE Len(queue') <= maxQueueSize'
  <2>1. UNCHANGED limitVars
    BY <1>4 DEF TakeFunc, Take, ResumeTake
  <2>2. queue = <<>> => queue' = queue
    BY <1>4 DEF TakeFunc, Take, ResumeTake
  <2>3. queue # <<>> => Len(queue') = Len(queue) - 1
    BY <1>1, <1>4, TailElements DEF TakeFunc, Take, ResumeTake, Pop
  <2> QED
    BY <1>1, <1>2, <2>1, <2>2, <2>3 DEF WithinLimit, limitVars
<1>5. ASSUME NEW t \in Thread, PutFunc(t) PROVE Len(queue') <= maxQueueSize'
  BY <1>2, <1>5 DEF PutFunc, EnterPut, limitVars
<1>6. ASSUME NEW t \in Thread, GoOn(t) PROVE Len(queue') <= maxQueueSize'
  <2>1. CASE TestFull(t) /\ ~Full
    <3>1. UNCHANGED limitVars /\ ~(maxQueueSize >= 0 /\ Len(queue) >= maxQueueSize)
      BY <2>1 DEF TestFull, Full
    <3>2. queue' = Append(queue, arg[t]) /\ arg[t] \in Task
      BY <2>1, TaskAssumption, ThreadAssumption
      DEF TestFull, Push, Placed, TypeOK, CallsAccounted, Putting
    <3>3. Len(queue') = Len(queue) + 1
      BY <1>1, <3>2, AppendElements
    <3> QED
      BY <1>1, <3>1, <3>3 DEF limitVars
  <2> QED
    BY <1>2, <1>6, <2>1 DEF GoOn, TestFull, ResumePut
<1> QED
  BY <1>2, <1>3, <1>4, <1>5, <1>6
  DEF Next, StartWorker, StartFails, Created, WorkerStep, EnterRunFunc, FuncReturns,
      SpuriousWakeup, vars, queueVars

\* BlockingQueue.h:34: a limit that was set before the first put is kept,
\* whatever producers put at the same time.
THEOREM LimitKept == Spec => []WithinLimit
<1>1. Init => WithinLimit
  BY DEF Init, QueueInit, WithinLimit
<1> QED
  BY <1>1, InitPlaced, NextPlaced, InitOnce, NextOnce, NextLimit, PTL DEF Spec

\* A producer goes to sleep only when there is no place, and each take that
\* makes one wakes somebody for it.
LEMMA NextProducer == Placed /\ Once /\ NoForgottenProducer /\ [Next]_vars => NoForgottenProducer'
<1> SUFFICES ASSUME Placed, Once, NoForgottenProducer, [Next]_vars, ~changed', notFull'.waiting # {}
             PROVE  maxQueueSize' - Len(queue') <= Cardinality(Awake')
  BY DEF NoForgottenProducer, Awake
<1> DEFINE Goal == maxQueueSize' - Len(queue') <= Cardinality(Awake')
<1>1. /\ queue \in Seq(Task) /\ Len(queue) \in Nat /\ maxQueueSize \in Int
      /\ changed \in BOOLEAN /\ notFull \in ConditionOf(Thread) /\ mutex \in Thread \cup {NoThread}
  BY SizeAssumption DEF Placed, TypeOK
<1>2. Placed' /\ IsFiniteSet(Awake') /\ Cardinality(Awake') \in Nat
  <2>1. Placed'
    BY NextPlaced
  <2>2. Awake' \subseteq Thread
    BY <2>1 DEF Awake, Placed, TypeOK, ConditionOf
  <2> QED
    BY <2>1, <2>2, WorkerAssumption, FS_Subset, FS_CardinalityType
<1>3. Cardinality(Awake) \in Nat /\ (Awake \subseteq Awake' => Cardinality(Awake) <= Cardinality(Awake'))
  BY <1>2, AwakeCounts
<1>4. ~changed /\ notFull.waiting # {} => maxQueueSize - Len(queue) <= Cardinality(Awake)
  BY DEF NoForgottenProducer, Awake
<1> USE WorkerAssumption, ThreadAssumption, TaskAssumption
<1>5. CASE UNCHANGED <<queue, notFull, limitVars>> /\ Awake \subseteq Awake'
  BY <1>1, <1>2, <1>3, <1>4, <1>5 DEF limitVars
<1>6. CASE SetMax
  BY <1>6, LimitSetEarly DEF SetMax, SetMaxQueueSize
<1>7. ASSUME NEW w \in Worker, TakeFunc(w) PROVE Goal
  <2>1. UNCHANGED <<mutex, limitVars>>
    BY <1>7 DEF TakeFunc, Take, ResumeTake
  <2>2. CASE queue = <<>>
    BY <1>5, <1>7, <2>1, <2>2 DEF TakeFunc, Take, ResumeTake, Awake
  <2>3. CASE queue # <<>>
    <3>1. Len(queue') = Len(queue) - 1 /\ Len(queue) > 0
      BY <1>1, <1>7, <2>3, TailElements DEF TakeFunc, Take, ResumeTake, Pop
    <3>2. CASE maxQueueSize = 0
      BY <1>1, <1>2, <2>1, <3>1, <3>2 DEF limitVars
    <3>3. CASE maxQueueSize # 0
      <4>1. notFull' \in Notify(notFull)
        BY <1>7, <2>3, <3>3 DEF TakeFunc, Take, ResumeTake, Pop
      <4>2. notFull.waiting # {}
        BY <4>1 DEF Notify, Wake
      <4>3. PICK u \in notFull.waiting : notFull' = Wake(notFull, u)
        BY <4>1, <4>2 DEF Notify
      <4>4. Awake' = Awake \cup {u}
        BY <2>1, <4>3 DEF Awake, Wake
      <4>5. u \in Thread \ Awake
        BY <1>1 DEF Awake, Placed, CallsAccounted, ConditionOf
      <4>6. Cardinality(Awake') = Cardinality(Awake) + 1
        BY <4>4, <4>5, AwakeCounts
      <4> QED
        BY <1>1, <1>3, <1>4, <2>1, <3>1, <4>2, <4>6 DEF limitVars
    <3> QED
      BY <3>2, <3>3
  <2> QED
    BY <2>2, <2>3
<1>8. ASSUME NEW t \in Thread, PutFunc(t) PROVE Goal
  <2> DEFINE x == CHOOSE y \in fresh : TRUE
  <2>1. x \in Task /\ EnterPut(t, x)
    BY <1>8 DEF PutFunc, Placed, TypeOK
  <2> HIDE DEF x
  <2>2. CASE maxQueueSize = 0
    <3>1. Len(queue') = Len(queue) + 1 /\ maxQueueSize' = 0
      BY <1>1, <2>1, <2>2, AppendElements DEF EnterPut, Push, limitVars
    <3> QED
      BY <1>1, <1>2, <3>1
  <2>3. CASE maxQueueSize # 0
    BY <1>5, <2>1, <2>3 DEF EnterPut, Awake
  <2> QED
    BY <2>2, <2>3
<1>9. ASSUME NEW t \in Thread, GoOn(t) PROVE Goal
  <2>1. CASE TestFull(t) /\ Full
    BY <1>1, <1>2, <2>1 DEF TestFull, Full, limitVars
  <2>2. CASE TestFull(t) /\ ~Full
    <3>1. mutex = t /\ mutex' = NoThread /\ queue' = Append(queue, arg[t]) /\ UNCHANGED <<notFull, limitVars>>
      BY <2>2 DEF TestFull, Push
    <3>2. arg[t] \in Task
      BY <3>1 DEF Placed, TypeOK, CallsAccounted, Putting
    <3>3. Len(queue') = Len(queue) + 1
      BY <1>1, <3>1, <3>2, AppendElements
    <3>4. Awake' = Awake \ {t} /\ t \in Awake
      BY <3>1 DEF Awake, Placed, CallsAccounted
    <3>5. Cardinality(Awake') = Cardinality(Awake) - 1
      BY <3>4, AwakeCounts
    <3> QED
      BY <1>1, <1>3, <1>4, <3>1, <3>3, <3>5 DEF limitVars
  <2>3. CASE ResumePut(t)
    <3>1. Awake' = Awake /\ UNCHANGED <<queue, limitVars>> /\ notFull'.waiting = notFull.waiting
      BY <1>1, <2>3 DEF ResumePut, Awake, Return, ConditionOf
    <3> QED
      BY <1>1, <1>4, <3>1 DEF limitVars
  <2> QED
    BY <1>9, <2>1, <2>2, <2>3 DEF GoOn
<1>10. CASE SpuriousWakeup /\ UNCHANGED poolVars
  <2>1. UNCHANGED <<queue, mutex, limitVars>>
    BY <1>10 DEF SpuriousWakeup
  <2>2. notFull' = notFull \/ \E u \in notFull.waiting : notFull' = Wake(notFull, u)
    BY <1>10 DEF SpuriousWakeup
  <2>3. Awake \subseteq Awake' /\ notFull.waiting # {}
    BY <2>1, <2>2 DEF Awake, Wake
  <2> QED
    BY <1>1, <1>2, <1>3, <1>4, <2>1, <2>3 DEF limitVars
<1>11. CASE UNCHANGED queueVars
  BY <1>5, <1>11 DEF queueVars, Awake
<1> QED
  BY <1>6, <1>7, <1>8, <1>9, <1>10, <1>11
  DEF Next, StartWorker, StartFails, Created, WorkerStep, EnterRunFunc, FuncReturns, vars

\* BlockingQueue.h:34, 59: while a producer sleeps, the free places are all
\* spoken for by producers that are awake, if the limit was set before the
\* first put.
THEOREM ProducersNeverForgotten == Spec => []NoForgottenProducer
<1>1. Init => NoForgottenProducer
  BY DEF Init, QueueInit, NewCondition, NoForgottenProducer
<1> QED
  BY <1>1, InitPlaced, NextPlaced, InitOnce, NextOnce, NextProducer, PTL DEF Spec
=============================================================================
