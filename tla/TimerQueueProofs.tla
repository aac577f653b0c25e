--------------------------- MODULE TimerQueueProofs -------------------------
(***************************************************************************)
(* Theorems about TimerQueue, for any timers, intervals and times.         *)
(***************************************************************************)
EXTENDS TimerQueue, SequenceTheorems, TLAPS

USE IntervalAssumption, BoundAssumption, NoneAssumption
    DEF IntervalAssumption, BoundAssumption, NoneAssumption

Task == {"add", "cancel"} \X Timer
HandedIn(q) == {q[i][2] : i \in {j \in 1..Len(q) : q[j][1] = "add"}}
AddsOnce(q) == \A i, j \in 1..Len(q) : q[i] = q[j] /\ q[i][1] = "add" => i = j

\* A call queued at the end hands over the timer of an "add", and nothing else.
LEMMA HandedAppend ==
  ASSUME NEW q \in Seq(Task), NEW op \in {"add", "cancel"}, NEW t \in Timer, AddsOnce(q),
         op = "add" => t \notin HandedIn(q)
  PROVE  /\ HandedIn(Append(q, <<op, t>>)) = HandedIn(q) \cup (IF op = "add" THEN {t} ELSE {})
         /\ AddsOnce(Append(q, <<op, t>>))
         /\ Append(q, <<op, t>>) \in Seq(Task)
<1> DEFINE x == <<op, t>>
           r == Append(q, x)
<1>1. x \in Task /\ x[1] = op /\ x[2] = t
  BY DEF Task
<1> HIDE DEF x
<1>2. /\ r \in Seq(Task) /\ Len(r) = Len(q) + 1 /\ Len(q) \in Nat
      /\ \A i \in 1..Len(q) : r[i] = q[i]
      /\ r[Len(q) + 1] = x
  BY <1>1, AppendProperties
<1>3. \A i \in 1..Len(q) : q[i] \in Task
  OBVIOUS
<1> HIDE DEF r
<1>4. HandedIn(r) = HandedIn(q) \cup (IF op = "add" THEN {t} ELSE {})
  <2>1. ASSUME NEW u \in HandedIn(r)
        PROVE  u \in HandedIn(q) \cup (IF op = "add" THEN {t} ELSE {})
    <3>1. PICK i \in 1..Len(r) : r[i][1] = "add" /\ r[i][2] = u
      BY DEF HandedIn
    <3> QED
      BY <3>1, <1>1, <1>2 DEF HandedIn
  <2>2. ASSUME NEW u \in HandedIn(q) PROVE u \in HandedIn(r)
    <3>1. PICK i \in 1..Len(q) : q[i][1] = "add" /\ q[i][2] = u
      BY DEF HandedIn
    <3> QED
      BY <3>1, <1>2 DEF HandedIn
  <2>3. op = "add" => t \in HandedIn(r)
    BY <1>1, <1>2 DEF HandedIn
  <2> QED
    BY <2>1, <2>2, <2>3
<1>5. AddsOnce(r)
  <2> SUFFICES ASSUME NEW i \in 1..Len(r), NEW j \in 1..Len(r), r[i] = r[j], r[i][1] = "add", i < j
               PROVE  FALSE
    BY <1>2 DEF AddsOnce
  <2>1. i \in 1..Len(q) /\ r[i] = q[i]
    BY <1>2
  <2>2. CASE j \in 1..Len(q)
    <3>1. r[j] = q[j]
      BY ONLY <2>2, <1>2
    <3>2. q[i] = q[j] /\ q[i][1] = "add"
      BY <3>1, <2>1
    <3>3. i = j
      BY ONLY <3>2, <2>1, <2>2, AddsOnce(q) DEF AddsOnce
    <3> QED
      BY <3>3
  <2>3. CASE j = Len(q) + 1
    BY <2>1, <2>3, <1>1, <1>2 DEF HandedIn
  <2> QED
    BY <2>2, <2>3, <1>2
<1> QED
  BY <1>2, <1>4, <1>5 DEF r, x

\* Taking the first call hands over its timer, if it is an "add", for good.
LEMMA HandedTail ==
  ASSUME NEW q \in Seq(Task), q # <<>>, AddsOnce(q)
  PROVE  /\ HandedIn(Tail(q)) = HandedIn(q) \ (IF Head(q)[1] = "add" THEN {Head(q)[2]} ELSE {})
         /\ Head(q)[1] = "add" => Head(q)[2] \in HandedIn(q)
         /\ AddsOnce(Tail(q))
         /\ Head(q) \in Task
<1> DEFINE r == Tail(q)
<1>1. /\ Len(q) \in Nat \ {0} /\ Len(r) = Len(q) - 1
      /\ \A i \in 1..Len(r) : r[i] = q[i + 1]
      /\ Head(q) = q[1] /\ \A i \in 1..Len(q) : q[i] \in Task
  OBVIOUS
<1> HIDE DEF r
<1>2. \A u, v \in Task : u[1] = v[1] /\ u[2] = v[2] => u = v
  BY DEF Task
<1>3. AddsOnce(r)
  BY <1>1 DEF AddsOnce
<1>4. Head(q)[1] = "add" => Head(q)[2] \in HandedIn(q)
  BY <1>1 DEF HandedIn
<1>5. HandedIn(r) = HandedIn(q) \ (IF Head(q)[1] = "add" THEN {Head(q)[2]} ELSE {})
  <2>1. ASSUME NEW u \in HandedIn(r)
        PROVE  u \in HandedIn(q) /\ ~(Head(q)[1] = "add" /\ Head(q)[2] = u)
    <3>1. PICK i \in 1..Len(r) : r[i][1] = "add" /\ r[i][2] = u
      BY DEF HandedIn
    <3>2. i + 1 \in 1..Len(q) /\ i + 1 # 1 /\ q[i + 1] = r[i]
      BY <1>1
    <3> QED
      BY <3>1, <3>2, <1>1, <1>2 DEF HandedIn, AddsOnce
  <2>2. ASSUME NEW u \in HandedIn(q), ~(Head(q)[1] = "add" /\ Head(q)[2] = u)
        PROVE  u \in HandedIn(r)
    <3>1. PICK i \in 1..Len(q) : q[i][1] = "add" /\ q[i][2] = u
      BY DEF HandedIn
    <3>2. i - 1 \in 1..Len(r) /\ r[i - 1] = q[i]
      BY <3>1, <2>2, <1>1
    <3> QED
      BY <3>1, <3>2 DEF HandedIn
  <2> QED
    BY <2>1, <2>2
<1> QED
  BY <1>1, <1>3, <1>4, <1>5 DEF r
-----------------------------------------------------------------------------
\* The timers of a set of entries, as entries come and go.
TimersOf(S) == {e[2] : e \in S}

LEMMA TimersOfAdd ==
  ASSUME NEW S, NEW a, NEW t PROVE TimersOf(S \cup {<<a, t>>}) = TimersOf(S) \cup {t}
<1> DEFINE x == <<a, t>>
<1>1. x[2] = t
  OBVIOUS
<1> HIDE DEF x
<1>2. TimersOf(S \cup {x}) = TimersOf(S) \cup {t}
  BY <1>1 DEF TimersOf
<1> QED
  BY <1>2 DEF x

LEMMA TimersOfRemove ==
  ASSUME NEW S, NEW T \in SUBSET S, \A e, f \in S : e[2] = f[2] => e = f
  PROVE  TimersOf(S \ T) = TimersOf(S) \ TimersOf(T)
BY DEF TimersOf

\* What cancelling promises while a batch is running: the timer is deleted,
\* or it is in the batch and will not be restarted.
CancelKept == cancelled \subseteq deleted \cup (Batch \cap canceling)

QueueInv == TypeOK /\ SetsAgree /\ EachTimerInOnePlace /\ CancelKept

\* The same, with tasks seen through HandedIn and AddsOnce.
Places(h, a, b, d) ==
  /\ allocated = h \cup a \cup b \cup d
  /\ h \cap (a \cup b \cup d) = {} /\ a \cap (b \cup d) = {} /\ b \cap d = {}

LEMMA PlacesMeaning ==
  EachTimerInOnePlace <=> Places(HandedIn(tasks), active, Batch, deleted) /\ AddsOnce(tasks)
BY DEF EachTimerInOnePlace, Places, HandedIn, Handed, AddsOnce

LEMMA TimesArePositive ==
  ASSUME NEW a \in Nat, NEW n \in Nat PROVE Later(a, IF n < MaxTime THEN n + 1 ELSE n) \in Nat
BY DEF Later

LEMMA AddFromLoopStep ==
  ASSUME QueueInv, NEW t \in Timer, NEW when \in Nat, AddTimerFromLoop(t, when)
  PROVE  QueueInv'
<1> USE DEF QueueInv, AddTimerFromLoop, NewTimer, AddTimerInLoop, batchVars, historyVars
<1>1. t \notin active \cup Batch \cup HandedIn(tasks) \cup deleted
  BY PlacesMeaning DEF Places
<1>2. armed' \in Nat \cup {NoTime}
  <2>1. armed' = armed \/ armed' = Later(when, IF now < MaxTime THEN now + 1 ELSE now)
    BY DEF ArmAt
  <2>2. Later(when, IF now < MaxTime THEN now + 1 ELSE now) \in Nat
    BY TimesArePositive DEF TypeOK
  <2> QED
    BY <2>1, <2>2 DEF TypeOK
<1>3. time' \in [Timer -> Nat] /\ \A u \in Timer \ {t} : time'[u] = time[u]
  BY DEF TypeOK
<1>4. Batch' = Batch /\ HandedIn(tasks') = HandedIn(tasks)
  BY DEF Batch, HandedIn
<1>5. TypeOK'
  BY <1>2, <1>3, <1>4 DEF TypeOK, Entry
<1>6. SetsAgree'
  <2>1. \A e \in timers \cup expired : e \in Entry /\ e[2] # t
    BY <1>1 DEF TypeOK, SetsAgree, Batch
  <2>2. \A e \in timers' \cup expired' : e[1] = time'[e[2]]
    BY <2>1, <1>3 DEF SetsAgree, TypeOK, Entry
  <2>3. active' = TimersOf(timers')
    BY TimersOfAdd DEF SetsAgree, TimersOf
  <2> QED
    BY <2>2, <2>3 DEF SetsAgree, TimersOf
<1>7. EachTimerInOnePlace'
  BY <1>1, <1>4, PlacesMeaning DEF EachTimerInOnePlace, Handed, HandedIn, Places
<1>8. CancelKept'
  BY <1>4 DEF CancelKept
<1> QED
  BY <1>5, <1>6, <1>7, <1>8

LEMMA AddFromThreadStep ==
  ASSUME QueueInv, NEW t \in Timer, NEW when \in Nat, AddTimerFromThread(t, when)
  PROVE  QueueInv'
<1> USE DEF QueueInv, AddTimerFromThread, NewTimer, batchVars, historyVars
<1>1. t \notin active \cup Batch \cup HandedIn(tasks) \cup deleted
  BY PlacesMeaning DEF Places
<1>2. time' \in [Timer -> Nat] /\ \A u \in Timer \ {t} : time'[u] = time[u]
  BY DEF TypeOK
<1>3. /\ HandedIn(tasks') = HandedIn(tasks) \cup {t} /\ AddsOnce(tasks')
      /\ tasks' \in Seq(Task)
  <2>1. tasks \in Seq(Task) /\ AddsOnce(tasks)
    BY PlacesMeaning DEF TypeOK, Task
  <2>2. tasks' = Append(tasks, <<"add", t>>)
    OBVIOUS
  <2> QED
    BY ONLY <1>1, <2>1, <2>2, HandedAppend
<1>4. Batch' = Batch
  BY DEF Batch
<1>5. TypeOK'
  BY <1>2, <1>3, <1>4 DEF TypeOK, Task
<1>6. SetsAgree'
  <2>1. \A e \in timers \cup expired : e \in Entry /\ e[2] # t
    BY <1>1 DEF TypeOK, SetsAgree, Batch
  <2> QED
    BY <2>1, <1>2 DEF SetsAgree, Entry
<1>7. Places(HandedIn(tasks), active, Batch, deleted)
  BY PlacesMeaning
<1>8. EachTimerInOnePlace'
  BY <1>1, <1>3, <1>4, <1>7 DEF EachTimerInOnePlace, Handed, HandedIn, Places, AddsOnce
<1>9. CancelKept'
  BY <1>4 DEF CancelKept
<1> QED
  BY <1>5, <1>6, <1>8, <1>9

LEMMA CancelStep ==
  ASSUME QueueInv, NEW t \in Timer, CancelInLoop(t), NEW q \in Seq(Task),
         tasks' = q, HandedIn(q) = HandedIn(tasks), AddsOnce(q),
         asked' \subseteq Timer,
         UNCHANGED <<now, allocated, time, armed, expired, ran, batchNow, calling, current>>
  PROVE  QueueInv'
<1> USE DEF QueueInv, CancelInLoop
<1>1. Batch' = Batch /\ (Batch # {} => calling)
  BY DEF Batch, TypeOK
<1>2. Places(HandedIn(tasks), active, Batch, deleted)
  BY PlacesMeaning
<1>3. TypeOK'
  BY <1>1 DEF TypeOK, Task, Batch, Entry
<1>4. SetsAgree'
  <2>1. \A e \in timers : e \in Entry /\ (e[2] = t <=> e = <<time[t], t>>)
    BY DEF TypeOK, SetsAgree, Entry
  <2> QED
    BY <2>1 DEF SetsAgree
<1>5. EachTimerInOnePlace'
  <2>1. Handed' = HandedIn(tasks) /\ AddsOnce(tasks')
    BY DEF Handed, HandedIn
  <2>2. \/ active' = active \ {t} /\ t \in active /\ deleted' = deleted \cup {t}
        \/ active' = active /\ deleted' = deleted
    OBVIOUS
  <2>3. /\ allocated' = Handed' \cup active' \cup Batch' \cup deleted'
        /\ Handed' \cap (active' \cup Batch' \cup deleted') = {}
        /\ active' \cap (Batch' \cup deleted') = {} /\ Batch' \cap deleted' = {}
    BY <1>1, <1>2, <2>1, <2>2 DEF Places
  <2> QED
    BY <2>1, <2>3 DEF EachTimerInOnePlace, AddsOnce
<1>6. CancelKept'
  BY <1>1 DEF CancelKept, Batch
<1> QED
  BY <1>3, <1>4, <1>5, <1>6

LEMMA RunTaskStep == QueueInv /\ RunTask => QueueInv'
<1> SUFFICES ASSUME QueueInv, RunTask PROVE QueueInv'
  OBVIOUS
<1> DEFINE op == Head(tasks)[1]
           t == Head(tasks)[2]
           q == Tail(tasks)
<1>1. tasks \in Seq(Task) /\ tasks # <<>> /\ AddsOnce(tasks) /\ tasks' = q
  BY PlacesMeaning DEF QueueInv, TypeOK, Task, RunTask
<1>2. /\ HandedIn(q) = HandedIn(tasks) \ (IF op = "add" THEN {t} ELSE {})
      /\ op = "add" => t \in HandedIn(tasks)
      /\ AddsOnce(q) /\ Head(tasks) \in Task /\ q \in Seq(Task)
  BY ONLY <1>1, HandedTail, HeadTailProperties
<1>3. t \in Timer /\ op \in {"add", "cancel"}
  BY <1>2 DEF Task
<1>4. CASE op = "cancel"
  <2>1. CancelInLoop(t)
    BY <1>4 DEF RunTask
  <2> QED
    BY <1>1, <1>2, <1>3, <1>4, <2>1, CancelStep DEF RunTask, QueueInv, TypeOK
<1>5. CASE op = "add"
  <2>1. /\ AddTimerInLoop(t, time[t])
        /\ UNCHANGED <<deleted, canceling, cancelled, now, allocated, time, asked,
                       expired, ran, batchNow, calling, current>>
    BY <1>5 DEF RunTask
  <2> HIDE DEF op, t, q
  <2> USE DEF QueueInv, AddTimerInLoop
  <2>2. time[t] \in Nat /\ t \notin active \cup Batch \cup deleted
    BY <1>2, <1>3, <1>5, PlacesMeaning DEF Places, TypeOK
  <2>3. armed' \in Nat \cup {NoTime}
    <3>1. Later(time[t], IF now < MaxTime THEN now + 1 ELSE now) \in Nat
      BY <2>2, TimesArePositive DEF TypeOK
    <3>2. armed \in Nat \cup {NoTime}
      BY DEF TypeOK
    <3> QED
      BY <2>1, <3>1, <3>2 DEF ArmAt
  <2>4. Batch' = Batch /\ Handed' = HandedIn(tasks) \ {t} /\ t \in HandedIn(tasks)
    BY <1>1, <1>2, <1>5, <2>1 DEF Batch, Handed, HandedIn
  <2>5. TypeOK'
    BY <1>1, <1>2, <1>3, <2>1, <2>2, <2>3, <2>4 DEF TypeOK, Entry, Task
  <2>6. SetsAgree'
    <3>1. timers' = timers \cup {<<time[t], t>>} /\ active' = active \cup {t}
      BY <2>1
    <3>2. active' = TimersOf(timers')
      BY <3>1, TimersOfAdd DEF SetsAgree, TimersOf
    <3>3. \A e \in timers' : e \in timers \/ (e[1] = time[t] /\ e[2] = t)
      BY <3>1
    <3> QED
      BY <2>1, <3>2, <3>3 DEF SetsAgree, TimersOf
  <2>7. EachTimerInOnePlace'
    <3>1. Places(HandedIn(tasks), active, Batch, deleted)
      BY PlacesMeaning
    <3>2. /\ allocated' = Handed' \cup active' \cup Batch' \cup deleted'
          /\ Handed' \cap (active' \cup Batch' \cup deleted') = {}
          /\ active' \cap (Batch' \cup deleted') = {} /\ Batch' \cap deleted' = {}
      BY <2>1, <2>2, <2>4, <3>1 DEF Places
    <3> QED
      BY <1>1, <1>2, <3>2 DEF EachTimerInOnePlace, AddsOnce
  <2>8. CancelKept'
    BY <2>1, <2>4 DEF CancelKept
  <2> QED
    BY <2>5, <2>6, <2>7, <2>8
<1> QED
  BY <1>3, <1>4, <1>5

LEMMA HandleReadStep == QueueInv /\ HandleRead => QueueInv'
<1> SUFFICES ASSUME QueueInv, HandleRead PROVE QueueInv'
  OBVIOUS
<1> USE DEF QueueInv, HandleRead, heapVars, historyVars
<1>1. Batch = {} /\ cancelled \subseteq deleted
  BY DEF Batch, TypeOK, CancelKept
<1>2. \A e \in timers : e \in Entry /\ e[1] = time[e[2]]
  BY DEF TypeOK, SetsAgree
<1>3. /\ Batch' = {e[2] : e \in expired'} /\ expired' \subseteq timers /\ timers' = timers \ expired'
      /\ active' = active \ Batch' /\ Batch' \subseteq active
  BY DEF Batch, SetsAgree
<1>4. TypeOK'
  BY <1>2, <1>3 DEF TypeOK, Due
<1>5. \A e \in timers, f \in timers : e[2] = f[2] => e = f
  BY <1>2 DEF Entry
<1>6. SetsAgree'
  <2>1. active' = TimersOf(timers')
    BY <1>3, <1>5, TimersOfRemove DEF SetsAgree, TimersOf
  <2> QED
    BY <1>2, <1>3, <2>1 DEF SetsAgree, TimersOf
<1>7. Handed' = HandedIn(tasks) /\ AddsOnce(tasks') /\ Places(HandedIn(tasks), active, Batch, deleted)
  BY PlacesMeaning DEF Handed, HandedIn, AddsOnce
<1>8. EachTimerInOnePlace'
  <2>1. /\ allocated' = Handed' \cup active' \cup Batch' \cup deleted'
        /\ Handed' \cap (active' \cup Batch' \cup deleted') = {}
        /\ active' \cap (Batch' \cup deleted') = {} /\ Batch' \cap deleted' = {}
    BY <1>1, <1>3, <1>7 DEF Places
  <2> QED
    BY <2>1, <1>7 DEF EachTimerInOnePlace, AddsOnce
<1>9. CancelKept'
  BY <1>1 DEF CancelKept
<1> QED
  BY <1>4, <1>6, <1>8, <1>9

LEMMA ResetStep == QueueInv /\ Reset => QueueInv'
<1> SUFFICES ASSUME QueueInv, Reset PROVE QueueInv'
  OBVIOUS
<1> USE DEF QueueInv, Reset, historyVars
<1> DEFINE back == {<<batchNow + Interval[t], t>> : t \in Restarted}
<1>1. Restarted \subseteq Batch /\ Restarted \subseteq Repeat /\ Batch \subseteq Timer /\ batchNow \in Nat
  BY DEF Restarted, Batch, TypeOK, Entry
<1>2. \A t \in Restarted : batchNow + Interval[t] \in Nat
  BY <1>1
<1>3. /\ time' \in [Timer -> Nat]
      /\ \A t \in Restarted : time'[t] = batchNow + Interval[t]
      /\ \A t \in Timer \ Restarted : time'[t] = time[t]
  BY <1>1, <1>2 DEF TypeOK
<1>4. Batch' = {}
  BY DEF Batch
<1>5. \A e \in back : e \in Entry /\ e[2] \in Restarted /\ e[1] = batchNow + Interval[e[2]]
  BY <1>1, <1>2 DEF Entry
<1>6. TimersOf(back) = Restarted
  <2>1. \A t \in Restarted : <<batchNow + Interval[t], t>> \in back /\ <<batchNow + Interval[t], t>>[2] = t
    OBVIOUS
  <2> HIDE DEF back
  <2> QED
    BY <2>1, <1>5 DEF TimersOf
<1>7. timers' = timers \cup back /\ active' = active \cup Restarted
      /\ deleted' = deleted \cup (Batch \ Restarted)
  OBVIOUS
<1> HIDE DEF back
<1>8. timers' \subseteq Entry
  BY <1>5, <1>7 DEF TypeOK
<1>9. armed' \in Nat \cup {NoTime}
  <2>1. \A e \in timers' : Later(e[1], IF now < MaxTime THEN now + 1 ELSE now) \in Nat
    BY <1>8, TimesArePositive DEF TypeOK, Entry
  <2> QED
    BY <2>1 DEF TypeOK, Rearm, ArmAt
<1>10. TypeOK'
  BY <1>1, <1>3, <1>4, <1>7, <1>8, <1>9 DEF TypeOK
<1>11. SetsAgree'
  <2>1. active' = TimersOf(timers')
    BY <1>6, <1>7 DEF SetsAgree, TimersOf
  <2>2. \A e \in timers : e \in Entry /\ e[2] \in Timer \ Restarted /\ e[1] = time[e[2]]
    <3>1. active \cap Restarted = {}
      BY <1>1 DEF EachTimerInOnePlace
    <3> QED
      BY <3>1 DEF SetsAgree, TypeOK, Entry
  <2>3. \A e \in timers' : e[1] = time'[e[2]]
    BY <2>2, <1>3, <1>5, <1>7
  <2> QED
    BY <2>1, <2>3 DEF SetsAgree, TimersOf
<1>12. EachTimerInOnePlace'
  <2>1. Handed' = HandedIn(tasks) /\ AddsOnce(tasks') /\ Places(HandedIn(tasks), active, Batch, deleted)
    BY PlacesMeaning DEF Handed, HandedIn, AddsOnce
  <2>2. /\ allocated' = Handed' \cup active' \cup Batch' \cup deleted'
        /\ Handed' \cap (active' \cup Batch' \cup deleted') = {}
        /\ active' \cap (Batch' \cup deleted') = {} /\ Batch' \cap deleted' = {}
    BY <1>1, <1>4, <1>7, <2>1 DEF Places
  <2> QED
    BY <2>1, <2>2 DEF EachTimerInOnePlace, AddsOnce
<1>13. CancelKept'
  BY <1>4, <1>7 DEF CancelKept, Restarted
<1> QED
  BY <1>10, <1>11, <1>12, <1>13

LEMMA QueueStep == QueueInv /\ [Next]_vars => QueueInv'
<1> SUFFICES ASSUME QueueInv, [Next]_vars PROVE QueueInv'
  OBVIOUS
<1>1. CASE UNCHANGED <<heapVars, setVars, armed, tasks, expired, calling, canceling, cancelled>>
           /\ now' \in Nat /\ batchNow' \in Nat /\ ran' \subseteq Batch
           /\ asked' \subseteq Timer /\ current' \in ran' \cup {NoTimer} /\ (~calling => current' = NoTimer)
  <2>1. Batch' = Batch /\ Handed' = Handed
    BY <1>1 DEF Batch, Handed
  <2>2. TypeOK'
    BY <1>1, <2>1 DEF QueueInv, TypeOK, heapVars, setVars
  <2>3. SetsAgree' /\ EachTimerInOnePlace' /\ CancelKept'
    BY <1>1, <2>1 DEF QueueInv, SetsAgree, EachTimerInOnePlace, CancelKept, heapVars, setVars
  <2> QED
    BY <2>2, <2>3 DEF QueueInv
<1>2. ASSUME NEW t \in Timer, RunTimer(t) PROVE QueueInv'
  <2>1. t \in Batch /\ calling
    BY <1>2 DEF RunTimer, Batch
  <2> QED
    BY <1>1, <1>2, <2>1 DEF RunTimer, QueueInv, TypeOK, historyVars
<1>3. CASE EndCallback
  BY <1>1, <1>3 DEF EndCallback, QueueInv, TypeOK, historyVars
<1>4. CASE Tick
  BY <1>1, <1>4 DEF Tick, QueueInv, TypeOK, historyVars, batchVars
<1>5. ASSUME NEW t \in Timer, CancelFromLoop(t) PROVE QueueInv'
  <2>1. tasks \in Seq(Task) /\ AddsOnce(tasks)
    BY PlacesMeaning DEF QueueInv, TypeOK, Task
  <2>2. tasks' = tasks /\ asked' \subseteq Timer
    BY <1>5 DEF CancelFromLoop, MayCancel, QueueInv, TypeOK
  <2> QED
    BY <1>5, <2>1, <2>2, CancelStep DEF CancelFromLoop
<1>6. ASSUME NEW t \in Timer, CancelFromThread(t) PROVE QueueInv'
  <2> USE DEF CancelFromThread, MayCancel
  <2>1. tasks \in Seq(Task) /\ AddsOnce(tasks) /\ tasks' = Append(tasks, <<"cancel", t>>)
    BY <1>6, PlacesMeaning DEF QueueInv, TypeOK, Task
  <2>2. HandedIn(tasks') = HandedIn(tasks) /\ AddsOnce(tasks') /\ tasks' \in Seq(Task)
    BY ONLY <2>1, HandedAppend
  <2>3. TypeOK' /\ Handed' = Handed
    BY <1>6, <2>2 DEF QueueInv, TypeOK, Task, Batch, Handed, HandedIn, heapVars, setVars, batchVars
  <2> QED
    BY <1>6, <2>2, <2>3
       DEF QueueInv, SetsAgree, EachTimerInOnePlace, CancelKept, Batch, AddsOnce, heapVars, setVars, batchVars
<1>7. CASE UNCHANGED vars
  BY <1>1, <1>7 DEF vars, QueueInv, TypeOK, historyVars, batchVars
<1>8. 0..Horizon \subseteq Nat
  OBVIOUS
<1> QED
  BY <1>2, <1>3, <1>4, <1>5, <1>6, <1>7, <1>8, AddFromLoopStep, AddFromThreadStep, RunTaskStep,
     HandleReadStep, ResetStep DEF Next, LoopStep, Calls

LEMMA QueueInit == Init => QueueInv
<1> SUFFICES ASSUME Init PROVE QueueInv
  OBVIOUS
<1>1. Batch = {} /\ Handed = {}
  BY DEF Init, Batch, Handed
<1>2. time \in [Timer -> Nat] /\ tasks \in Seq({"add", "cancel"} \X Timer)
  BY DEF Init
<1>3. TypeOK
  BY <1>1, <1>2 DEF Init, TypeOK, Entry
<1>4. SetsAgree /\ EachTimerInOnePlace /\ CancelKept
  BY <1>1 DEF Init, SetsAgree, EachTimerInOnePlace, CancelKept
<1> QED
  BY <1>3, <1>4 DEF QueueInv

LEMMA QueueInvariant == Spec => []QueueInv
BY QueueInit, QueueStep, PTL DEF Spec

\* The state stays within its types, for any timers and times.
THEOREM TypeCorrect == Spec => []TypeOK
BY QueueInvariant, PTL DEF QueueInv

\* timers_ and activeTimers_ never disagree.
THEOREM SetsAlwaysAgree == Spec => []SetsAgree
BY QueueInvariant, PTL DEF QueueInv

\* No timer is followed after its delete, deleted twice, or leaked.
THEOREM TimersAreNeverLost == Spec => []EachTimerInOnePlace
BY QueueInvariant, PTL DEF QueueInv

\* A cancelled timer is never queued again, and is deleted when no batch runs.
THEOREM CancelIsFinal == Spec => []CancelledStaysOut
<1>1. QueueInv => CancelledStaysOut
  BY DEF QueueInv, CancelKept, CancelledStaysOut, EachTimerInOnePlace, TypeOK, Batch
<1> QED
  BY <1>1, QueueInvariant, PTL
-----------------------------------------------------------------------------
\* While a batch runs the timerfd may be unarmed, but not for a timer whose
\* time is not valid(): reset would not arm it for that one.
InvalidTimeArmed == \A e \in timers : e[1] = 0 => armed # NoTime /\ armed <= now + 1

ArmInv == /\ now >= 1 /\ (calling => batchNow >= 1)
          /\ InvalidTimeArmed /\ ArmedForEarliest

LEMMA ArmStep == QueueInv /\ ArmInv /\ [Next]_vars => ArmInv'
<1> SUFFICES ASSUME QueueInv, ArmInv, [Next]_vars PROVE ArmInv'
  OBVIOUS
<1>1. /\ now \in Nat /\ batchNow \in Nat /\ armed \in Nat \cup {NoTime}
      /\ \A e \in timers : e[1] \in Nat
      /\ NoTime \notin Nat /\ MaxTime \in Nat
  BY DEF QueueInv, TypeOK, Entry
<1>2. ASSUME NEW t \in Timer, NEW when \in Nat, AddTimerInLoop(t, when),
             UNCHANGED <<now, batchNow, calling>>
      PROVE  ArmInv'
  <2>1. \A e \in timers' : e \in timers \/ e[1] = when
    BY <1>2 DEF AddTimerInLoop
  <2>2. CASE \A e \in timers : when < e[1]
    <3>1. /\ armed' = Later(when, IF now < MaxTime THEN now + 1 ELSE now)
          /\ \A e \in timers' : e[1] \in Nat /\ when <= e[1]
      BY <1>1, <1>2, <2>1, <2>2 DEF AddTimerInLoop, ArmAt
    <3> QED
      BY <1>1, <1>2, <3>1 DEF ArmInv, InvalidTimeArmed, ArmedForEarliest, Later
  <2>3. CASE ~ \A e \in timers : when < e[1]
    <3>1. armed' = armed /\ \E f \in timers : f[1] \in Nat /\ f[1] <= when
      BY <1>1, <1>2, <2>3 DEF AddTimerInLoop
    <3> QED
      BY <1>1, <1>2, <2>1, <3>1 DEF ArmInv, InvalidTimeArmed, ArmedForEarliest, Later
  <2> QED
    BY <2>2, <2>3
<1>3. ASSUME timers' \subseteq timers, UNCHANGED <<now, armed, batchNow, calling>>
      PROVE  ArmInv'
  BY <1>3 DEF ArmInv, InvalidTimeArmed, ArmedForEarliest
<1>4. CASE HandleRead
  <2>1. \A e \in timers' : e \in timers /\ ~(e[1] <= now)
    BY <1>4 DEF HandleRead, Due
  <2> QED
    BY <1>1, <1>4, <2>1 DEF HandleRead, ArmInv, InvalidTimeArmed, ArmedForEarliest
<1>5. CASE Reset
  <2>1. \A t \in Restarted : batchNow + Interval[t] \in Nat \ {0}
    BY <1>1, <1>5 DEF Restarted, ArmInv, Reset
  <2>2. \A e \in timers' : e[1] \in Nat /\ (e \in timers \/ e[1] # 0)
    BY <1>1, <1>5, <2>1 DEF Reset
  <2>3. Rearm /\ now' = now /\ calling' = FALSE
    BY <1>5 DEF Reset
  <2>4. CASE timers' = {}
    BY <2>3, <2>4 DEF ArmInv, InvalidTimeArmed, ArmedForEarliest
  <2>5. CASE timers' # {}
    <3>1. PICK e \in timers' : /\ \A f \in timers' : e[1] <= f[1]
                               /\ IF e[1] > 0 THEN ArmAt(e[1]) ELSE UNCHANGED armed
      BY <2>3, <2>5 DEF Rearm
    <3>2. CASE e[1] > 0
      <4>1. armed' = Later(e[1], IF now < MaxTime THEN now + 1 ELSE now)
        BY <3>1, <3>2 DEF ArmAt
      <4>2. \A f \in timers' : f[1] \in Nat /\ e[1] \in Nat /\ e[1] <= f[1] /\ f[1] # 0
        BY <2>2, <3>1, <3>2
      <4> QED
        BY <1>1, <2>3, <4>1, <4>2 DEF ArmInv, InvalidTimeArmed, ArmedForEarliest, Later
    <3>3. CASE ~(e[1] > 0)
      <4>1. e \in timers /\ e[1] = 0 /\ armed' = armed
        BY <2>2, <3>1, <3>3
      <4>2. armed' \in Nat /\ armed' <= now + 1
        BY <1>1, <4>1 DEF ArmInv, InvalidTimeArmed
      <4> QED
        BY <1>1, <2>2, <2>3, <4>2 DEF ArmInv, InvalidTimeArmed, ArmedForEarliest, Later
    <3> QED
      BY <3>2, <3>3
  <2> QED
    BY <2>4, <2>5
<1>6. CASE Tick
  BY <1>1, <1>6 DEF Tick, setVars, batchVars, ArmInv, InvalidTimeArmed, ArmedForEarliest, Later
<1>7. ASSUME NEW t \in Timer, NEW when \in 0..Horizon, AddTimerFromLoop(t, when) PROVE ArmInv'
  BY <1>2, <1>7 DEF AddTimerFromLoop, batchVars
<1>8. ASSUME NEW t \in Timer, NEW when \in 0..Horizon, AddTimerFromThread(t, when) PROVE ArmInv'
  BY <1>3, <1>8 DEF AddTimerFromThread, batchVars
<1>9. ASSUME NEW t \in Timer, CancelFromLoop(t) \/ CancelFromThread(t) PROVE ArmInv'
  BY <1>3, <1>9 DEF CancelFromLoop, CancelFromThread, CancelInLoop, batchVars, setVars
<1>10. CASE RunTask
  <2> DEFINE t == Head(tasks)[2]
  <2>1. t \in Timer /\ time[t] \in Nat
    <3>1. tasks \in Seq(Task) /\ tasks # <<>>
      BY <1>10 DEF RunTask, QueueInv, TypeOK, Task
    <3>2. Head(tasks) \in Task
      BY ONLY <3>1, HeadTailProperties
    <3> QED
      BY <3>2 DEF Task, QueueInv, TypeOK
  <2>2. CASE AddTimerInLoop(t, time[t])
    BY <1>2, <1>10, <2>1, <2>2 DEF RunTask
  <2>3. CASE CancelInLoop(t) /\ UNCHANGED armed
    BY <1>3, <1>10, <2>3 DEF RunTask, CancelInLoop
  <2> QED
    BY <1>10, <2>2, <2>3 DEF RunTask
<1>11. CASE EndCallback \/ (\E t \in Timer : RunTimer(t)) \/ UNCHANGED vars
  BY <1>3, <1>11 DEF EndCallback, RunTimer, vars, setVars, batchVars
<1> QED
  BY <1>4, <1>5, <1>6, <1>7, <1>8, <1>9, <1>10, <1>11 DEF Next, LoopStep, Calls

\* Outside a batch the timerfd wakes the loop no later than the earliest
\* timer, or at the next instant when that timer is overdue.
THEOREM TimerfdIsArmed == Spec => []ArmedForEarliest
<1>1. Init => ArmInv
  BY DEF Init, ArmInv, InvalidTimeArmed, ArmedForEarliest
<1>2. ArmInv => ArmedForEarliest
  BY DEF ArmInv
<1> QED
  BY <1>1, <1>2, ArmStep, QueueInvariant, PTL DEF Spec
-----------------------------------------------------------------------------
(***************************************************************************)
(* The refinement of TimerService.                                         *)
(***************************************************************************)

\* A batch is of timers that were due at its beginning, and those of them that
\* reset will not restart are the ones cancelled.
BatchInv == /\ batchNow \in 0..now
            /\ \A e \in expired : e[1] <= batchNow
            /\ Batch \cap canceling = Batch \cap cancelled

LEMMA CancelInBatch ==
  ASSUME QueueInv, BatchInv, NEW t \in Timer, CancelInLoop(t),
         UNCHANGED <<now, expired, batchNow>>
  PROVE  BatchInv'
<1>1. Batch' = Batch /\ (Batch # {} => calling) /\ Batch \cap active = {}
  BY DEF Batch, QueueInv, TypeOK, EachTimerInOnePlace
<1>2. Batch' \cap canceling' = Batch' \cap cancelled'
  BY <1>1 DEF BatchInv, CancelInLoop, Batch
<1> QED
  BY <1>2 DEF BatchInv

LEMMA BatchStep == QueueInv /\ BatchInv /\ [Next]_vars => BatchInv'
<1> SUFFICES ASSUME QueueInv, BatchInv, [Next]_vars PROVE BatchInv'
  OBVIOUS
<1>1. CASE UNCHANGED <<expired, batchNow, canceling, cancelled>> /\ now' \in Nat /\ now' >= now
  BY <1>1 DEF BatchInv, Batch, QueueInv, TypeOK
<1>2. CASE HandleRead
  <2>1. Batch' \subseteq active
    BY <1>2 DEF HandleRead, Batch, QueueInv, SetsAgree
  <2>2. Batch' \cap cancelled' = {} /\ canceling' = {}
    BY <1>2, <2>1 DEF HandleRead, historyVars, QueueInv, CancelKept, EachTimerInOnePlace, TypeOK, Batch
  <2> QED
    BY <1>2, <2>2 DEF HandleRead, BatchInv, Due, QueueInv, TypeOK
<1>3. CASE Reset
  BY <1>3 DEF Reset, BatchInv, Batch
<1>4. ASSUME NEW t \in Timer, CancelFromLoop(t) PROVE BatchInv'
  BY <1>4, CancelInBatch DEF CancelFromLoop
<1>5. CASE RunTask
  <2>1. Batch = {} /\ Batch' = {} /\ UNCHANGED <<now, expired, batchNow>>
    BY <1>5 DEF RunTask, Batch, QueueInv, TypeOK
  <2> QED
    BY <2>1 DEF BatchInv
<1>6. now \in Nat
  BY DEF QueueInv, TypeOK
<1> QED
  BY <1>1, <1>2, <1>3, <1>4, <1>5, <1>6
     DEF Next, LoopStep, Calls, RunTimer, EndCallback, Tick, AddTimerFromLoop, AddTimerFromThread,
         CancelFromThread, vars, batchVars, historyVars

\* addTimer sets a timer, whichever thread calls it.
LEMMA AddIsSet ==
  ASSUME QueueInv, NEW t \in Timer, NEW when \in 0..Horizon,
         AddTimerFromLoop(t, when) \/ AddTimerFromThread(t, when)
  PROVE  Service!Set(t, when)
<1>1. Places(HandedIn(tasks), active, Batch, deleted) /\ AddsOnce(tasks)
  BY PlacesMeaning DEF QueueInv
<1>2. t \notin HandedIn(tasks) \cup active \cup Batch \cup deleted
  BY <1>1 DEF Places, AddTimerFromLoop, AddTimerFromThread, NewTimer
<1>3. Waiting' = Waiting \cup {t}
  <2>1. CASE AddTimerFromLoop(t, when)
    <3>1. Handed' = Handed /\ Batch' = Batch /\ ran' = ran /\ active' = active \cup {t}
      BY <2>1 DEF AddTimerFromLoop, AddTimerInLoop, batchVars, Handed, Batch
    <3> QED
      BY <3>1 DEF Waiting
  <2>2. CASE AddTimerFromThread(t, when)
    <3>1. tasks' = Append(tasks, <<"add", t>>) /\ Batch' = Batch /\ ran' = ran /\ active' = active
      BY <2>2 DEF AddTimerFromThread, batchVars, Batch
    <3>2. HandedIn(tasks') = HandedIn(tasks) \cup {t}
      <4>1. tasks \in Seq(Task)
        BY DEF QueueInv, TypeOK, Task
      <4> QED
        BY ONLY <1>1, <1>2, <3>1, <4>1, HandedAppend
    <3> QED
      BY <3>1, <3>2 DEF Waiting, Handed, HandedIn
  <2> QED
    BY <2>1, <2>2
<1>4. t \notin Waiting \cup ran \cup deleted
  BY <1>2 DEF Waiting, Handed, HandedIn, QueueInv, TypeOK
<1> QED
  BY <1>3, <1>4
     DEF Service!Set, AddTimerFromLoop, AddTimerFromThread, NewTimer, batchVars, historyVars

\* cancelInLoop cancels a timer that waits, one of the running batch, or
\* nothing.
LEMMA CancelIsCancel ==
  ASSUME QueueInv, BatchInv, NEW t \in Timer, CancelInLoop(t),
         UNCHANGED <<now, time, expired, ran>>, Handed' = Handed
  PROVE  Service!CancelWaiting(t) \/ Service!CancelDue(t) \/ UNCHANGED Service!vars
<1>1. Batch' = Batch /\ ran \subseteq Batch
  BY DEF Batch, QueueInv, TypeOK
<1>2. /\ Handed \cap (active \cup Batch \cup deleted) = {}
      /\ active \cap (Batch \cup deleted) = {}
  BY DEF QueueInv, EachTimerInOnePlace
<1>3. CASE t \in active
  <2>1. t \in Waiting /\ Waiting' = Waiting \ {t}
    BY <1>1, <1>2, <1>3 DEF CancelInLoop, Waiting
  <2> QED
    BY <1>1, <1>3, <2>1 DEF CancelInLoop, Service!CancelWaiting
<1>4. CASE t \notin active
  <2>1. Waiting' = Waiting
    BY <1>1, <1>4 DEF CancelInLoop, Waiting
  <2>2. CASE t \in Batch
    <3>1. time[t] <= now /\ t \in Waiting \cup ran
      BY <2>2 DEF Batch, Waiting, QueueInv, TypeOK, Entry, SetsAgree, BatchInv
    <3> QED
      BY <1>4, <2>1, <2>2, <3>1 DEF CancelInLoop, Service!CancelDue, Batch
  <2>3. CASE t \notin Batch
    BY <1>4, <2>1, <2>3 DEF CancelInLoop, Service!vars, Batch
  <2> QED
    BY <2>2, <2>3
<1> QED
  BY <1>3, <1>4

\* A callback of the batch is a call of a timer whose time has come.
LEMMA RunIsCall ==
  ASSUME QueueInv, BatchInv, NEW t \in Timer, RunTimer(t)
  PROVE  Service!Call(t)
<1>1. PICK e \in expired : e[2] = t /\ t \notin ran
  BY DEF RunTimer
<1>2. time[t] <= now /\ t \in Batch \ ran
  BY <1>1 DEF Batch, QueueInv, TypeOK, Entry, SetsAgree, BatchInv
<1>3. t \notin Handed \cup active
  BY <1>2 DEF QueueInv, EachTimerInOnePlace
<1>4. Handed' = Handed /\ active' = active /\ Batch' = Batch /\ ran' = ran \cup {t}
  BY DEF RunTimer, setVars, Handed, Batch
<1>5. t \in Waiting /\ Waiting' = Waiting \ {t}
  BY <1>2, <1>3, <1>4 DEF Waiting
<1> QED
  BY <1>2, <1>5 DEF Service!Call, RunTimer, setVars, heapVars, historyVars

\* reset sets again what is to be called again, counted from the time at which
\* the batch began, and ends the rest.
LEMMA ResetIsFinish ==
  ASSUME QueueInv, BatchInv, Reset
  PROVE  Service!Finish
<1>1. ran = Batch /\ Batch' = {} /\ Handed' = Handed
  BY DEF Reset, QueueInv, TypeOK, Batch, Handed
<1>2. Restarted = Service!SetAgain
  BY <1>1 DEF Restarted, Service!SetAgain, BatchInv
<1>3. batchNow \in 0..now /\ \A t \in ran : time[t] <= batchNow
  BY <1>1 DEF Batch, QueueInv, TypeOK, SetsAgree, BatchInv
<1>4. Waiting' = Waiting \cup Restarted
  BY <1>1 DEF Waiting, Reset
<1>5. /\ time' = [t \in Timer |-> IF t \in Service!SetAgain THEN batchNow + Interval[t] ELSE time[t]]
      /\ deleted' = deleted \cup (ran \ Service!SetAgain)
      /\ ran' = {} /\ UNCHANGED <<now, cancelled>>
  BY <1>1, <1>2 DEF Reset, historyVars
<1> QED
  BY <1>2, <1>3, <1>4, <1>5 DEF Service!Finish

\* A call that the loop executes changes nothing if it hands a timer over.
LEMMA TaskIsCancel ==
  ASSUME QueueInv, BatchInv, RunTask
  PROVE  (\E t \in Timer : Service!CancelWaiting(t) \/ Service!CancelDue(t)) \/ UNCHANGED Service!vars
<1> DEFINE op == Head(tasks)[1]
           t == Head(tasks)[2]
           q == Tail(tasks)
<1>1. tasks \in Seq(Task) /\ tasks # <<>> /\ AddsOnce(tasks) /\ tasks' = q
  BY PlacesMeaning DEF QueueInv, TypeOK, Task, RunTask
<1>2. /\ HandedIn(q) = HandedIn(tasks) \ (IF op = "add" THEN {t} ELSE {})
      /\ op = "add" => t \in HandedIn(tasks)
      /\ Head(tasks) \in Task
  BY ONLY <1>1, HandedTail
<1>3. t \in Timer /\ op \in {"add", "cancel"}
  BY <1>2 DEF Task
<1>4. Handed = HandedIn(tasks) /\ Handed' = HandedIn(q)
  BY <1>1 DEF Handed, HandedIn
<1>5. UNCHANGED <<now, time, expired, ran>>
  BY DEF RunTask
<1>6. CASE op = "cancel"
  <2>1. CancelInLoop(t) /\ Handed' = Handed
    BY <1>2, <1>4, <1>6 DEF RunTask
  <2> QED
    BY <1>3, <1>5, <2>1, CancelIsCancel
<1>7. CASE op = "add"
  <2>1. active' = active \cup {t} /\ UNCHANGED <<deleted, cancelled>>
    BY <1>7 DEF RunTask, AddTimerInLoop
  <2>2. Waiting' = Waiting
    BY <1>2, <1>4, <1>5, <1>7, <2>1 DEF Waiting, Batch
  <2> QED
    BY <1>5, <2>1, <2>2 DEF Service!vars
<1> QED
  BY <1>3, <1>6, <1>7

\* Each step of the queue is one of the service, or changes nothing of it.
LEMMA ServiceStep == QueueInv /\ BatchInv /\ [Next]_vars => [Service!Next]_(Service!vars)
<1> SUFFICES ASSUME QueueInv, BatchInv, [Next]_vars PROVE [Service!Next]_(Service!vars)
  OBVIOUS
<1>1. CASE UNCHANGED <<now, time, tasks, active, expired, ran, deleted, cancelled>>
  BY <1>1 DEF Service!vars, Waiting, Handed, Batch
<1>2. CASE HandleRead
  <2>1. Batch = {} /\ ran = {} /\ active = active' \cup Batch'
    BY <1>2 DEF HandleRead, Batch, QueueInv, TypeOK, SetsAgree
  <2>2. Waiting' = Waiting
    BY <1>2, <2>1 DEF HandleRead, Waiting, Handed
  <2> QED
    BY <1>2, <2>1, <2>2 DEF HandleRead, heapVars, historyVars, Service!vars
<1>3. CASE Tick
  BY <1>3 DEF Tick, heapVars, setVars, batchVars, historyVars, Service!Tick, Service!Next, Waiting, Handed, Batch
<1>4. CASE Reset
  BY <1>4, ResetIsFinish DEF Service!Next
<1>5. ASSUME NEW t \in Timer, RunTimer(t) PROVE Service!Next
  BY <1>5, RunIsCall DEF Service!Next
<1>6. CASE RunTask
  BY <1>6, TaskIsCancel DEF Service!Next
<1>7. ASSUME NEW t \in Timer, NEW when \in 0..Horizon,
             AddTimerFromLoop(t, when) \/ AddTimerFromThread(t, when)
      PROVE  Service!Next
  BY <1>7, AddIsSet DEF Service!Next
<1>8. ASSUME NEW t \in Timer, CancelFromLoop(t) PROVE [Service!Next]_(Service!vars)
  <2>1. UNCHANGED <<now, time, expired, ran>> /\ Handed' = Handed /\ CancelInLoop(t)
    BY <1>8 DEF CancelFromLoop, Handed
  <2> QED
    BY <2>1, CancelIsCancel DEF Service!Next
<1>9. ASSUME NEW t \in Timer, CancelFromThread(t) PROVE UNCHANGED Service!vars
  <2>1. tasks \in Seq(Task) /\ AddsOnce(tasks) /\ tasks' = Append(tasks, <<"cancel", t>>)
    BY <1>9, PlacesMeaning DEF CancelFromThread, QueueInv, TypeOK, Task
  <2>2. HandedIn(tasks') = HandedIn(tasks)
    BY ONLY <2>1, HandedAppend
  <2>3. Waiting' = Waiting
    BY <1>9, <2>2 DEF CancelFromThread, setVars, batchVars, Waiting, Handed, HandedIn, Batch
  <2> QED
    BY <1>9, <2>3 DEF CancelFromThread, heapVars, setVars, batchVars, Service!vars
<1>10. CASE EndCallback \/ UNCHANGED vars
  BY <1>1, <1>10 DEF EndCallback, vars, heapVars, setVars, batchVars, historyVars
<1> QED
  BY <1>2, <1>3, <1>4, <1>5, <1>6, <1>7, <1>8, <1>9, <1>10 DEF Next, LoopStep, Calls

\* The queue implements the service for any timers, intervals and times, and
\* any interleaving of callbacks and other threads.
THEOREM RefinesTimerService == Spec => ImplementsTimerService
<1>1. Init => BatchInv
  BY DEF Init, BatchInv, Batch
<1>2. Init => Service!Init
  BY DEF Init, Service!Init, Waiting, Handed, Batch
<1> QED
  BY <1>1, <1>2, QueueInvariant, BatchStep, ServiceStep, PTL
     DEF Spec, ImplementsTimerService, Service!Spec
=============================================================================
