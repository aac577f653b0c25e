---------------------------- MODULE ServerProofs ----------------------------
(***************************************************************************)
(* Proofs about Server and EventloopPool, for any number of loops, of      *)
(* connections and of descriptors, and any MAX_ROUND_ROBIN_NUM: first the  *)
(* hand-shake of start(), then the connections.                            *)
(***************************************************************************)
EXTENDS Server, FiniteSetTheorems, TLAPS

Entry == [handler : Conn \cup {Acceptor}, interest : SUBSET {"kRead"}]
Descriptor == Fd \cup {AcceptFd}
Table == [Descriptor -> Entry \cup {NoEntry, NullEntry}]

\* runTasks executes tasks that are there.
BatchQueued == \A l \in Loop : batch[l] <= Len(tasks[l])

LEMMA LoopFacts == /\ Base \in Loop /\ PoolLoop \subseteq Loop /\ Base \notin PoolLoop
                   /\ \A l \in PoolLoop : l \in Nat /\ l > 0 /\ l < NumLoops
                   /\ NoLoop \notin Loop /\ Loop \subseteq Nat /\ NumLoops \in Nat \ {0}
BY NumAssumption, LoopAssumption DEF Base, Loop, PoolLoop

\* What the operations make of a poll table.
LEMMA TableAfterRegister ==
  ASSUME NEW T \in Table, NEW fd \in Descriptor, NEW h \in Conn \cup {Acceptor}
  PROVE  AfterSetEvent(AfterAddFd(T, fd, h), fd, "kRead")
           = [T EXCEPT ![fd] = [handler |-> h, interest |-> {"kRead"}]]
<1> DEFINE e == FdEvent(h)
           added == AfterAddFd(T, fd, h)
<1>1. e \in Entry /\ e.interest = {} /\ e.handler = h
  BY DEF FdEvent, Entry
<1>2. added = [T EXCEPT ![fd] = e] /\ added[fd] = e
  BY DEF AfterAddFd, Table
<1> HIDE DEF e, added
<1>3. HasEvent(added, fd) /\ Interest(added, fd) = {}
  BY <1>1, <1>2, EntryAssumption DEF HasEvent, Interest, Entry
<1>4. AfterSetEvent(added, fd, "kRead") = [added EXCEPT ![fd] = [handler |-> h, interest |-> {"kRead"}]]
  BY <1>1, <1>2, <1>3 DEF AfterSetEvent, WithInterest
<1> QED
  BY <1>2, <1>4 DEF added, Table

LEMMA TableEntries ==
  ASSUME NEW T \in Table, NEW fd \in Descriptor
  PROVE  HasEvent(T, fd) <=> T[fd] \in Entry
BY EntryAssumption DEF HasEvent, Table, Entry

LEMMA TableAfterUnregister ==
  ASSUME NEW T \in Table, NEW fd \in Descriptor
  PROVE  /\ AfterDeleteFd(T, fd) \in Table
         /\ HasEvent(T, fd) => AfterDeleteFd(T, fd) = [T EXCEPT ![fd] = NoEntry]
BY DEF AfterDeleteFd, Table

LEMMA TableAfterDeleteAll ==
  ASSUME NEW T \in Table, NEW fd \in Descriptor
  PROVE  /\ AfterDeleteAllEvent(T, fd) \in Table
         /\ HasEvent(T, fd) =>
              AfterDeleteAllEvent(T, fd) = [T EXCEPT ![fd] = [handler |-> T[fd].handler, interest |-> {}]]
<1>1. CASE HasEvent(T, fd)
  <2> DEFINE e == [handler |-> T[fd].handler, interest |-> {}]
  <2>1. e \in Entry
    BY <1>1, TableEntries DEF Entry
  <2>2. AfterDeleteAllEvent(T, fd) = [T EXCEPT ![fd] = e]
    BY <1>1 DEF AfterDeleteAllEvent, WithInterest
  <2> HIDE DEF e
  <2>3. [T EXCEPT ![fd] = e] \in Table
    BY <2>1 DEF Table
  <2> QED
    BY <2>2, <2>3 DEF e
<1>2. CASE ~HasEvent(T, fd)
  BY <1>2 DEF AfterDeleteAllEvent, WithInterest, Table
<1> QED
  BY <1>1, <1>2

\* Only the table of loop l changes, and it stays a table.
TableChanges(l) == /\ events' = [events EXCEPT ![l] = events'[l]] /\ events'[l] \in Table
                   /\ events' \in [Loop -> Table]

LEMMA RegisterTable ==
  ASSUME events \in [Loop -> Table], NEW l \in Loop, NEW fd \in Descriptor,
         NEW h \in Conn \cup {Acceptor}, Register(l, fd, h)
  PROVE  /\ TableChanges(l) /\ fdnums' = [fdnums EXCEPT ![l] = fdnums[l] + 1]
         /\ events'[l] = [events[l] EXCEPT ![fd] = [handler |-> h, interest |-> {"kRead"}]]
<1> DEFINE T == events[l]
           added == AfterSetEvent(AfterAddFd(T, fd, h), fd, "kRead")
           read == [handler |-> h, interest |-> {"kRead"}]
<1>1. T \in Table /\ read \in Entry
  BY DEF Entry
<1>2. events' = [events EXCEPT ![l] = added] /\ fdnums' = [fdnums EXCEPT ![l] = fdnums[l] + 1]
  BY DEF Register
<1>3. events'[l] = added
  BY <1>2
<1> HIDE DEF T
<1>4. added = [T EXCEPT ![fd] = read]
  BY <1>1, TableAfterRegister
<1> HIDE DEF added, read
<1>5. added \in Table
  BY <1>1, <1>4 DEF Table
<1> QED
  BY <1>2, <1>3, <1>4, <1>5 DEF TableChanges, T, read

LEMMA UnregisterTable ==
  ASSUME events \in [Loop -> Table], NEW l \in Loop, NEW fd \in Descriptor, Unregister(l, fd)
  PROVE  /\ TableChanges(l) /\ fdnums' = [fdnums EXCEPT ![l] = fdnums[l] - 1]
         /\ HasEvent(events[l], fd) => events'[l] = [events[l] EXCEPT ![fd] = NoEntry]
<1> DEFINE T == events[l]
           gone == AfterDeleteFd(T, fd)
<1>1. T \in Table
  OBVIOUS
<1>2. events' = [events EXCEPT ![l] = gone] /\ fdnums' = [fdnums EXCEPT ![l] = fdnums[l] - 1]
  BY DEF Unregister
<1>3. events'[l] = gone
  BY <1>2
<1> HIDE DEF T
<1>4. gone \in Table /\ (HasEvent(T, fd) => gone = [T EXCEPT ![fd] = NoEntry])
  BY <1>1, TableAfterUnregister
<1> HIDE DEF gone
<1> QED
  BY <1>2, <1>3, <1>4 DEF TableChanges, T

LEMMA CloseTable ==
  ASSUME events \in [Loop -> Table], NEW l \in Loop, NEW fd \in Descriptor,
         events' = [events EXCEPT ![l] = AfterDeleteAllEvent(@, fd)]
  PROVE  /\ TableChanges(l)
         /\ HasEvent(events[l], fd) =>
              events'[l] = [events[l] EXCEPT ![fd] = [handler |-> events[l][fd].handler, interest |-> {}]]
<1> DEFINE T == events[l]
           gone == AfterDeleteAllEvent(T, fd)
           closing == [handler |-> T[fd].handler, interest |-> {}]
<1>1. T \in Table
  OBVIOUS
<1>2. events' = [events EXCEPT ![l] = gone]
  OBVIOUS
<1>3. events'[l] = gone
  BY <1>2
<1> HIDE DEF T
<1>4. gone \in Table /\ (HasEvent(T, fd) => gone = [T EXCEPT ![fd] = closing])
  BY <1>1, TableAfterDeleteAll
<1> HIDE DEF gone, closing
<1> QED
  BY <1>2, <1>3, <1>4 DEF TableChanges, T, closing

\* getNextEvent puts the loops into another order at most.
LEMMA OrdersAreSequences ==
  ASSUME NEW S, loops \in Seq(S), NEW p \in Orders(loops)
  PROVE  p \in Seq(S) /\ Len(p) = Len(loops)
<1> DEFINE R == {loops[i] : i \in 1..Len(loops)}
<1>1. Len(loops) \in Nat /\ R \subseteq S
  OBVIOUS
<1>2. p \in [1..Len(loops) -> R]
  BY DEF Orders
<1> HIDE DEF R
<1> QED
  BY <1>1, <1>2

LEMMA NextLoopsOrder ==
  ASSUME NEW S, loops \in Seq(S), NEW f, NEW p \in NextLoops(f)
  PROVE  p \in Seq(S) /\ Len(p) = Len(loops)
<1>1. p = loops \/ p \in Orders(loops)
  BY DEF NextLoops
<1> QED
  BY <1>1, OrdersAreSequences

PoolTyped ==
  /\ startPc \in {"create", "spin", "latch", "asleep", "store", "started"}
  /\ loops \in Seq(Loop \cup {NoLoop}) /\ Len(loops) > 0
  /\ currentLoop \in Loop \cup {NoLoop} /\ cond \in ConditionOf({Base})
  /\ worker \in [PoolLoop -> {"none", "created", "failed", "running", "constructed", "looping", "exited"}]
  /\ quit \in [Loop -> BOOLEAN]

ConnTyped ==
  /\ serving \in {"starting", "serving", "destroyed"}
  /\ nextConnId \in 0..MaxConns /\ connections \in [Fd -> Conn \cup {NoConn}]
  /\ connFd \in [Conn -> Descriptor] /\ connLoop \in [Conn -> Loop \cup {NoLoop}]
  /\ held \subseteq Conn /\ closed \subseteq Conn

LoopTyped ==
  /\ events \in [Loop -> Table] /\ fdnums \in [Loop -> Int]
  /\ phase \in [Loop -> {"off", "poll", "events", "tasks", "exited"}]
  /\ ready \in [Loop -> SUBSET (Conn \cup {Acceptor})] /\ batch \in [Loop -> Nat]
  /\ tasks \in [Loop -> Seq({"completeConnect", "removeConnection", "connectDestroyed"} \X Conn)]
  /\ BatchQueued

Types == PoolTyped /\ ConnTyped /\ LoopTyped

LEMMA TypesAreTypes == Types /\ count \in 0..1 => TypeOK
BY DEF Types, PoolTyped, ConnTyped, LoopTyped, TypeOK, Table, Entry, Descriptor

LEMMA InitTypes == Init => Types
<1> SUFFICES ASSUME Init PROVE Types
  OBVIOUS
<1> USE LoopFacts DEF Init, PoolInit
<1>1. PoolTyped
  <2>1. loops \in Seq(Loop \cup {NoLoop})
    OBVIOUS
  <2>2. cond \in ConditionOf({Base})
    BY DEF NewCondition, ConditionOf
  <2> QED
    BY <2>1, <2>2 DEF PoolTyped
<1>2. ConnTyped
  BY FdAssumption DEF ConnTyped, Descriptor
<1>3. LoopTyped
  <2>1. events \in [Loop -> Table]
    BY DEF Table, Descriptor
  <2>2. \A l \in Loop : tasks[l] = <<>> /\ batch[l] = 0 /\ Len(tasks[l]) = 0
    OBVIOUS
  <2>3. tasks \in [Loop -> Seq({"completeConnect", "removeConnection", "connectDestroyed"} \X Conn)]
    OBVIOUS
  <2> QED
    BY <2>1, <2>2, <2>3 DEF LoopTyped, BatchQueued
<1> QED
  BY <1>1, <1>2, <1>3 DEF Types

\* The steps of start(), of the threads of the pool and of a spurious wake-up.
LEMMA PoolStepTypes ==
  ASSUME Types, StartStep \/ SpuriousWakeup \/ \E l \in PoolLoop : ThreadStep(l) \/ LoopReturns(l)
  PROVE  PoolTyped'
<1> USE LoopFacts DEF Types, PoolTyped
<1>1. ASSUME NEW c \in ConditionOf({Base})
      PROVE  /\ Wait(c, Base) \in ConditionOf({Base}) /\ Wake(c, Base) \in ConditionOf({Base})
             /\ Return(c, Base) \in ConditionOf({Base}) /\ NotifyAll(c) \in ConditionOf({Base})
  BY DEF ConditionOf, Wait, Wake, Return, NotifyAll
<1>2. CASE CreateThread
  BY <1>2 DEF CreateThread
<1>3. CASE SpinEnds
  BY <1>3 DEF SpinEnds
<1>4. CASE LatchWait
  BY <1>1, <1>4 DEF LatchWait
<1>5. CASE LatchWakes
  BY <1>1, <1>5 DEF LatchWakes
<1>6. CASE StoreLoop
  BY <1>6 DEF StoreLoop
<1>7. CASE SpuriousWakeup
  BY <1>1, <1>7 DEF SpuriousWakeup
<1>8. ASSUME NEW l \in PoolLoop, EnterThread(l) \/ LoopReturns(l) PROVE PoolTyped'
  BY <1>8 DEF EnterThread, LoopReturns, Enters
<1>9. ASSUME NEW l \in PoolLoop, ConstructLoop(l) PROVE PoolTyped'
  BY <1>9 DEF ConstructLoop, Enters
<1>10. ASSUME NEW l \in PoolLoop, CountDown(l) PROVE PoolTyped'
  BY <1>1, <1>10 DEF CountDown, Enters
<1> QED
  BY <1>2, <1>3, <1>4, <1>5, <1>6, <1>7, <1>8, <1>9, <1>10 DEF StartStep, ThreadStep

\* An EXCEPT at the address that is none changes nothing.
LEMMA NoSuchLoop ==
  ASSUME NEW S, NEW f \in [Loop -> S], NEW v
  PROVE  [f EXCEPT ![NoLoop] = v] = f
BY LoopFacts

LEMMA AppendAt ==
  ASSUME NEW S, NEW f \in [Loop -> Seq(S)], NEW l, NEW t \in S
  PROVE  /\ [f EXCEPT ![l] = Append(f[l], t)] \in [Loop -> Seq(S)]
         /\ \A m \in Loop : Len(f[m]) <= Len([f EXCEPT ![l] = Append(f[l], t)][m])
<1> DEFINE g == [f EXCEPT ![l] = Append(f[l], t)]
<1>1. \A m \in Loop : m # l => g[m] = f[m]
  OBVIOUS
<1>2. ASSUME l \in Loop PROVE g[l] = Append(f[l], t) /\ g[l] \in Seq(S) /\ Len(g[l]) = Len(f[l]) + 1 /\ Len(f[l]) \in Nat
  BY <1>2
<1>3. \A m \in Loop : f[m] \in Seq(S) /\ Len(f[m]) \in Nat
  OBVIOUS
<1>4. \A m \in Loop : g[m] \in Seq(S) /\ Len(f[m]) <= Len(g[m])
  BY <1>1, <1>2, <1>3
<1>5. g \in [Loop -> Seq(S)]
  BY <1>4
<1> QED
  BY <1>4, <1>5

LEMMA QueueTypes ==
  ASSUME Types, NEW l \in Loop \cup {NoLoop}, NEW c \in Conn,
         NEW op \in {"completeConnect", "removeConnection", "connectDestroyed"}, Queue(l, op, c)
  PROVE  /\ tasks' \in [Loop -> Seq({"completeConnect", "removeConnection", "connectDestroyed"} \X Conn)]
         /\ \A m \in Loop : Len(tasks[m]) <= Len(tasks'[m])
<1> DEFINE Task == {"completeConnect", "removeConnection", "connectDestroyed"} \X Conn
           t == <<op, c>>
<1>1. tasks \in [Loop -> Seq(Task)] /\ t \in Task
  BY DEF Types, LoopTyped
<1>2. tasks' = [tasks EXCEPT ![l] = Append(tasks[l], t)]
  BY DEF Queue
<1> HIDE DEF Task, t
<1>3. tasks' \in [Loop -> Seq(Task)] /\ \A m \in Loop : Len(tasks[m]) <= Len(tasks'[m])
  BY <1>1, <1>2, AppendAt
<1> QED
  BY <1>3 DEF Task

LEMMA NextTypes == Types /\ [Next]_vars => Types'
<1> SUFFICES ASSUME Types, [Next]_vars PROVE Types'
  OBVIOUS
<1> USE LoopFacts, FdAssumption
<1> DEFINE Task == {"completeConnect", "removeConnection", "connectDestroyed"} \X Conn
<1>1. ASSUME UNCHANGED serverVars PROVE ConnTyped' /\ LoopTyped'
  <2>1. ConnTyped'
    BY <1>1 DEF serverVars, connVars, Types, ConnTyped
  <2>2. LoopTyped'
    BY <1>1 DEF serverVars, loopVars, Types, LoopTyped, BatchQueued
  <2> QED
    BY <2>1, <2>2
<1>2. ASSUME UNCHANGED poolVars PROVE PoolTyped'
  BY <1>2 DEF poolVars, Types, PoolTyped
<1>3. ASSUME UNCHANGED <<connVars, held, closed>>, serving' \in {"starting", "serving", "destroyed"}
      PROVE  ConnTyped'
  BY <1>3 DEF connVars, Types, ConnTyped
<1>4. ASSUME UNCHANGED <<events, fdnums, tasks>>, ready' \in [Loop -> SUBSET (Conn \cup {Acceptor})],
             phase' \in [Loop -> {"off", "poll", "events", "tasks", "exited"}],
             batch' \in [Loop -> Nat], \A l \in Loop : batch'[l] <= Len(tasks[l])
      PROVE  LoopTyped'
  BY <1>4 DEF Types, LoopTyped, BatchQueued
<1>5. /\ events \in [Loop -> Table] /\ fdnums \in [Loop -> Int]
      /\ phase \in [Loop -> {"off", "poll", "events", "tasks", "exited"}]
      /\ ready \in [Loop -> SUBSET (Conn \cup {Acceptor})] /\ batch \in [Loop -> Nat]
      /\ tasks \in [Loop -> Seq(Task)]
      /\ \A l \in Loop : batch[l] <= Len(tasks[l])
      /\ \A c \in Conn : connFd[c] \in Descriptor /\ connLoop[c] \in Loop \cup {NoLoop}
  BY DEF Types, ConnTyped, LoopTyped, BatchQueued
<1>6. ASSUME NEW l \in Loop \cup {NoLoop}, NEW fd \in Descriptor, NEW h \in Conn \cup {Acceptor}, Register(l, fd, h)
      PROVE  events' \in [Loop -> Table] /\ fdnums' \in [Loop -> Int]
  <2>1. CASE l \in Loop
    <3>1. events' \in [Loop -> Table] /\ fdnums' = [fdnums EXCEPT ![l] = fdnums[l] + 1]
      BY <1>5, <1>6, <2>1, RegisterTable DEF TableChanges
    <3> QED
      BY <1>5, <2>1, <3>1
  <2>2. CASE l = NoLoop
    BY <1>5, <1>6, <2>2, NoSuchLoop DEF Register
  <2> QED
    BY <2>1, <2>2
<1>a. ASSUME NEW l \in Loop, NEW fd \in Descriptor, Unregister(l, fd)
      PROVE  events' \in [Loop -> Table] /\ fdnums' \in [Loop -> Int]
  <2>1. events' \in [Loop -> Table] /\ fdnums' = [fdnums EXCEPT ![l] = fdnums[l] - 1]
    BY <1>5, <1>a, UnregisterTable DEF TableChanges
  <2> QED
    BY <1>5, <2>1
<1> HIDE DEF Task
<1>7. CASE StartStep /\ UNCHANGED serverVars
  BY <1>1, <1>7, PoolStepTypes DEF Types
<1>8. CASE SpuriousWakeup /\ UNCHANGED serverVars
  BY <1>1, <1>8, PoolStepTypes DEF Types
<1>9. ASSUME NEW l \in PoolLoop, ThreadStep(l), UNCHANGED serverVars PROVE Types'
  BY <1>1, <1>9, PoolStepTypes DEF Types
<1>10. CASE Listen
  <2>1. loops[1] \in Loop \cup {NoLoop}
    <3>1. Len(loops) = NumLoops /\ loops \in Seq(Loop \cup {NoLoop})
      BY <1>10 DEF Listen, Types, PoolTyped
    <3> QED
      BY <3>1
  <2>2. events' \in [Loop -> Table] /\ fdnums' \in [Loop -> Int]
    BY <1>6, <1>10, <2>1 DEF Listen, AcceptorListens, Descriptor
  <2>3. ConnTyped' /\ PoolTyped'
    BY <1>3, <1>10 DEF Listen, Types, PoolTyped
  <2>4. LoopTyped'
    BY <1>5, <1>10, <2>2 DEF Listen, LoopTyped, BatchQueued, Task
  <2> QED
    BY <2>3, <2>4 DEF Types
<1>11. CASE DestroyServer
  <2>1. events' \in [Loop -> Table] /\ fdnums' \in [Loop -> Int]
    BY <1>a, <1>11 DEF DestroyServer, AcceptorGoes, Descriptor
  <2>2. LoopTyped'
    BY <1>5, <1>11, <2>1 DEF DestroyServer, LoopTyped, BatchQueued, loopVars, Task
  <2>3. ConnTyped' /\ PoolTyped'
    BY <1>11 DEF DestroyServer, QuitAll, Types, ConnTyped, PoolTyped
  <2> QED
    BY <2>2, <2>3 DEF Types
<1>12. CASE SetQuit
  BY <1>1, <1>12 DEF SetQuit, Types, PoolTyped
<1>13. ASSUME NEW l \in Loop, StartLoop(l) \/ RunTasks(l) \/ EndTasks(l) PROVE Types'
  <2>1. LoopTyped'
    <3>1. UNCHANGED <<events, fdnums, tasks, ready>>
      BY <1>13 DEF StartLoop, RunTasks, EndTasks
    <3>2. phase' \in [Loop -> {"off", "poll", "events", "tasks", "exited"}]
      BY <1>5, <1>13 DEF StartLoop, RunTasks, EndTasks
    <3>3. Len(tasks[l]) \in Nat
      <4>1. tasks[l] \in Seq(Task)
        BY <1>5
      <4> QED
        BY <4>1
    <3>4. batch' = batch \/ batch' = [batch EXCEPT ![l] = Len(tasks[l])]
      BY <1>13 DEF StartLoop, RunTasks, EndTasks
    <3>5. batch' \in [Loop -> Nat] /\ \A m \in Loop : batch'[m] <= Len(tasks[m])
      <4> DEFINE n == Len(tasks[l])
      <4>1. CASE batch' = batch
        BY <1>5, <4>1
      <4>2. CASE batch' = [batch EXCEPT ![l] = n]
        <5> HIDE DEF n
        <5>1. batch' \in [Loop -> Nat] /\ batch'[l] = n /\ n \in Nat /\ \A m \in Loop \ {l} : batch'[m] = batch[m]
          BY <1>5, <3>3, <4>2 DEF n
        <5> QED
          BY <1>5, <5>1 DEF n
      <4> QED
        BY <3>4, <4>1, <4>2
    <3> QED
      BY <1>4, <1>5, <3>1, <3>2, <3>5
  <2> QED
    BY <1>2, <1>3, <1>13, <2>1 DEF StartLoop, RunTasks, EndTasks, Types, ConnTyped
<1>14. ASSUME NEW l \in Loop, EndLoop(l) PROVE Types'
  <2>1. LoopTyped'
    BY <1>4, <1>5, <1>14 DEF EndLoop
  <2>2. PoolTyped'
    <3>1. CASE l = Base
      BY <1>2, <1>14, <3>1 DEF EndLoop
    <3>2. CASE l # Base
      BY <1>14, <3>2, PoolStepTypes DEF EndLoop, PoolLoop
    <3> QED
      BY <3>1, <3>2
  <2> QED
    BY <1>3, <1>14, <2>1, <2>2 DEF EndLoop, Types, ConnTyped
<1>15. ASSUME NEW l \in Loop, Poll(l) PROVE Types'
  <2>1. PICK R \in SUBSET {fd \in Fd \cup {AcceptFd} : Interest(events[l], fd) # {}} :
               ready' = [ready EXCEPT ![l] = {events[l][fd].handler : fd \in R}]
    BY <1>15 DEF Poll
  <2>2. \A fd \in R : events[l][fd].handler \in Conn \cup {Acceptor}
    <3> TAKE fd \in R
    <3>1. fd \in Descriptor /\ HasEvent(events[l], fd)
      BY <2>1 DEF Interest, Descriptor
    <3>2. events[l][fd] \in Entry
      BY <1>5, <3>1, TableEntries
    <3> QED
      BY <3>2 DEF Entry
  <2>3. ready' \in [Loop -> SUBSET (Conn \cup {Acceptor})]
    BY <1>5, <2>1, <2>2
  <2>4. LoopTyped'
    BY <1>4, <1>5, <1>15, <2>3 DEF Poll
  <2> QED
    BY <1>2, <1>3, <1>15, <2>4 DEF Poll, Types, ConnTyped
<1>16. ASSUME NEW l \in Loop, NEW c \in Conn, HandleRead(l, c) PROVE Types'
  <2>1. ready' \in [Loop -> SUBSET (Conn \cup {Acceptor})] /\ UNCHANGED <<phase, batch, fdnums>>
    BY <1>5, <1>16 DEF HandleRead
  <2>2. CASE Callback(c) /\ UNCHANGED <<connections, events, closed, tasks>>
    <3>1. LoopTyped'
      BY <1>4, <1>5, <1>16, <2>1, <2>2 DEF HandleRead
    <3>2. ConnTyped'
      BY <1>16, <2>2 DEF HandleRead, Callback, Types, ConnTyped
    <3> QED
      BY <1>2, <1>16, <3>1, <3>2 DEF HandleRead, Types
  <2>3. CASE HandleClose(l, c) /\ UNCHANGED held
    <3>1. events' \in [Loop -> Table]
      BY <1>5, <2>3, CloseTable DEF HandleClose, TableChanges
    <3>2. /\ tasks' \in [Loop -> Seq(Task)]
          /\ \A m \in Loop : Len(tasks[m]) <= Len(tasks'[m])
      <4>1. \/ Queue(connLoop[c], "connectDestroyed", c) \/ Queue(Base, "removeConnection", c)
        BY <2>3 DEF HandleClose, RemoveConnection, RemoveConnectionInLoop
      <4> QED
        BY <1>5, <4>1, QueueTypes DEF Task
    <3>3. \A m \in Loop : batch'[m] <= Len(tasks'[m])
      <4> SUFFICES ASSUME NEW m \in Loop PROVE batch[m] <= Len(tasks'[m])
        BY <2>1
      <4>1. batch[m] \in Nat /\ Len(tasks[m]) \in Nat /\ Len(tasks'[m]) \in Nat
        BY <1>5, <3>2
      <4> QED
        BY <1>5, <3>2, <4>1
    <3>4. LoopTyped'
      BY <1>5, <2>1, <3>1, <3>2, <3>3 DEF LoopTyped, BatchQueued, Task
    <3>5. ConnTyped'
      BY <1>16, <2>3 DEF HandleRead, HandleClose, RemoveConnection, RemoveConnectionInLoop, Types, ConnTyped
    <3> QED
      BY <1>2, <1>16, <3>4, <3>5 DEF HandleRead, Types
  <2> QED
    BY <1>16, <2>2, <2>3 DEF HandleRead
<1>17. CASE Accept
  <2>1. ready' \in [Loop -> SUBSET (Conn \cup {Acceptor})] /\ UNCHANGED <<phase, batch>>
    BY <1>5, <1>17 DEF Accept
  <2>2. CASE UNCHANGED <<loops, connVars, held, events, fdnums, tasks>>
    <3>1. LoopTyped'
      BY <1>4, <1>5, <2>1, <2>2
    <3>2. ConnTyped' /\ PoolTyped'
      BY <1>3, <1>17, <2>2 DEF Accept, Types, PoolTyped, ConnTyped
    <3> QED
      BY <3>1, <3>2 DEF Types
  <2>3. ASSUME NEW fd \in Fd, nextConnId < MaxConns, NewConnection(nextConnId, fd) PROVE Types'
    <3> DEFINE c == nextConnId
    <3>1. c \in Conn /\ nextConnId + 1 \in 0..MaxConns /\ fd \in Descriptor
      BY <2>3 DEF Types, ConnTyped, Conn, Descriptor
    <3>2. loops' \in Seq(Loop \cup {NoLoop}) /\ Len(loops') = Len(loops)
      BY <2>3, NextLoopsOrder DEF NewConnection, Types, PoolTyped
    <3>3. PoolTyped'
      BY <1>17, <3>2 DEF Accept, Types, PoolTyped
    <3> HIDE DEF c
    <3>4. CASE loops'[1] = Base
      <4>1. Register(Base, fd, c) /\ UNCHANGED tasks /\ Callback(c)
        BY <2>3, <3>4 DEF NewConnection, c
      <4>2. events' \in [Loop -> Table] /\ fdnums' \in [Loop -> Int]
        BY <1>6, <3>1, <4>1
      <4>3. LoopTyped'
        BY <1>5, <2>1, <4>1, <4>2 DEF LoopTyped, BatchQueued, Task
      <4>4. ConnTyped'
        BY <1>17, <2>3, <3>1, <3>4, <4>1 DEF Accept, NewConnection, Callback, Types, ConnTyped, c
      <4> QED
        BY <3>3, <4>3, <4>4 DEF Types
    <3>5. CASE loops'[1] # Base
      <4>1. Queue(loops'[1], "completeConnect", c) /\ UNCHANGED <<held, events, fdnums>>
        BY <2>3, <3>5 DEF NewConnection, c
      <4>2. CASE loops'[1] \in Loop \cup {NoLoop}
        <5>1. /\ tasks' \in [Loop -> Seq(Task)]
              /\ \A m \in Loop : Len(tasks[m]) <= Len(tasks'[m])
          BY <3>1, <4>1, <4>2, QueueTypes DEF Task
        <5>2. \A m \in Loop : batch'[m] <= Len(tasks'[m])
          <6> SUFFICES ASSUME NEW m \in Loop PROVE batch[m] <= Len(tasks'[m])
            BY <2>1
          <6>1. batch[m] \in Nat /\ Len(tasks[m]) \in Nat /\ Len(tasks'[m]) \in Nat
            BY <1>5, <5>1
          <6> QED
            BY <1>5, <5>1, <6>1
        <5>3. LoopTyped'
          BY <1>5, <2>1, <4>1, <5>1, <5>2 DEF LoopTyped, BatchQueued, Task
        <5>4. ConnTyped'
          BY <1>17, <2>3, <3>1, <4>1, <4>2 DEF Accept, NewConnection, Types, ConnTyped, c
        <5> QED
          BY <3>3, <5>3, <5>4 DEF Types
      <4>3. loops'[1] \in Loop \cup {NoLoop}
        BY <3>2 DEF Types, PoolTyped
      <4> QED
        BY <4>2, <4>3
    <3> QED
      BY <3>4, <3>5
  <2> QED
    BY <1>17, <2>2, <2>3 DEF Accept
<1>18. ASSUME NEW l \in Loop, RunTask(l) PROVE Types'
  <2> DEFINE op == Head(tasks[l])[1]
             c == Head(tasks[l])[2]
             rest == [tasks EXCEPT ![l] = Tail(@)]
  <2>1. batch[l] > 0 /\ batch' = [batch EXCEPT ![l] = @ - 1] /\ UNCHANGED <<phase, ready>>
    BY <1>18 DEF RunTask
  <2>2. tasks[l] \in Seq(Task) /\ Len(tasks[l]) > 0
    <3>1. tasks[l] \in Seq(Task) /\ batch[l] \in Nat /\ batch[l] <= Len(tasks[l])
      BY <1>5
    <3> QED
      BY <2>1, <3>1
  <2>3. Head(tasks[l]) \in Task /\ Tail(tasks[l]) \in Seq(Task) /\ Len(Tail(tasks[l])) = Len(tasks[l]) - 1
    BY <2>2
  <2>4. op \in {"completeConnect", "removeConnection", "connectDestroyed"} /\ c \in Conn
    BY <2>3 DEF Task
  <2>5. rest \in [Loop -> Seq(Task)] /\ batch' \in [Loop -> Nat] /\ \A m \in Loop : batch'[m] <= Len(rest[m])
    <3>1. rest \in [Loop -> Seq(Task)] /\ rest[l] = Tail(tasks[l]) /\ \A m \in Loop \ {l} : rest[m] = tasks[m]
      BY <1>5, <2>3
    <3>2. batch' \in [Loop -> Nat] /\ batch'[l] = batch[l] - 1 /\ \A m \in Loop \ {l} : batch'[m] = batch[m]
      BY <1>5, <2>1
    <3>3. batch[l] \in Nat /\ batch[l] <= Len(tasks[l]) /\ Len(tasks[l]) \in Nat
      BY <1>5, <2>2
    <3> QED
      BY <1>5, <2>3, <3>1, <3>2, <3>3
  <2>6. PoolTyped'
    BY <1>2, <1>18 DEF RunTask
  <2>7. connFd[c] \in Descriptor /\ connLoop[c] \in Loop \cup {NoLoop}
    BY <1>5, <2>4
  <2>8. ASSUME tasks' \in [Loop -> Seq(Task)], \A m \in Loop : batch'[m] <= Len(tasks'[m]),
               events' \in [Loop -> Table], fdnums' \in [Loop -> Int],
               connections' \in [Fd -> Conn \cup {NoConn}], held' \subseteq Conn
        PROVE  Types'
    <3>1. LoopTyped'
      BY <1>5, <2>1, <2>5, <2>8 DEF LoopTyped, BatchQueued, Task
    <3>2. ConnTyped'
      BY <1>18, <2>8 DEF RunTask, Types, ConnTyped
    <3> QED
      BY <2>6, <3>1, <3>2 DEF Types
  <2>9. held \subseteq Conn /\ connections \in [Fd -> Conn \cup {NoConn}]
    BY DEF Types, ConnTyped
  <2>10. CASE op = "completeConnect"
    <3>1. Register(l, connFd[c], c) /\ Callback(c) /\ tasks' = rest /\ UNCHANGED connections
      BY <1>18, <2>10 DEF RunTask
    <3> HIDE DEF op, c, rest
    <3>2. events' \in [Loop -> Table] /\ fdnums' \in [Loop -> Int]
      BY <1>6, <2>4, <2>7, <3>1
    <3>3. held' \subseteq Conn
      BY <2>4, <2>9, <3>1 DEF Callback
    <3> QED
      BY <2>5, <2>8, <2>9, <3>1, <3>2, <3>3
  <2>11. CASE op = "removeConnection"
    <3>1. /\ connections' = [connections EXCEPT ![connFd[c]] = NoConn]
          /\ tasks' = [rest EXCEPT ![connLoop[c]] = Append(@, <<"connectDestroyed", c>>)]
          /\ UNCHANGED <<events, fdnums, held>>
      BY <1>18, <2>11 DEF RunTask
    <3> DEFINE t == <<"connectDestroyed", c>>
               k == connLoop[c]
    <3>2. t \in Task
      BY <2>4 DEF Task
    <3>3. tasks' = [rest EXCEPT ![k] = Append(rest[k], t)]
      BY <3>1
    <3>4. connections' \in [Fd -> Conn \cup {NoConn}] /\ k \in Loop \cup {NoLoop}
      BY <2>7, <2>9, <3>1
    <3> HIDE DEF op, c, rest, t, k
    <3>5. tasks' \in [Loop -> Seq(Task)] /\ \A m \in Loop : Len(rest[m]) <= Len(tasks'[m])
      BY <2>5, <3>2, <3>3, AppendAt
    <3>6. \A m \in Loop : batch'[m] <= Len(tasks'[m])
      <4> SUFFICES ASSUME NEW m \in Loop PROVE batch'[m] <= Len(tasks'[m])
        OBVIOUS
      <4>1. batch'[m] \in Nat /\ Len(rest[m]) \in Nat /\ Len(tasks'[m]) \in Nat
        BY <2>5, <3>5
      <4> QED
        BY <2>5, <3>5, <4>1
    <3> QED
      BY <1>5, <2>8, <2>9, <3>1, <3>4, <3>5, <3>6
  <2>12. CASE op = "connectDestroyed"
    <3>1. Unregister(l, connFd[c]) /\ tasks' = rest /\ UNCHANGED <<connections, held>>
      BY <1>18, <2>12 DEF RunTask
    <3> HIDE DEF op, c, rest
    <3>2. events' \in [Loop -> Table] /\ fdnums' \in [Loop -> Int]
      BY <1>a, <2>7, <3>1
    <3> QED
      BY <2>5, <2>8, <2>9, <3>1, <3>2
  <2> QED
    BY <2>4, <2>10, <2>11, <2>12
<1>19. ASSUME NEW c \in Conn, UserDrops(c) PROVE Types'
  <2>1. LoopTyped'
    BY <1>4, <1>5, <1>19 DEF UserDrops, loopVars
  <2>2. ConnTyped'
    BY <1>19 DEF UserDrops, connVars, Types, ConnTyped
  <2> QED
    BY <1>2, <1>19, <2>1, <2>2 DEF UserDrops, Types
<1>20. CASE UNCHANGED vars
  BY <1>1, <1>2, <1>20 DEF vars, Types
<1> QED
  BY <1>7, <1>8, <1>9, <1>10, <1>11, <1>12, <1>13, <1>14, <1>15, <1>16, <1>17, <1>18, <1>19, <1>20
  DEF Next, MainStep, LoopStep
-----------------------------------------------------------------------------
(***************************************************************************)
(* start().  While it runs the loops stored so far are Base, 1, 2, ... in  *)
(* this order, and the thread of the current iteration is on its way to    *)
(* counting the latch down; what it counted down is the latch of this      *)
(* iteration, for StoreLoop sets it to 1 only after that.                  *)
(***************************************************************************)
Starting ==
  /\ serving = "starting" /\ phase[Base] = "off"
  /\ \A i \in 1..Len(loops) : loops[i] = i - 1
  /\ \A l \in PoolLoop : /\ l < Len(loops) => worker[l] = "looping"
                         /\ l > Len(loops) => worker[l] = "none"

Iterating ==
  IF startPc = "create" THEN count = 1 /\ \A l \in PoolLoop : l = Len(loops) => worker[l] = "none"
  ELSE /\ Len(loops) < NumLoops
       /\ worker[Len(loops)] \in {"created", "failed", "running", "constructed", "looping"}
       /\ count = IF worker[Len(loops)] = "looping" THEN 0 ELSE 1
       /\ worker[Len(loops)] \in {"constructed", "looping"} => currentLoop = Len(loops)
       /\ startPc = "store" => count = 0

Started ==
  /\ serving # "starting" /\ Len(loops) = NumLoops /\ count \in 0..1
  /\ \A i \in 1..Len(loops) : loops[i] \in Loop
  /\ \A i, j \in 1..Len(loops) : loops[i] = loops[j] => i = j
  /\ \A l \in PoolLoop : worker[l] \in {"looping", "exited"}

StartInv ==
  /\ Len(loops) \in 1..NumLoops
  /\ startPc # "started" => Starting /\ Iterating
  /\ startPc = "started" => Started
  /\ \A l \in PoolLoop : /\ worker[l] = "exited" => quit[l]
                         /\ quit[l] => serving = "destroyed"

LEMMA InitStart == Init => StartInv
<1> SUFFICES ASSUME Init PROVE StartInv
  OBVIOUS
<1> USE LoopFacts DEF Init, PoolInit
<1>1. Len(loops) = 1 /\ loops[1] = Base
  OBVIOUS
<1>2. Starting
  BY <1>1 DEF Starting, Base
<1>3. Iterating
  BY DEF Iterating
<1> QED
  BY <1>1, <1>2, <1>3 DEF StartInv

\* What start() and the thread it waits for do.
LEMMA StartSteps ==
  ASSUME Types, StartInv, StartStep \/ \E l \in PoolLoop : ThreadStep(l), UNCHANGED serverVars
  PROVE  StartInv'
<1> USE LoopFacts
<1>1. /\ loops \in Seq(Loop \cup {NoLoop}) /\ Len(loops) \in Nat /\ Len(loops) \in 1..NumLoops
      /\ worker \in [PoolLoop -> {"none", "created", "failed", "running", "constructed", "looping", "exited"}]
      /\ \A n \in Nat : n > 0 /\ n < NumLoops => n \in PoolLoop
      /\ startPc \in {"create", "spin", "latch", "asleep", "store", "started"}
  BY DEF Types, PoolTyped, StartInv, PoolLoop, Loop, Base
<1>2. UNCHANGED <<serving, phase, quit>>
  BY DEF serverVars, loopVars, StartStep, CreateThread, SpinEnds, LatchWait, LatchWakes, StoreLoop,
         ThreadStep, EnterThread, ConstructLoop, CountDown
<1>3. CASE StartStep
  <2>1. startPc # "started" /\ Starting /\ Iterating
    BY <1>3 DEF StartInv, StartStep, CreateThread, SpinEnds, LatchWait, LatchWakes, StoreLoop
  <2>2. CASE CreateThread
    <3>1. ThisThread \in PoolLoop /\ ThisThread = Len(loops) /\ count = 1
      BY <1>1, <2>1, <2>2 DEF CreateThread, ThisThread, Iterating
    <3>2. /\ worker'[Len(loops)] \in {"created", "failed"}
          /\ \A l \in PoolLoop : l # Len(loops) => worker'[l] = worker[l]
      BY <1>1, <2>2, <3>1 DEF CreateThread
    <3>3. Starting' /\ Iterating'
      BY <1>1, <1>2, <2>1, <2>2, <3>1, <3>2 DEF CreateThread, Starting, Iterating
    <3> QED
      BY <1>1, <1>2, <2>1, <2>2, <3>1, <3>2, <3>3 DEF CreateThread, StartInv
  <2>3. CASE SpinEnds \/ LatchWait \/ LatchWakes
    <3>1. /\ UNCHANGED <<loops, worker, count, currentLoop>> /\ startPc' \notin {"started", "create"}
          /\ startPc # "create" /\ (startPc' = "store" => ~(count > 0))
      BY <2>3 DEF SpinEnds, LatchWait, LatchWakes
    <3>2. Starting' /\ Iterating'
      BY <1>2, <2>1, <3>1 DEF Starting, Iterating
    <3> QED
      BY <1>1, <1>2, <3>1, <3>2 DEF StartInv
  <2>4. CASE StoreLoop
    <3>1. Len(loops) < NumLoops /\ worker[Len(loops)] = "looping" /\ currentLoop = Len(loops)
      BY <2>1, <2>4 DEF StoreLoop, Iterating
    <3>2. currentLoop \in Loop \cup {NoLoop}
      BY DEF Types, PoolTyped
    <3>3. /\ Len(loops') = Len(loops) + 1 /\ loops'[Len(loops) + 1] = Len(loops)
          /\ \A i \in 1..Len(loops) : loops'[i] = loops[i]
      BY <1>1, <2>4, <3>1, <3>2 DEF StoreLoop
    <3>4. Starting'
      BY <1>1, <1>2, <2>1, <2>4, <3>1, <3>3 DEF StoreLoop, Starting
    <3>5. Iterating' /\ startPc' = "create" /\ UNCHANGED worker
      BY <1>1, <2>1, <2>4, <3>1, <3>3 DEF StoreLoop, Starting, Iterating
    <3> QED
      BY <1>1, <1>2, <3>1, <3>3, <3>4, <3>5 DEF StartInv
  <2> QED
    BY <1>3, <2>2, <2>3, <2>4 DEF StartStep
<1>4. ASSUME NEW l \in PoolLoop, ThreadStep(l) PROVE StartInv'
  <2>1. /\ UNCHANGED <<startPc, loops>>
        /\ \A m \in PoolLoop : m # l => worker'[m] = worker[m]
        /\ worker[l] \in {"created", "running", "constructed"}
        /\ worker'[l] = IF worker[l] = "created" THEN "running"
                        ELSE IF worker[l] = "running" THEN "constructed" ELSE "looping"
        /\ currentLoop' = IF worker[l] = "running" THEN l ELSE currentLoop
        /\ count' = IF worker[l] = "constructed" THEN count - 1 ELSE count
    BY <1>1, <1>4 DEF ThreadStep, EnterThread, ConstructLoop, CountDown, Enters
  <2>2. startPc # "started"
    BY <2>1 DEF StartInv, Started
  <2>3. Starting /\ Iterating
    BY <2>2 DEF StartInv
  <2>4. l = Len(loops) /\ startPc # "create"
    BY <1>1, <2>1, <2>3 DEF Starting, Iterating
  <2>5. Starting'
    BY <1>1, <1>2, <2>1, <2>3, <2>4 DEF Starting
  <2>6. Iterating'
    BY <1>1, <2>1, <2>3, <2>4 DEF Iterating
  <2> QED
    BY <1>1, <1>2, <2>1, <2>2, <2>5, <2>6 DEF StartInv
<1> QED
  BY <1>3, <1>4

LEMMA NextStart == Types /\ StartInv /\ [Next]_vars => StartInv'
<1> SUFFICES ASSUME Types, StartInv, [Next]_vars PROVE StartInv'
  OBVIOUS
<1> USE LoopFacts
<1>1. CASE StartStep /\ UNCHANGED serverVars
  BY <1>1, StartSteps
<1>2. ASSUME NEW l \in PoolLoop, ThreadStep(l), UNCHANGED serverVars PROVE StartInv'
  BY <1>2, StartSteps
<1>3. ASSUME UNCHANGED <<startPc, loops, currentLoop, count, worker, quit>>, serving' = serving,
             phase'[Base] = phase[Base] \/ phase[Base] # "off"
      PROVE  StartInv'
  BY <1>3 DEF StartInv, Starting, Iterating, Started
<1>4. phase \in [Loop -> {"off", "poll", "events", "tasks", "exited"}]
  BY DEF Types, LoopTyped
<1>5. CASE Listen
  <2>1. Starting /\ Iterating /\ Len(loops) = NumLoops /\ startPc' = "started" /\ serving' = "serving"
        /\ UNCHANGED <<loops, count, worker, quit>> /\ count = 1 /\ serving = "starting"
    BY <1>5 DEF Listen, StartInv, Iterating
  <2>2. \A l \in PoolLoop : worker[l] = "looping"
    BY <2>1 DEF Starting
  <2>3. \A i \in 1..Len(loops) : loops[i] = i - 1 /\ loops[i] \in Loop
    BY <2>1 DEF Starting, Loop
  <2>4. Started'
    BY <2>1, <2>2, <2>3 DEF Started
  <2> QED
    BY <2>1, <2>4 DEF StartInv
<1>6. CASE DestroyServer
  <2>1. /\ UNCHANGED <<startPc, loops, count, worker>> /\ serving' = "destroyed" /\ serving = "serving"
        /\ \A l \in Loop : quit[l] => quit'[l]
    BY <1>6 DEF DestroyServer, QuitAll
  <2>2. startPc = "started" /\ Started
    BY <2>1 DEF StartInv, Starting
  <2>3. Started'
    BY <2>1, <2>2 DEF Started
  <2> QED
    BY <2>1, <2>2, <2>3 DEF StartInv
<1>7. CASE SetQuit
  <2>1. /\ UNCHANGED <<startPc, loops, count, worker, serving>>
        /\ \A l \in PoolLoop : quit'[l] = quit[l]
    BY <1>7 DEF SetQuit, serverVars, Types, PoolTyped
  <2>2. startPc = "started"
    BY <1>7 DEF SetQuit, StartInv, Starting
  <2> QED
    BY <2>1, <2>2 DEF StartInv, Started
<1>8. CASE SpuriousWakeup /\ UNCHANGED serverVars
  BY <1>3, <1>8 DEF SpuriousWakeup, serverVars, loopVars
<1>9. ASSUME NEW l \in Loop, StartLoop(l) \/ Poll(l) \/ RunTasks(l) \/ EndTasks(l) PROVE StartInv'
  <2>1. phase'[Base] = phase[Base] \/ phase[Base] # "off"
    BY <1>4, <1>9 DEF StartLoop, Poll, RunTasks, EndTasks
  <2> QED
    BY <1>3, <1>9, <2>1 DEF StartLoop, Poll, RunTasks, EndTasks, poolVars
<1>10. ASSUME NEW l \in Loop, RunTask(l) \/ \E c \in Conn : HandleRead(l, c) PROVE StartInv'
  BY <1>3, <1>10 DEF RunTask, HandleRead, poolVars
<1>11. ASSUME NEW l \in Loop, EndLoop(l) PROVE StartInv'
  <2>1. phase'[Base] = phase[Base] \/ phase[Base] # "off"
    BY <1>4, <1>11 DEF EndLoop
  <2>2. CASE l = Base
    BY <1>3, <1>11, <2>1, <2>2 DEF EndLoop, poolVars
  <2>3. CASE l # Base
    <3>1. l \in PoolLoop /\ quit[l] /\ worker'= [worker EXCEPT ![l] = "exited"]
          /\ UNCHANGED <<startPc, loops, count, quit, serving>>
      BY <1>11, <2>3 DEF EndLoop, LoopReturns, Enters, PoolLoop
    <3>2. worker'[l] = "exited" /\ \A m \in PoolLoop : m # l => worker'[m] = worker[m]
      BY <3>1 DEF Types, PoolTyped
    <3>3. startPc = "started" /\ Started
      BY <3>1 DEF StartInv, Starting
    <3>4. Started'
      BY <3>1, <3>2, <3>3 DEF Started
    <3> QED
      BY <3>1, <3>2, <3>3, <3>4 DEF StartInv
  <2> QED
    BY <2>2, <2>3
<1>12. CASE Accept
  <2>1. UNCHANGED <<startPc, count, worker, quit, serving, phase>> /\ phase[Base] = "events"
    BY <1>12 DEF Accept
  <2>2. startPc = "started" /\ Started
    BY <2>1 DEF StartInv, Starting
  <2>3. CASE UNCHANGED loops
    BY <1>3, <1>12, <2>1, <2>3 DEF Accept
  <2>4. CASE loops' \in Orders(loops)
    <3>1. loops' \in Seq(Loop \cup {NoLoop}) /\ Len(loops') = Len(loops)
      BY <2>4, OrdersAreSequences DEF Types, PoolTyped
    <3>2. \A i \in 1..Len(loops) : loops'[i] \in Loop
      BY <2>2, <2>4 DEF Orders, Started
    <3>3. \A i, j \in 1..Len(loops) : loops'[i] = loops'[j] => i = j
      BY <2>4 DEF Orders
    <3>4. Started'
      BY <2>1, <2>2, <3>1, <3>2, <3>3 DEF Started
    <3> QED
      BY <2>1, <2>2, <3>1, <3>4 DEF StartInv
  <2>5. loops' = loops \/ loops' \in Orders(loops)
    BY <1>12 DEF Accept, NewConnection, NextLoops
  <2> QED
    BY <2>3, <2>4, <2>5
<1>13. ASSUME NEW c \in Conn, UserDrops(c) PROVE StartInv'
  BY <1>3, <1>13 DEF UserDrops, poolVars, loopVars
<1>14. CASE UNCHANGED vars
  BY <1>3, <1>14 DEF vars, poolVars, serverVars, loopVars
<1> QED
  BY <1>1, <1>2, <1>5, <1>6, <1>7, <1>8, <1>9, <1>10, <1>11, <1>12, <1>13, <1>14
  DEF Next, MainStep, LoopStep

LEMMA CountIsBit == StartInv => count \in 0..1
BY DEF StartInv, Iterating, Started

\* Every variable keeps to its type: count_ of the latch, which every
\* countDown decreases, never becomes negative.
THEOREM TypeCorrect == Spec => []TypeOK
<1>1. Types /\ StartInv => TypeOK
  BY TypesAreTypes, CountIsBit
<1> QED
  BY <1>1, InitTypes, InitStart, NextTypes, NextStart, PTL DEF Spec

\* EventloopPool.cpp:32: the addresses that start() stores are those of
\* different loops, each built and still there, however the threads and the
\* latch interleave.
THEOREM StoredLoopsAreLive == Spec => []LoopsAreLive
<1>1. Types /\ StartInv => LoopsAreLive
  <2> SUFFICES ASSUME Types, StartInv, serving # "destroyed"
               PROVE  /\ \A i \in 1..Len(loops) : loops[i] \in PoolLoop => worker[loops[i]] = "looping"
                      /\ \A i \in 1..Len(loops) : loops[i] # NoLoop
                      /\ \A i, j \in 1..Len(loops) : loops[i] = loops[j] => i = j
    BY DEF LoopsAreLive
  <2>1. CASE startPc = "started"
    BY <2>1, LoopFacts DEF StartInv, Started
  <2>2. CASE startPc # "started"
    <3>1. Starting /\ Len(loops) \in 1..NumLoops
      BY <2>2 DEF StartInv
    <3>2. \A i \in 1..Len(loops) : loops[i] = i - 1 /\ loops[i] \in Loop
      BY <3>1, LoopFacts DEF Starting, Loop
    <3> QED
      BY <3>1, <3>2, LoopFacts DEF Starting
  <2> QED
    BY <2>1, <2>2
<1> QED
  BY <1>1, InitTypes, InitStart, NextTypes, NextStart, PTL DEF Spec
-----------------------------------------------------------------------------
(***************************************************************************)
(* The connections.  All of them are on the base loop: its fdnums_ counts  *)
(* the Acceptor's descriptor and is the largest, so the sort of            *)
(* getNextEvent, which takes the most loaded loop, never moves another loop*)
(* to the front.  A connection is then in one of two states: open, in the  *)
(* map and polled; or closed, out of the map, polled without interest, and *)
(* with one connectDestroyed queued, which keeps its descriptor in use.    *)
(***************************************************************************)
Accepted == 0..(nextConnId - 1)

Polled(c) == HasEvent(events[Base], connFd[c]) /\ events[Base][connFd[c]].handler = c

DestroyQueued(c) == \E i \in 1..Len(tasks[Base]) : tasks[Base][i] = <<"connectDestroyed", c>>

PoolIdle ==
  \A l \in PoolLoop : /\ \A fd \in Descriptor : events[l][fd] = NoEntry
                      /\ fdnums[l] = 1 /\ ready[l] = {} /\ tasks[l] = <<>>

BaseServes ==
  /\ loops[1] = Base
  /\ \A fd \in Descriptor : events[Base][fd] # NullEntry
  /\ HasEvent(events[Base], AcceptFd) <=> serving = "serving"
  /\ serving = "serving" => events[Base][AcceptFd].handler = Acceptor
  /\ serving = "destroyed" => phase[Base] = "exited"
  /\ fdnums[Base] = 1 + Cardinality(Registered(events[Base]))

PolledAccepted ==
  \A fd \in Fd : HasEvent(events[Base], fd) =>
    LET c == events[Base][fd].handler
    IN  /\ c \in Accepted /\ connFd[c] = fd
        /\ c \in closed => events[Base][fd].interest = {} /\ DestroyQueued(c)

OpenMapped == \A c \in Accepted \ closed : connections[connFd[c]] = c /\ Polled(c)

MappedOpen == \A fd \in Fd : connections[fd] # NoConn =>
                /\ connections[fd] \in Accepted \ closed /\ connFd[connections[fd]] = fd

TasksDestroy ==
  /\ \A i \in 1..Len(tasks[Base]) : /\ tasks[Base][i][1] = "connectDestroyed"
                                     /\ tasks[Base][i][2] \in closed /\ Polled(tasks[Base][i][2])
  /\ \A i, j \in 1..Len(tasks[Base]) : tasks[Base][i][2] = tasks[Base][j][2] => i = j

ConnPlaced ==
  /\ \A c \in Accepted : connFd[c] \in Fd /\ connLoop[c] = Base
  /\ closed \subseteq Accepted /\ ready[Base] \subseteq {Acceptor} \cup (Accepted \ closed)

ConnInv == PolledAccepted /\ OpenMapped /\ MappedOpen /\ TasksDestroy /\ ConnPlaced

ServerInv == PoolIdle /\ BaseServes /\ (serving # "destroyed" => ConnInv)

LEMMA InitServer == Init => ServerInv
<1> SUFFICES ASSUME Init PROVE ServerInv
  OBVIOUS
<1> USE LoopFacts DEF Init, PoolInit
<1>1. /\ \A l \in Loop : /\ \A fd \in Descriptor : events[l][fd] = NoEntry
                          /\ fdnums[l] = 1 /\ ready[l] = {} /\ tasks[l] = <<>> /\ Len(tasks[l]) = 0
      /\ loops[1] = Base /\ Accepted = {} /\ closed = {} /\ serving = "starting"
      /\ \A fd \in Fd : connections[fd] = NoConn
  BY DEF Descriptor, Accepted
<1>2. PoolIdle
  BY <1>1 DEF PoolIdle
<1>3. \A fd \in Descriptor : ~HasEvent(events[Base], fd)
  BY <1>1 DEF HasEvent
<1>4. BaseServes
  <2>1. DOMAIN events[Base] = Descriptor
    BY DEF Descriptor
  <2>2. Registered(events[Base]) = {}
    BY <1>3, <2>1 DEF Registered
  <2>3. Cardinality(Registered(events[Base])) = 0
    BY <2>2, FS_EmptySet
  <2>4. ~HasEvent(events[Base], AcceptFd)
    BY <1>3 DEF Descriptor
  <2>5. \A fd \in Descriptor : events[Base][fd] # NullEntry
    BY <1>1, EntryAssumption
  <2>6. fdnums[Base] = 1 + Cardinality(Registered(events[Base]))
    BY <1>1, <2>3
  <2> HIDE DEF Init, PoolInit
  <2> QED
    BY <1>1, <2>4, <2>5, <2>6 DEF BaseServes
<1>5. ConnInv
  BY <1>1, <1>3 DEF ConnInv, PolledAccepted, OpenMapped, MappedOpen, TasksDestroy, ConnPlaced, Descriptor
<1> QED
  BY <1>2, <1>4, <1>5 DEF ServerInv

LEMMA BaseRuns ==
  ASSUME Types, StartInv, ServerInv, phase[Base] \in {"poll", "events", "tasks"}
  PROVE  serving = "serving" /\ startPc = "started" /\ ConnInv /\ Started
<1>1. startPc = "started" /\ Started
  BY DEF StartInv, Starting
<1>2. serving # "destroyed"
  BY DEF ServerInv, BaseServes
<1>3. serving = "serving"
  BY <1>1, <1>2 DEF Started, Types, ConnTyped
<1> QED
  BY <1>1, <1>3 DEF ServerInv

\* fdnums_ goes with the table.
LEMMA RegisteredCount ==
  ASSUME NEW T \in Table, NEW U \in Table, NEW fd \in Descriptor,
         \A x \in Descriptor : x # fd => U[x] = T[x]
  PROVE  /\ Cardinality(Registered(T)) \in Nat
         /\ HasEvent(U, fd) /\ ~HasEvent(T, fd) =>
              Cardinality(Registered(U)) = Cardinality(Registered(T)) + 1
         /\ ~HasEvent(U, fd) /\ HasEvent(T, fd) =>
              Cardinality(Registered(U)) = Cardinality(Registered(T)) - 1
         /\ (HasEvent(U, fd) <=> HasEvent(T, fd)) => Registered(U) = Registered(T)
         /\ HasEvent(T, fd) => Cardinality(Registered(T)) > 0
<1>1. IsFiniteSet(Descriptor)
  BY FdAssumption, FS_AddElement DEF Descriptor
<1>2. Registered(T) \subseteq Descriptor /\ (fd \in Registered(T) <=> HasEvent(T, fd))
  BY DEF Registered, Table
<1>3. IsFiniteSet(Registered(T)) /\ Cardinality(Registered(T)) \in Nat
  BY <1>1, <1>2, FS_Subset, FS_CardinalityType
<1>4. Registered(U) = IF HasEvent(U, fd) THEN Registered(T) \cup {fd} ELSE Registered(T) \ {fd}
  BY DEF Registered, HasEvent, Table
<1>5. HasEvent(T, fd) => Cardinality(Registered(T)) > 0
  BY <1>2, <1>3, FS_EmptySet
<1>6. HasEvent(U, fd) /\ ~HasEvent(T, fd) => Cardinality(Registered(U)) = Cardinality(Registered(T)) + 1
  BY <1>2, <1>3, <1>4, FS_AddElement
<1>7. ~HasEvent(U, fd) /\ HasEvent(T, fd) => Cardinality(Registered(U)) = Cardinality(Registered(T)) - 1
  BY <1>2, <1>3, <1>4, FS_RemoveElement
<1>8. (HasEvent(U, fd) <=> HasEvent(T, fd)) => Registered(U) = Registered(T)
  BY <1>2, <1>4
<1> QED
  BY <1>3, <1>5, <1>6, <1>7, <1>8

\* getNextEvent gives the base loop.
LEMMA BaseComesFirst ==
  ASSUME Types, StartInv, ServerInv, serving = "serving", startPc = "started",
         NEW q \in NextLoops(fdnums)
  PROVE  q[1] = Base
<1> USE LoopFacts
<1>1. Started /\ PoolIdle /\ BaseServes
  BY DEF StartInv, ServerInv
<1>2. CASE q = loops
  BY <1>1, <1>2 DEF BaseServes
<1>3. CASE q \in Orders(loops) /\ Sorted(q, fdnums)
  <2>1. Len(q) = NumLoops /\ Len(loops) = NumLoops
    BY <1>1, <1>3, OrdersAreSequences DEF Started, Types, PoolTyped
  <2>2. q \in [1..NumLoops -> Loop]
    <3>1. {loops[i] : i \in 1..Len(loops)} \subseteq Loop
      BY <1>1 DEF Started
    <3> QED
      BY <1>3, <2>1, <3>1 DEF Orders
  <2>3. \A i, j \in 1..NumLoops : q[i] = q[j] => i = j
    BY <1>3, <2>1 DEF Orders
  <2>4. q \in Injection(1..NumLoops, Loop)
    BY <2>2, <2>3 DEF Injection, IsInjective
  <2>5. IsFiniteSet(Loop) /\ Cardinality(Loop) = NumLoops /\ Cardinality(1..NumLoops) = NumLoops
    <3>1. NumLoops - 1 \in Int /\ 0 \in Int /\ 1 \in Int /\ NumLoops \in Nat \ {0}
      OBVIOUS
    <3>2. IsFiniteSet(0..(NumLoops - 1)) /\ Cardinality(0..(NumLoops - 1)) = (NumLoops - 1) - 0 + 1
      BY <3>1, FS_Interval
    <3>3. Cardinality(1..NumLoops) = NumLoops - 1 + 1
      BY <3>1, FS_Interval
    <3> QED
      BY <3>1, <3>2, <3>3 DEF Loop
  <2>6. q \in Surjection(1..NumLoops, Loop)
    BY <2>4, <2>5, FS_Injection
  <2>7. PICK j \in 1..NumLoops : q[j] = Base
    BY <2>6 DEF Surjection
  <2>8. fdnums[Base] >= 2
    <3>1. HasEvent(events[Base], AcceptFd) /\ events[Base] \in Table /\ AcceptFd \in Descriptor
      BY <1>1 DEF BaseServes, Types, LoopTyped, Descriptor
    <3>2. Cardinality(Registered(events[Base])) > 0 /\ Cardinality(Registered(events[Base])) \in Nat
      BY <3>1, RegisteredCount
    <3> QED
      BY <1>1, <3>2 DEF BaseServes
  <2>9. ASSUME q[1] # Base PROVE FALSE
    <3>1. 1 \in 1..NumLoops /\ 1 < j /\ q[1] \in PoolLoop
      BY <2>2, <2>7, <2>9 DEF PoolLoop
    <3>2. fdnums[q[1]] >= fdnums[Base]
      BY <1>3, <2>1, <2>7, <3>1 DEF Sorted
    <3>3. fdnums[q[1]] = 1
      BY <1>1, <3>1 DEF PoolIdle
    <3>4. fdnums[Base] \in Int
      BY DEF Types, LoopTyped
    <3> QED
      BY <2>8, <3>2, <3>3, <3>4
  <2> QED
    BY <2>9
<1> QED
  BY <1>2, <1>3 DEF NextLoops

\* Most steps move neither connections nor tables.
LEMMA NothingMoves ==
  ASSUME Types, ServerInv, loops'[1] = loops[1],
         UNCHANGED <<serving, connVars, closed, events, fdnums, tasks>>,
         \A l \in Loop : ready'[l] \subseteq ready[l],
         serving = "destroyed" => phase'[Base] = "exited"
  PROVE  ServerInv'
<1> USE LoopFacts DEF ServerInv, connVars
<1>1. PoolIdle'
  BY DEF PoolIdle
<1>2. BaseServes'
  BY DEF BaseServes
<1>3. ConnInv => ConnInv'
  <2> SUFFICES ASSUME ConnInv PROVE ConnInv'
    OBVIOUS
  <2> USE DEF ConnInv
  <2>1. PolledAccepted'
    BY DEF PolledAccepted, DestroyQueued, Accepted
  <2>2. OpenMapped' /\ MappedOpen'
    BY DEF OpenMapped, MappedOpen, Polled, Accepted
  <2>3. TasksDestroy' /\ ConnPlaced'
    BY DEF TasksDestroy, ConnPlaced, Polled, Accepted
  <2> QED
    BY <2>1, <2>2, <2>3
<1> QED
  BY <1>1, <1>2, <1>3

\* A step on the base loop, seen from the others.
LEMMA OthersIdle ==
  ASSUME PoolIdle, \A l \in PoolLoop : /\ events'[l] = events[l] /\ fdnums'[l] = fdnums[l]
                                       /\ ready'[l] = ready[l] /\ tasks'[l] = tasks[l]
  PROVE  PoolIdle'
BY DEF PoolIdle

LEMMA ListenServes == Types /\ StartInv /\ ServerInv /\ Listen => ServerInv'
<1> SUFFICES ASSUME Types, StartInv, ServerInv, Listen PROVE ServerInv'
  OBVIOUS
<1> USE LoopFacts
<1>1. /\ PoolIdle /\ BaseServes /\ ConnInv /\ loops[1] = Base /\ serving = "starting" /\ serving' = "serving"
      /\ UNCHANGED <<loops, connVars, closed, ready, tasks>>
  BY DEF ServerInv, BaseServes, Listen
<1>2. /\ Register(Base, AcceptFd, Acceptor) /\ AcceptFd \in Descriptor /\ AcceptFd \notin Fd
      /\ events \in [Loop -> Table] /\ fdnums \in [Loop -> Int]
  BY <1>1, FdAssumption DEF Listen, AcceptorListens, Descriptor, Types, LoopTyped
<1>3. /\ events'[Base] \in Table /\ \A l \in PoolLoop : events'[l] = events[l]
      /\ events'[Base] = [events[Base] EXCEPT ![AcceptFd] = [handler |-> Acceptor, interest |-> {"kRead"}]]
      /\ fdnums' = [fdnums EXCEPT ![Base] = fdnums[Base] + 1]
  BY <1>2, RegisterTable DEF TableChanges
<1>4. /\ events'[Base][AcceptFd] = [handler |-> Acceptor, interest |-> {"kRead"}]
      /\ \A x \in Descriptor : x # AcceptFd => events'[Base][x] = events[Base][x]
  BY <1>2, <1>3 DEF Table
<1>5. events'[Base][AcceptFd] \in Entry /\ events'[Base][AcceptFd].handler = Acceptor
  BY <1>4 DEF Entry
<1>6. HasEvent(events'[Base], AcceptFd) /\ ~HasEvent(events[Base], AcceptFd) /\ events'[Base][AcceptFd] # NullEntry
  BY <1>1, <1>2, <1>3, <1>5, TableEntries DEF BaseServes, HasEvent
<1>7. fdnums'[Base] = 1 + Cardinality(Registered(events'[Base]))
  <2>1. events[Base] \in Table
    BY <1>2
  <2>2. Cardinality(Registered(events'[Base])) = Cardinality(Registered(events[Base])) + 1
        /\ Cardinality(Registered(events[Base])) \in Nat
    BY <1>2, <1>3, <1>4, <1>6, <2>1, RegisteredCount
  <2> QED
    BY <1>1, <1>2, <1>3, <2>2 DEF BaseServes
<1>8. BaseServes'
  BY <1>1, <1>4, <1>5, <1>6, <1>7 DEF BaseServes
<1>9. PoolIdle'
  BY <1>1, <1>2, <1>3, OthersIdle
<1>10. \A fd \in Fd : events'[Base][fd] = events[Base][fd]
  BY <1>2, <1>4 DEF Descriptor
<1>11. ConnInv'
  <2>1. \A fd \in Fd : HasEvent(events'[Base], fd) <=> HasEvent(events[Base], fd)
    BY <1>10 DEF HasEvent
  <2>2. Accepted' = Accepted /\ UNCHANGED <<connections, connFd, connLoop, closed, ready, tasks>>
    BY <1>1 DEF Accepted, connVars
  <2>3. \A c \in Accepted : Polled(c)' <=> Polled(c)
    BY <1>1, <1>10, <2>1, <2>2 DEF Polled, ConnInv, ConnPlaced
  <2>4. PolledAccepted'
    <3>1. \A c : DestroyQueued(c) => DestroyQueued(c)'
      BY <2>2 DEF DestroyQueued
    <3> QED
      BY <1>1, <1>10, <2>1, <2>2, <3>1 DEF ConnInv, PolledAccepted
  <2>5. OpenMapped'
    BY <1>1, <2>2, <2>3 DEF ConnInv, OpenMapped
  <2>6. MappedOpen' /\ ConnPlaced'
    BY <1>1, <2>2 DEF ConnInv, MappedOpen, ConnPlaced
  <2>7. TasksDestroy'
    BY <1>1, <2>2, <2>3 DEF ConnInv, TasksDestroy, ConnPlaced
  <2> QED
    BY <2>4, <2>5, <2>6, <2>7 DEF ConnInv
<1> QED
  BY <1>8, <1>9, <1>11 DEF ServerInv

\* What a wait() collects: the Acceptor and connections that are open.
LEMMA PollServes ==
  ASSUME Types, StartInv, ServerInv, NEW l \in Loop, Poll(l)
  PROVE  ServerInv'
<1> USE LoopFacts
<1>1. /\ PoolIdle /\ BaseServes /\ UNCHANGED <<loops, serving, connVars, closed, events, fdnums, tasks>>
      /\ ready \in [Loop -> SUBSET (Conn \cup {Acceptor})]
      /\ phase \in [Loop -> {"off", "poll", "events", "tasks", "exited"}]
      /\ phase[l] = "poll" /\ phase' = [phase EXCEPT ![l] = "events"]
  BY DEF ServerInv, Poll, poolVars, Types, LoopTyped
<1>2. PICK R \in SUBSET {fd \in Fd \cup {AcceptFd} : Interest(events[l], fd) # {}} :
             ready' = [ready EXCEPT ![l] = {events[l][fd].handler : fd \in R}]
  BY DEF Poll
<1>3. ASSUME l = Base PROVE serving = "serving" /\ ConnInv
  BY <1>1, <1>3, BaseRuns
<1>4. ASSUME l = Base PROVE ready'[Base] \subseteq {Acceptor} \cup (Accepted \ closed)
  <2> SUFFICES ASSUME NEW fd \in R PROVE events[Base][fd].handler \in {Acceptor} \cup (Accepted \ closed)
    BY <1>1, <1>2, <1>4
  <2>1. HasEvent(events[Base], fd) /\ events[Base][fd].interest # {} /\ fd \in Fd \cup {AcceptFd}
    BY <1>2, <1>4 DEF Interest
  <2>2. CASE fd = AcceptFd
    BY <1>1, <1>3, <1>4, <2>2 DEF BaseServes
  <2>3. CASE fd \in Fd
    BY <1>3, <1>4, <2>1, <2>3 DEF ConnInv, PolledAccepted
  <2> QED
    BY <2>1, <2>2, <2>3
<1>5. ASSUME l # Base PROVE R = {} /\ ready'[Base] = ready[Base]
  <2>1. \A fd \in Descriptor : events[l][fd] = NoEntry
    BY <1>1, <1>5 DEF PoolIdle, PoolLoop
  <2>2. R = {}
    BY <1>2, <2>1 DEF Descriptor, Interest, HasEvent
  <2> QED
    BY <1>1, <1>2, <1>5, <2>2
<1>6. PoolIdle'
  <2> SUFFICES ASSUME NEW m \in PoolLoop PROVE ready'[m] = {}
    BY <1>1 DEF PoolIdle
  <2>1. CASE m = l
    BY <1>1, <1>2, <1>5, <2>1
  <2>2. CASE m # l
    BY <1>1, <1>2, <2>2 DEF PoolIdle
  <2> QED
    BY <2>1, <2>2
<1>7. BaseServes'
  <2>1. serving = "destroyed" => phase'[Base] = "exited"
    BY <1>1 DEF BaseServes
  <2> QED
    BY <1>1, <2>1 DEF BaseServes
<1>8. ASSUME ConnInv PROVE ConnInv'
  <2>1. UNCHANGED <<nextConnId, connections, connFd, connLoop, closed, events, tasks>> /\ Accepted' = Accepted
    BY <1>1 DEF connVars, Accepted
  <2>2. PolledAccepted'
    BY <1>8, <2>1 DEF ConnInv, PolledAccepted, DestroyQueued
  <2>3. OpenMapped' /\ MappedOpen'
    BY <1>8, <2>1 DEF ConnInv, OpenMapped, MappedOpen, Polled
  <2>4. TasksDestroy'
    BY <1>8, <2>1 DEF ConnInv, TasksDestroy, Polled
  <2>5. ConnPlaced'
    BY <1>4, <1>5, <1>8, <2>1 DEF ConnInv, ConnPlaced
  <2> QED
    BY <2>2, <2>3, <2>4, <2>5 DEF ConnInv
<1> QED
  BY <1>1, <1>6, <1>7, <1>8 DEF ServerInv

LEMMA DestroyServes == Types /\ StartInv /\ ServerInv /\ DestroyServer => ServerInv'
<1> SUFFICES ASSUME Types, StartInv, ServerInv, DestroyServer PROVE ServerInv'
  OBVIOUS
<1> USE LoopFacts
<1>1. /\ PoolIdle /\ BaseServes /\ serving = "serving" /\ serving' = "destroyed" /\ phase[Base] = "exited"
      /\ UNCHANGED <<loops, phase, ready, tasks>>
  BY DEF ServerInv, DestroyServer, loopVars
<1>2. /\ Unregister(Base, AcceptFd) /\ AcceptFd \in Descriptor
      /\ events \in [Loop -> Table] /\ fdnums \in [Loop -> Int] /\ HasEvent(events[Base], AcceptFd)
  BY <1>1 DEF DestroyServer, AcceptorGoes, Descriptor, Types, LoopTyped, BaseServes
<1>3. /\ events'[Base] \in Table /\ \A l \in PoolLoop : events'[l] = events[l]
      /\ events'[Base] = [events[Base] EXCEPT ![AcceptFd] = NoEntry]
      /\ fdnums' = [fdnums EXCEPT ![Base] = fdnums[Base] - 1]
  BY <1>2, UnregisterTable DEF TableChanges
<1>4. /\ events'[Base][AcceptFd] = NoEntry /\ ~HasEvent(events'[Base], AcceptFd)
      /\ \A x \in Descriptor : x # AcceptFd => events'[Base][x] = events[Base][x]
  BY <1>2, <1>3 DEF Table, HasEvent
<1>5. fdnums'[Base] = 1 + Cardinality(Registered(events'[Base]))
  <2>1. events[Base] \in Table
    BY <1>2
  <2>2. Cardinality(Registered(events'[Base])) = Cardinality(Registered(events[Base])) - 1
        /\ Cardinality(Registered(events[Base])) \in Nat
    BY <1>2, <1>3, <1>4, <2>1, RegisteredCount
  <2> QED
    BY <1>1, <1>2, <1>3, <2>2 DEF BaseServes
<1>6. BaseServes'
  BY <1>1, <1>4, <1>5, EntryAssumption DEF BaseServes
<1>7. PoolIdle'
  BY <1>1, <1>2, <1>3, OthersIdle
<1> QED
  BY <1>1, <1>6, <1>7 DEF ServerInv

\* A descriptor that accept(2) may give is in no table and in no map.
LEMMA FreeDescriptor ==
  ASSUME Types, ServerInv, ConnInv, NEW fd \in Fd, ~InUse(fd)
  PROVE  /\ ~HasEvent(events[Base], fd) /\ connections[fd] = NoConn
         /\ \A d \in Accepted \ closed : connFd[d] # fd
         /\ \A i \in 1..Len(tasks[Base]) : connFd[tasks[Base][i][2]] # fd
<1> USE LoopFacts
<1>1. /\ Accepted \subseteq Conn /\ closed \subseteq Conn
      /\ \A i \in 1..Len(tasks[Base]) : tasks[Base][i][2] \in closed
  BY FdAssumption DEF Types, ConnTyped, Accepted, Conn, ConnInv, TasksDestroy
<1>2. \A c \in Conn : connFd[c] = fd => ~Referenced(c)
  BY DEF InUse
<1>3. \A i \in 1..Len(tasks[Base]) : connFd[tasks[Base][i][2]] # fd
  BY <1>1, <1>2 DEF Referenced
<1>4. \A d \in Accepted \ closed : connFd[d] # fd
  <2> SUFFICES ASSUME NEW d \in Accepted \ closed, connFd[d] = fd PROVE FALSE
    OBVIOUS
  <2>1. connections[fd] = d
    BY DEF ConnInv, OpenMapped
  <2> QED
    BY <1>1, <1>2, <2>1 DEF Referenced
<1>5. connections[fd] = NoConn
  BY <1>4 DEF ConnInv, MappedOpen
<1>6. ~HasEvent(events[Base], fd)
  <2> SUFFICES ASSUME HasEvent(events[Base], fd) PROVE FALSE
    OBVIOUS
  <2> DEFINE c == events[Base][fd].handler
  <2>1. c \in Accepted /\ connFd[c] = fd /\ (c \in closed => DestroyQueued(c))
    BY DEF ConnInv, PolledAccepted
  <2> HIDE DEF c
  <2>2. c \in closed
    BY <1>4, <2>1
  <2>3. PICK i \in 1..Len(tasks[Base]) : tasks[Base][i] = <<"connectDestroyed", c>>
    BY <2>1, <2>2 DEF DestroyQueued
  <2> QED
    BY <1>3, <2>1, <2>3
<1> QED
  BY <1>3, <1>4, <1>5, <1>6

LEMMA AcceptServes ==
  ASSUME Types, StartInv, ServerInv, Accept, NEW fd \in Fd, ~InUse(fd),
         nextConnId < MaxConns, NewConnection(nextConnId, fd)
  PROVE  ServerInv'
<1> USE LoopFacts
<1>0. PICK c \in Conn : c = nextConnId
  BY FdAssumption DEF Types, ConnTyped, Conn
<1> DEFINE entry == [handler |-> c, interest |-> {"kRead"}]
<1>1. serving = "serving" /\ startPc = "started" /\ ConnInv
  BY BaseRuns DEF Accept
<1>2. loops'[1] = Base
  BY <1>1, BaseComesFirst DEF NewConnection
<1>3. /\ PoolIdle /\ BaseServes /\ c \in Conn /\ c \in Nat /\ c \notin closed
      /\ Accepted' = Accepted \cup {c} /\ c \notin Accepted /\ Accepted \subseteq Conn
  BY <1>0, <1>1, FdAssumption
  DEF ServerInv, Types, ConnTyped, Conn, Accepted, NewConnection, ConnInv, ConnPlaced
<1>4. /\ events \in [Loop -> Table] /\ fdnums \in [Loop -> Int] /\ fd \in Descriptor /\ fd # AcceptFd
      /\ ready \in [Loop -> SUBSET (Conn \cup {Acceptor})]
      /\ connections \in [Fd -> Conn \cup {NoConn}] /\ connFd \in [Conn -> Descriptor]
      /\ connLoop \in [Conn -> Loop \cup {NoLoop}] /\ events[Base] \in Table
  BY FdAssumption DEF Types, ConnTyped, LoopTyped, Descriptor
<1>5. /\ Register(Base, fd, c) /\ UNCHANGED <<tasks, serving, closed, phase>>
      /\ ready' = [ready EXCEPT ![Base] = @ \ {Acceptor}]
      /\ connections' = [connections EXCEPT ![fd] = c]
      /\ connFd' = [connFd EXCEPT ![c] = fd] /\ connLoop' = [connLoop EXCEPT ![c] = Base]
  BY <1>0, <1>2 DEF Accept, NewConnection
<1>6. /\ events'[Base] \in Table /\ \A l \in PoolLoop : events'[l] = events[l]
      /\ events'[Base] = [events[Base] EXCEPT ![fd] = entry]
      /\ fdnums' = [fdnums EXCEPT ![Base] = fdnums[Base] + 1]
  <2>1. c \in Conn \cup {Acceptor}
    BY <1>3
  <2>2. /\ TableChanges(Base) /\ fdnums' = [fdnums EXCEPT ![Base] = fdnums[Base] + 1]
        /\ events'[Base] = [events[Base] EXCEPT ![fd] = [handler |-> c, interest |-> {"kRead"}]]
    BY <1>4, <1>5, <2>1, RegisterTable
  <2>3. events'[Base] \in Table /\ \A l \in PoolLoop : events'[l] = events[l]
    BY <1>4, <2>2 DEF TableChanges
  <2> QED
    BY <2>2, <2>3
<1>7. /\ entry \in Entry /\ entry.handler = c /\ events'[Base][fd] = entry
      /\ \A x \in Descriptor : x # fd => events'[Base][x] = events[Base][x]
  <2>1. entry \in Entry /\ entry.handler = c
    BY <1>3 DEF Entry
  <2> HIDE DEF entry
  <2> QED
    BY <1>4, <1>6, <2>1 DEF Table
<1> HIDE DEF entry
<1>8. /\ ~HasEvent(events[Base], fd) /\ connections[fd] = NoConn
      /\ \A d \in Accepted \ closed : connFd[d] # fd
      /\ \A i \in 1..Len(tasks[Base]) : connFd[tasks[Base][i][2]] # fd
  BY <1>1, FreeDescriptor
<1>9. /\ HasEvent(events'[Base], fd) /\ events'[Base][fd] # NullEntry
      /\ \A x \in Descriptor : x # fd => (HasEvent(events'[Base], x) <=> HasEvent(events[Base], x))
  BY <1>4, <1>6, <1>7, TableEntries DEF HasEvent
<1>10. PoolIdle'
  BY <1>3, <1>4, <1>5, <1>6, OthersIdle
<1>11. BaseServes'
  <2>1. Cardinality(Registered(events'[Base])) = Cardinality(Registered(events[Base])) + 1
        /\ Cardinality(Registered(events[Base])) \in Nat
    BY <1>4, <1>6, <1>7, <1>8, <1>9, RegisteredCount
  <2>2. fdnums'[Base] = 1 + Cardinality(Registered(events'[Base]))
    BY <1>3, <1>4, <1>6, <2>1 DEF BaseServes
  <2>3. AcceptFd \in Descriptor
    BY DEF Descriptor
  <2>4. \A x \in Descriptor : events'[Base][x] # NullEntry
    BY <1>3, <1>7, <1>9 DEF BaseServes
  <2> QED
    BY <1>1, <1>2, <1>3, <1>4, <1>5, <1>7, <1>9, <2>2, <2>3, <2>4 DEF BaseServes
<1>12. /\ connFd'[c] = fd /\ connLoop'[c] = Base /\ connections'[fd] = c
       /\ \A d \in Accepted : d # c /\ connFd'[d] = connFd[d] /\ connLoop'[d] = connLoop[d]
                             /\ connFd[d] \in Fd
       /\ \A x \in Fd : x # fd => connections'[x] = connections[x]
       /\ \A x \in Fd : x \in Descriptor
  BY <1>1, <1>3, <1>4, <1>5 DEF ConnInv, ConnPlaced, Descriptor
<1>13. Polled(c)' /\ \A d \in Accepted : connFd[d] # fd => (Polled(d)' <=> Polled(d))
  <2>1. Polled(c)'
    BY <1>7, <1>9, <1>12 DEF Polled
  <2>2. ASSUME NEW d \in Accepted, connFd[d] # fd PROVE Polled(d)' <=> Polled(d)
    <3>1. connFd'[d] = connFd[d] /\ connFd[d] \in Descriptor
      BY <1>12
    <3>2. events'[Base][connFd[d]] = events[Base][connFd[d]]
      BY <1>7, <2>2, <3>1
    <3> QED
      BY <3>1, <3>2 DEF Polled, HasEvent
  <2> QED
    BY <2>1, <2>2
<1>14. PolledAccepted'
  <2> SUFFICES ASSUME NEW x \in Fd, HasEvent(events'[Base], x), NEW d, d = events'[Base][x].handler
               PROVE  /\ d \in Accepted' /\ connFd'[d] = x
                      /\ d \in closed => events'[Base][x].interest = {} /\ DestroyQueued(d)
    BY <1>5 DEF PolledAccepted, DestroyQueued
  <2>1. CASE x = fd
    BY <1>3, <1>7, <1>12, <2>1
  <2>2. CASE x # fd
    <3>1. HasEvent(events[Base], x) /\ events'[Base][x] = events[Base][x]
      BY <1>7, <1>9, <1>12, <2>2
    <3>2. d \in Accepted /\ connFd[d] = x /\ (d \in closed => events[Base][x].interest = {} /\ DestroyQueued(d))
      BY <1>1, <3>1 DEF ConnInv, PolledAccepted
    <3> QED
      BY <1>3, <1>12, <3>1, <3>2
  <2> QED
    BY <2>1, <2>2
<1>15. OpenMapped' /\ MappedOpen'
  <2>1. OpenMapped'
    <3> SUFFICES ASSUME NEW d \in Accepted' \ closed PROVE connections'[connFd'[d]] = d /\ Polled(d)'
      BY <1>5 DEF OpenMapped
    <3>1. CASE d = c
      BY <1>12, <1>13, <3>1
    <3>2. CASE d # c
      <4>1. d \in Accepted \ closed /\ connections[connFd[d]] = d /\ Polled(d)
        BY <1>1, <1>3, <3>2 DEF ConnInv, OpenMapped
      <4> QED
        BY <1>8, <1>12, <1>13, <4>1
    <3> QED
      BY <3>1, <3>2
  <2>2. MappedOpen'
    <3> SUFFICES ASSUME NEW x \in Fd, connections'[x] # NoConn
                 PROVE  connections'[x] \in Accepted' \ closed /\ connFd'[connections'[x]] = x
      BY <1>5 DEF MappedOpen
    <3>1. CASE x = fd
      BY <1>3, <1>12, <3>1
    <3>2. CASE x # fd
      <4> DEFINE y == connections[x]
      <4>1. connections'[x] = y /\ y # NoConn
        BY <1>12, <3>2
      <4>2. y \in Accepted \ closed /\ connFd[y] = x
        BY <1>1, <4>1 DEF ConnInv, MappedOpen
      <4> HIDE DEF y
      <4>3. connFd'[y] = connFd[y] /\ y \in Accepted'
        BY <1>3, <1>12, <4>2
      <4> QED
        BY <4>1, <4>2, <4>3
    <3> QED
      BY <3>1, <3>2
  <2> QED
    BY <2>1, <2>2
<1>16. TasksDestroy'
  <2>1. \A i \in 1..Len(tasks[Base]) : tasks[Base][i][2] \in Accepted
    BY <1>1 DEF ConnInv, TasksDestroy, ConnPlaced
  <2> QED
    BY <1>1, <1>5, <1>8, <1>13, <2>1 DEF ConnInv, TasksDestroy
<1>17. ConnPlaced'
  BY <1>1, <1>3, <1>4, <1>5, <1>12 DEF ConnInv, ConnPlaced
<1> QED
  BY <1>10, <1>11, <1>14, <1>15, <1>16, <1>17 DEF ServerInv, ConnInv

\* handleClose on the base loop: the connection leaves the map, stays in the
\* table without interest, and its connectDestroyed is queued.
LEMMA CloseServes ==
  ASSUME Types, StartInv, ServerInv, NEW c \in Conn, HandleRead(Base, c), HandleClose(Base, c)
  PROVE  ServerInv'
<1> USE LoopFacts
<1> DEFINE fd == connFd[c]
           task == <<"connectDestroyed", c>>
           closing == [handler |-> c, interest |-> {}]
           n == Len(tasks[Base])
<1>1. /\ serving = "serving" /\ ConnInv /\ PoolIdle /\ BaseServes /\ c \in ready[Base]
      /\ UNCHANGED <<loops, serving, nextConnId, connFd, connLoop, fdnums, phase>>
      /\ ready' = [ready EXCEPT ![Base] = @ \ {c}]
  BY BaseRuns DEF HandleRead, ServerInv, poolVars
<1>2. c \in Accepted \ closed /\ Acceptor \notin Conn
  BY <1>1, ConnAssumption DEF ConnInv, ConnPlaced
<1>3. /\ fd \in Fd /\ connLoop[c] = Base /\ connections[fd] = c /\ HasEvent(events[Base], fd)
      /\ events[Base][fd].handler = c
  BY <1>1, <1>2 DEF ConnInv, ConnPlaced, OpenMapped, Polled
<1>4. /\ events \in [Loop -> Table] /\ fd \in Descriptor /\ fd # AcceptFd /\ events[Base] \in Table
      /\ ready \in [Loop -> SUBSET (Conn \cup {Acceptor})]
      /\ connections \in [Fd -> Conn \cup {NoConn}]
      /\ tasks \in [Loop -> Seq({"completeConnect", "removeConnection", "connectDestroyed"} \X Conn)]
  BY <1>3, FdAssumption DEF Types, ConnTyped, LoopTyped, Descriptor
<1>5. /\ events' = [events EXCEPT ![Base] = AfterDeleteAllEvent(@, fd)] /\ closed' = closed \cup {c}
      /\ connections' = [connections EXCEPT ![fd] = NoConn]
      /\ tasks' = [tasks EXCEPT ![Base] = Append(tasks[Base], task)]
  BY <1>3 DEF HandleClose, RemoveConnection, RemoveConnectionInLoop, Queue
<1>6. /\ n \in Nat /\ Len(tasks'[Base]) = n + 1 /\ tasks'[Base][n + 1] = task
      /\ \A i \in 1..n : tasks'[Base][i] = tasks[Base][i]
      /\ \A l \in PoolLoop : tasks'[l] = tasks[l]
  <2>1. tasks[Base] \in Seq({"completeConnect", "removeConnection", "connectDestroyed"} \X Conn)
    BY <1>4
  <2>2. tasks'[Base] = Append(tasks[Base], task) /\ \A l \in PoolLoop : tasks'[l] = tasks[l]
    BY <1>4, <1>5
  <2> HIDE DEF task
  <2> QED
    BY <2>1, <2>2
<1> USE DEF n
<1>7. /\ events'[Base] \in Table /\ \A l \in PoolLoop : events'[l] = events[l]
      /\ events'[Base] = [events[Base] EXCEPT ![fd] = [handler |-> events[Base][fd].handler, interest |-> {}]]
  <2>1. /\ TableChanges(Base)
        /\ events'[Base] = [events[Base] EXCEPT ![fd] = [handler |-> events[Base][fd].handler, interest |-> {}]]
    <3> HIDE DEF fd
    <3> QED
      BY <1>3, <1>4, <1>5, CloseTable
  <2>2. events'[Base] \in Table /\ \A l \in PoolLoop : events'[l] = events[l]
    BY <1>4, <2>1 DEF TableChanges
  <2> QED
    BY <2>1, <2>2
<1> HIDE DEF fd
<1>8. /\ events'[Base][fd] = closing /\ closing \in Entry
      /\ \A x \in Descriptor : x # fd => events'[Base][x] = events[Base][x]
  BY <1>3, <1>4, <1>7 DEF Table, Entry
<1>9. /\ closing.handler = c /\ closing.interest = {}
      /\ HasEvent(events'[Base], fd) /\ events'[Base][fd] # NullEntry
      /\ \A x \in Descriptor : HasEvent(events'[Base], x) <=> HasEvent(events[Base], x)
  <2>1. closing.handler = c /\ closing.interest = {}
    OBVIOUS
  <2> HIDE DEF closing
  <2> QED
    BY <1>3, <1>4, <1>7, <1>8, <2>1, TableEntries DEF HasEvent
<1> HIDE DEF closing
<1>10. PoolIdle'
  BY <1>1, <1>4, <1>6, <1>7, OthersIdle
<1>11. BaseServes'
  <2>1. Registered(events'[Base]) = Registered(events[Base])
    BY <1>4, <1>7, <1>8, <1>9, RegisteredCount
  <2>2. AcceptFd \in Descriptor
    BY DEF Descriptor
  <2>3. \A x \in Descriptor : events'[Base][x] # NullEntry
    BY <1>1, <1>8, <1>9 DEF BaseServes
  <2> QED
    BY <1>1, <1>4, <1>8, <1>9, <2>1, <2>2, <2>3 DEF BaseServes
<1>12. Accepted' = Accepted /\ Fd \subseteq Descriptor
  BY <1>1 DEF Accepted, Descriptor
<1>13. \A d : connFd[d] \in Fd /\ Polled(d) => Polled(d)'
  <2> SUFFICES ASSUME NEW d, connFd[d] \in Fd, Polled(d) PROVE Polled(d)'
    OBVIOUS
  <2>1. CASE connFd[d] = fd
    BY <1>1, <1>3, <1>8, <1>9, <2>1 DEF Polled
  <2>2. CASE connFd[d] # fd
    BY <1>1, <1>8, <1>9, <1>12, <2>2 DEF Polled
  <2> QED
    BY <2>1, <2>2
<1>14. \A d : DestroyQueued(d) \/ d = c => DestroyQueued(d)'
  <2>1. n + 1 \in 1..Len(tasks'[Base]) /\ 1..n \subseteq 1..Len(tasks'[Base])
    BY <1>6
  <2> QED
    BY <1>6, <2>1 DEF DestroyQueued
<1>15. PolledAccepted'
  <2> SUFFICES ASSUME NEW x \in Fd, HasEvent(events'[Base], x), NEW d, d = events'[Base][x].handler
               PROVE  /\ d \in Accepted /\ connFd[d] = x
                      /\ d \in closed' => events'[Base][x].interest = {} /\ DestroyQueued(d)'
    BY <1>1, <1>12 DEF PolledAccepted
  <2>1. CASE x = fd
    BY <1>2, <1>8, <1>9, <1>14, <2>1 DEF fd
  <2>2. CASE x # fd
    <3>1. HasEvent(events[Base], x) /\ events'[Base][x] = events[Base][x]
      BY <1>8, <1>9, <1>12, <2>2
    <3>2. d \in Accepted /\ connFd[d] = x /\ (d \in closed => events[Base][x].interest = {} /\ DestroyQueued(d))
      BY <1>1, <3>1 DEF ConnInv, PolledAccepted
    <3>3. d # c
      BY <2>2, <3>2 DEF fd
    <3> QED
      BY <1>5, <1>14, <3>1, <3>2, <3>3
  <2> QED
    BY <2>1, <2>2
<1>16. OpenMapped'
  <2> SUFFICES ASSUME NEW d \in Accepted \ closed' PROVE connections'[connFd[d]] = d /\ Polled(d)'
    BY <1>1, <1>12 DEF OpenMapped
  <2>1. d \in Accepted \ closed /\ d # c /\ connFd[d] \in Fd
    BY <1>1, <1>5 DEF ConnInv, ConnPlaced
  <2>2. connections[connFd[d]] = d /\ Polled(d)
    BY <1>1, <2>1 DEF ConnInv, OpenMapped
  <2>3. connFd[d] # fd
    BY <1>3, <2>1, <2>2
  <2> QED
    BY <1>4, <1>5, <1>13, <2>1, <2>2, <2>3
<1>17. MappedOpen'
  <2> SUFFICES ASSUME NEW x \in Fd, connections'[x] # NoConn
               PROVE  connections'[x] \in Accepted \ closed' /\ connFd[connections'[x]] = x
    BY <1>1, <1>12 DEF MappedOpen
  <2>1. x # fd /\ connections'[x] = connections[x]
    BY <1>4, <1>5
  <2>2. connections[x] \in Accepted \ closed /\ connFd[connections[x]] = x
    BY <1>1, <2>1 DEF ConnInv, MappedOpen
  <2>3. connections[x] # c
    BY <2>1, <2>2 DEF fd
  <2> QED
    BY <1>5, <2>1, <2>2, <2>3
<1>18. TasksDestroy'
  <2>1. \A i \in 1..n : /\ tasks[Base][i][1] = "connectDestroyed"
                        /\ tasks[Base][i][2] \in closed /\ Polled(tasks[Base][i][2])
    BY <1>1 DEF ConnInv, TasksDestroy
  <2>2. \A i \in 1..n : connFd[tasks[Base][i][2]] \in Fd /\ tasks[Base][i][2] # c
    BY <1>1, <1>2, <2>1 DEF ConnInv, ConnPlaced
  <2>3. task[1] = "connectDestroyed" /\ task[2] = c /\ Polled(c)'
    BY <1>1, <1>3, <1>8, <1>9 DEF Polled, fd
  <2> HIDE DEF task, n
  <2>4. \A i \in 1..(n + 1) : i = n + 1 \/ i \in 1..n
    BY <1>6
  <2>5. ASSUME NEW i \in 1..(n + 1), NEW d, d = tasks'[Base][i][2]
        PROVE  /\ tasks'[Base][i][1] = "connectDestroyed" /\ d \in closed'
               /\ HasEvent(events'[Base], connFd'[d]) /\ events'[Base][connFd'[d]].handler = d
    <3>1. tasks'[Base][i][1] = "connectDestroyed" /\ d \in closed' /\ Polled(d)'
      <4>1. CASE i = n + 1
        BY <1>5, <1>6, <2>3, <2>5, <4>1
      <4>2. CASE i \in 1..n
        BY <1>5, <1>6, <1>13, <2>1, <2>2, <2>5, <4>2
      <4> QED
        BY <2>4, <4>1, <4>2
    <3> QED
      BY <3>1 DEF Polled
  <2>6. \A i, j \in 1..n : tasks[Base][i][2] = tasks[Base][j][2] => i = j
    BY <1>1 DEF ConnInv, TasksDestroy, n
  <2>7. \A i, j \in 1..(n + 1) : tasks'[Base][i][2] = tasks'[Base][j][2] => i = j
    BY <1>6, <2>2, <2>3, <2>4, <2>6
  <2> QED
    BY <1>6, <2>5, <2>7 DEF TasksDestroy, Polled
<1>19. ConnPlaced'
  BY <1>1, <1>2, <1>4, <1>5, <1>12 DEF ConnInv, ConnPlaced
<1> QED
  BY <1>1, <1>10, <1>11, <1>15, <1>16, <1>17, <1>18, <1>19 DEF ServerInv, ConnInv

\* connectDestroyed: the entry goes, and with the task the last use of the
\* descriptor that is not a user's.
LEMMA TaskServes ==
  ASSUME Types, StartInv, ServerInv, RunTask(Base)
  PROVE  ServerInv'
<1> USE LoopFacts
<1> DEFINE Task == {"completeConnect", "removeConnection", "connectDestroyed"} \X Conn
           queue == tasks[Base]
           n == Len(queue)
<1>1. /\ serving = "serving" /\ ConnInv /\ PoolIdle /\ BaseServes
      /\ UNCHANGED <<loops, serving, nextConnId, connFd, connLoop, closed, phase, ready>>
  BY BaseRuns DEF RunTask, ServerInv, poolVars
<1>2. /\ queue \in Seq(Task) /\ n \in Nat /\ n > 0 /\ tasks \in [Loop -> Seq(Task)]
  <2>1. tasks \in [Loop -> Seq(Task)] /\ batch[Base] \in Nat /\ batch[Base] <= n /\ batch[Base] > 0
    BY DEF Types, LoopTyped, BatchQueued, RunTask
  <2>2. queue \in Seq(Task)
    BY <2>1
  <2> HIDE DEF queue, Task
  <2> QED
    BY <2>1, <2>2
<1>3. PICK c : c = queue[1][2]
  OBVIOUS
<1> DEFINE fd == connFd[c]
<1>4. /\ Head(queue) = queue[1] /\ queue[1][1] = "connectDestroyed" /\ c \in closed /\ Polled(c)
  BY <1>1, <1>2, <1>3 DEF ConnInv, TasksDestroy
<1>5. c \in Accepted /\ fd \in Fd /\ HasEvent(events[Base], fd) /\ events[Base][fd].handler = c
  BY <1>1, <1>4 DEF ConnInv, ConnPlaced, Polled
<1>6. Unregister(Base, fd) /\ tasks' = [tasks EXCEPT ![Base] = Tail(@)] /\ UNCHANGED connections
  BY <1>3, <1>4 DEF RunTask
<1>7. /\ Len(tasks'[Base]) = n - 1 /\ \A i \in 1..(n - 1) : tasks'[Base][i] = queue[i + 1]
      /\ \A l \in PoolLoop : tasks'[l] = tasks[l]
  <2>1. tasks'[Base] = Tail(queue) /\ \A l \in PoolLoop : tasks'[l] = tasks[l]
    BY <1>2, <1>6
  <2> HIDE DEF queue, Task
  <2> QED
    BY <1>2, <2>1
<1>8. /\ events \in [Loop -> Table] /\ fdnums \in [Loop -> Int] /\ events[Base] \in Table
      /\ fd \in Descriptor /\ fd # AcceptFd
  BY <1>5, FdAssumption DEF Types, LoopTyped, Descriptor
<1> HIDE DEF fd, queue, Task
<1>9. /\ events'[Base] \in Table /\ \A l \in PoolLoop : events'[l] = events[l]
      /\ events'[Base] = [events[Base] EXCEPT ![fd] = NoEntry]
      /\ fdnums' = [fdnums EXCEPT ![Base] = fdnums[Base] - 1]
  <2>1. /\ TableChanges(Base) /\ events'[Base] = [events[Base] EXCEPT ![fd] = NoEntry]
        /\ fdnums' = [fdnums EXCEPT ![Base] = fdnums[Base] - 1]
    BY <1>5, <1>6, <1>8, UnregisterTable
  <2>2. events'[Base] \in Table /\ \A l \in PoolLoop : events'[l] = events[l]
    BY <1>8, <2>1 DEF TableChanges
  <2> QED
    BY <2>1, <2>2
<1>10. /\ events'[Base][fd] = NoEntry /\ ~HasEvent(events'[Base], fd)
       /\ \A x \in Descriptor : x # fd => events'[Base][x] = events[Base][x]
  BY <1>8, <1>9 DEF Table, HasEvent
<1>11. PoolIdle'
  BY <1>1, <1>7, <1>8, <1>9, OthersIdle
<1>12. BaseServes'
  <2>1. Cardinality(Registered(events'[Base])) = Cardinality(Registered(events[Base])) - 1
        /\ Cardinality(Registered(events[Base])) \in Nat
    BY <1>5, <1>8, <1>9, <1>10, RegisteredCount
  <2>2. fdnums'[Base] = 1 + Cardinality(Registered(events'[Base]))
    BY <1>1, <1>8, <1>9, <2>1 DEF BaseServes
  <2>3. AcceptFd \in Descriptor
    BY DEF Descriptor
  <2>4. \A x \in Descriptor : events'[Base][x] # NullEntry
    BY <1>1, <1>10, EntryAssumption DEF BaseServes
  <2>5. HasEvent(events'[Base], AcceptFd) <=> HasEvent(events[Base], AcceptFd)
    BY <1>8, <1>10, <2>3 DEF HasEvent
  <2> QED
    BY <1>1, <1>8, <1>10, <2>2, <2>3, <2>4, <2>5 DEF BaseServes
<1>13. Accepted' = Accepted /\ Fd \subseteq Descriptor
  BY <1>1 DEF Accepted, Descriptor
<1>14. \A d : d # c /\ connFd[d] \in Fd /\ Polled(d) => Polled(d)'
  <2> SUFFICES ASSUME NEW d, d # c, connFd[d] \in Fd, Polled(d) PROVE Polled(d)'
    OBVIOUS
  <2>1. connFd[d] # fd
    BY <1>5 DEF Polled
  <2>2. events'[Base][connFd[d]] = events[Base][connFd[d]]
    BY <1>10, <1>13, <2>1
  <2> QED
    BY <1>1, <2>2 DEF Polled, HasEvent
<1>15. \A d : d # c /\ DestroyQueued(d) => DestroyQueued(d)'
  <2> SUFFICES ASSUME NEW d, d # c, DestroyQueued(d) PROVE DestroyQueued(d)'
    OBVIOUS
  <2>1. PICK i \in 1..n : queue[i] = <<"connectDestroyed", d>>
    BY DEF DestroyQueued, queue
  <2>2. i # 1 /\ i - 1 \in 1..(n - 1)
    BY <1>2, <1>3, <2>1
  <2>3. tasks'[Base][i - 1] = <<"connectDestroyed", d>>
    BY <1>7, <2>1, <2>2
  <2> QED
    BY <1>7, <2>2, <2>3 DEF DestroyQueued
<1>16. PolledAccepted'
  <2> SUFFICES ASSUME NEW x \in Fd, HasEvent(events'[Base], x), NEW d, d = events'[Base][x].handler
               PROVE  /\ d \in Accepted /\ connFd[d] = x
                      /\ d \in closed => events'[Base][x].interest = {} /\ DestroyQueued(d)'
    BY <1>1, <1>13 DEF PolledAccepted
  <2>1. x # fd
    BY <1>10
  <2>2. events'[Base][x] = events[Base][x]
    BY <1>10, <1>13, <2>1
  <2>3. d \in Accepted /\ connFd[d] = x /\ (d \in closed => events[Base][x].interest = {} /\ DestroyQueued(d))
    BY <1>1, <2>2 DEF ConnInv, PolledAccepted, HasEvent
  <2>4. d # c
    BY <2>1, <2>3 DEF fd
  <2> QED
    BY <1>15, <2>2, <2>3, <2>4
<1>17. OpenMapped'
  <2> SUFFICES ASSUME NEW d \in Accepted \ closed PROVE connections[connFd[d]] = d /\ Polled(d)'
    BY <1>1, <1>6, <1>13 DEF OpenMapped
  <2>1. connections[connFd[d]] = d /\ Polled(d) /\ connFd[d] \in Fd /\ d # c
    BY <1>1, <1>4 DEF ConnInv, OpenMapped, ConnPlaced
  <2> QED
    BY <1>14, <2>1
<1>18. MappedOpen' /\ ConnPlaced'
  BY <1>1, <1>6, <1>13 DEF ConnInv, MappedOpen, ConnPlaced
<1>19. TasksDestroy'
  <2>1. /\ \A i \in 1..n : /\ queue[i][1] = "connectDestroyed" /\ queue[i][2] \in closed
                           /\ Polled(queue[i][2]) /\ connFd[queue[i][2]] \in Fd
        /\ \A i, j \in 1..n : queue[i][2] = queue[j][2] => i = j
    BY <1>1 DEF ConnInv, TasksDestroy, ConnPlaced, queue
  <2>2. \A i \in 1..(n - 1) : i + 1 \in 1..n /\ i + 1 # 1 /\ 1 \in 1..n
    BY <1>2
  <2>3. ASSUME NEW i \in 1..(n - 1), NEW d, d = tasks'[Base][i][2]
        PROVE  /\ tasks'[Base][i][1] = "connectDestroyed" /\ d \in closed'
               /\ HasEvent(events'[Base], connFd'[d]) /\ events'[Base][connFd'[d]].handler = d
    <3>1. tasks'[Base][i] = queue[i + 1] /\ i + 1 \in 1..n /\ d = queue[i + 1][2]
      BY <1>7, <2>2, <2>3
    <3>2. d # c
      BY <1>3, <2>1, <2>2, <3>1
    <3>3. Polled(d)'
      BY <1>14, <2>1, <3>1, <3>2
    <3> QED
      BY <1>1, <2>1, <3>1, <3>3 DEF Polled
  <2>4. \A i, j \in 1..(n - 1) : tasks'[Base][i][2] = tasks'[Base][j][2] => i = j
    <3> SUFFICES ASSUME NEW i \in 1..(n - 1), NEW j \in 1..(n - 1), queue[i + 1][2] = queue[j + 1][2] PROVE i = j
      BY <1>7
    <3>1. i + 1 = j + 1
      BY <2>1, <2>2
    <3> QED
      BY <1>2, <3>1
  <2> QED
    BY <1>7, <2>3, <2>4 DEF TasksDestroy, Polled
<1> QED
  BY <1>1, <1>11, <1>12, <1>16, <1>17, <1>18, <1>19 DEF ServerInv, ConnInv

LEMMA NextServer == Types /\ StartInv /\ ServerInv /\ [Next]_vars => ServerInv'
<1> SUFFICES ASSUME Types, StartInv, ServerInv, [Next]_vars PROVE ServerInv'
  OBVIOUS
<1> USE LoopFacts
<1>1. /\ PoolIdle /\ BaseServes /\ loops \in Seq(Loop \cup {NoLoop}) /\ Len(loops) > 0
      /\ phase \in [Loop -> {"off", "poll", "events", "tasks", "exited"}]
      /\ ready \in [Loop -> SUBSET (Conn \cup {Acceptor})]
      /\ (serving = "destroyed" => phase[Base] = "exited")
  BY DEF ServerInv, Types, PoolTyped, LoopTyped, BaseServes
<1>2. CASE StartStep /\ UNCHANGED serverVars
  <2>1. loops'[1] = loops[1]
    <3>1. loops' = loops \/ loops' = Append(loops, currentLoop)
      BY <1>2 DEF StartStep, CreateThread, SpinEnds, LatchWait, LatchWakes, StoreLoop
    <3>2. currentLoop \in Loop \cup {NoLoop}
      BY DEF Types, PoolTyped
    <3> QED
      BY <1>1, <3>1, <3>2
  <2> QED
    BY <1>1, <1>2, <2>1, NothingMoves DEF serverVars, loopVars
<1>3. CASE Listen
  BY <1>3, ListenServes
<1>4. CASE DestroyServer
  BY <1>4, DestroyServes
<1>5. CASE SetQuit
  BY <1>1, <1>5, NothingMoves DEF SetQuit, serverVars, loopVars
<1>6. CASE SpuriousWakeup /\ UNCHANGED serverVars
  BY <1>1, <1>6, NothingMoves DEF SpuriousWakeup, serverVars, loopVars
<1>7. ASSUME NEW l \in PoolLoop, ThreadStep(l), UNCHANGED serverVars PROVE ServerInv'
  BY <1>1, <1>7, NothingMoves DEF ThreadStep, EnterThread, ConstructLoop, CountDown, serverVars, loopVars
<1>8. ASSUME NEW l \in Loop, StartLoop(l) \/ RunTasks(l) \/ EndTasks(l) \/ EndLoop(l) PROVE ServerInv'
  <2>1. UNCHANGED <<loops, serving, connVars, closed, events, fdnums, tasks, ready>>
    BY <1>8 DEF StartLoop, RunTasks, EndTasks, EndLoop, poolVars, LoopReturns
  <2>2. serving = "destroyed" => phase'[Base] = "exited"
    BY <1>1, <1>8 DEF StartLoop, RunTasks, EndTasks, EndLoop
  <2> QED
    BY <2>1, <2>2, NothingMoves
<1>9. ASSUME NEW l \in Loop, Poll(l) PROVE ServerInv'
  BY <1>9, PollServes
<1>10. ASSUME NEW l \in Loop, RunTask(l) PROVE ServerInv'
  <2>1. CASE l = Base
    BY <1>10, <2>1, TaskServes
  <2>2. CASE l # Base
    <3>1. tasks[l] = <<>> /\ Len(tasks[l]) = 0
      BY <1>1, <2>2 DEF PoolIdle, PoolLoop
    <3>2. batch[l] > 0 /\ batch[l] <= Len(tasks[l]) /\ batch[l] \in Nat
      BY <1>10 DEF RunTask, Types, LoopTyped, BatchQueued
    <3> QED
      BY <3>1, <3>2
  <2> QED
    BY <2>1, <2>2
<1>11. ASSUME NEW l \in Loop, NEW c \in Conn, HandleRead(l, c) PROVE ServerInv'
  <2>1. l = Base
    BY <1>1, <1>11 DEF HandleRead, PoolIdle, PoolLoop
  <2>2. CASE HandleClose(l, c)
    BY <1>11, <2>1, <2>2, CloseServes
  <2>3. CASE Callback(c) /\ UNCHANGED <<connections, events, closed, tasks>>
    <3>1. /\ UNCHANGED <<loops, serving, connVars, closed, events, fdnums, tasks, phase>>
          /\ \A m \in Loop : ready'[m] \subseteq ready[m]
      BY <1>1, <1>11, <2>3 DEF HandleRead, poolVars, connVars
    <3> QED
      BY <1>1, <3>1, NothingMoves
  <2> QED
    BY <1>11, <2>2, <2>3 DEF HandleRead
<1>12. CASE Accept
  <2>1. CASE UNCHANGED <<loops, connVars, held, events, fdnums, tasks>>
    <3>1. /\ UNCHANGED <<serving, closed, phase>>
          /\ \A m \in Loop : ready'[m] \subseteq ready[m]
      BY <1>1, <1>12 DEF Accept
    <3> QED
      BY <1>1, <2>1, <3>1, NothingMoves
  <2>2. ASSUME NEW fd \in Fd, ~InUse(fd), nextConnId < MaxConns, NewConnection(nextConnId, fd) PROVE ServerInv'
    BY <1>12, <2>2, AcceptServes
  <2> QED
    BY <1>12, <2>1, <2>2 DEF Accept
<1>13. ASSUME NEW c \in Conn, UserDrops(c) PROVE ServerInv'
  BY <1>1, <1>13, NothingMoves DEF UserDrops, poolVars, loopVars
<1>14. CASE UNCHANGED vars
  BY <1>1, <1>14, NothingMoves DEF vars, poolVars, serverVars, loopVars
<1> QED
  BY <1>2, <1>3, <1>4, <1>5, <1>6, <1>7, <1>8, <1>9, <1>10, <1>11, <1>12, <1>13, <1>14
  DEF Next, MainStep, LoopStep

LEMMA ServerInvariant == Spec => [](Types /\ StartInv /\ ServerInv)
BY InitTypes, InitStart, InitServer, NextTypes, NextStart, NextServer, PTL DEF Spec

\* Where the raw pointers of the poll tables and of what wait() has collected
\* lead: to a connection that somebody references.
LEMMA PointersLeadSomewhere == Types /\ StartInv /\ ServerInv => NoDanglingHandler
<1> SUFFICES ASSUME Types, StartInv, ServerInv, NEW l \in Loop, Running(l)
             PROVE  /\ \A c \in ready[l] \cap Conn : Referenced(c)
                    /\ \A fd \in Fd : HasEvent(events[l], fd) =>
                         LET c == events[l][fd].handler IN Referenced(c) /\ connFd[c] = fd /\ connLoop[c] = l
  BY DEF NoDanglingHandler
<1> USE LoopFacts
<1>1. CASE l # Base
  <2>1. ready[l] = {} /\ \A fd \in Descriptor : events[l][fd] = NoEntry
    BY <1>1 DEF ServerInv, PoolIdle, PoolLoop
  <2> QED
    BY <2>1 DEF HasEvent, Descriptor
<1>2. CASE l = Base
  <2>1. ConnInv
    BY <1>2, BaseRuns DEF Running
  <2>2. \A c \in Accepted \ closed : Referenced(c)
    BY <2>1 DEF ConnInv, OpenMapped, ConnPlaced, Referenced
  <2>3. \A c \in ready[l] \cap Conn : Referenced(c)
    BY <1>2, <2>1, <2>2, ConnAssumption DEF ConnInv, ConnPlaced
  <2>4. ASSUME NEW fd \in Fd, HasEvent(events[Base], fd), NEW c, c = events[Base][fd].handler
        PROVE  Referenced(c) /\ connFd[c] = fd /\ connLoop[c] = Base
    <3>1. c \in Accepted /\ connFd[c] = fd /\ (c \in closed => DestroyQueued(c))
      BY <2>1, <2>4 DEF ConnInv, PolledAccepted
    <3>2. connLoop[c] = Base
      BY <2>1, <3>1 DEF ConnInv, ConnPlaced
    <3>3. CASE c \in closed
      BY <3>1, <3>2, <3>3 DEF DestroyQueued, Referenced
    <3>4. CASE c \notin closed
      BY <2>2, <3>1, <3>2, <3>4
    <3> QED
      BY <3>3, <3>4
  <2> QED
    BY <1>2, <2>3, <2>4
<1> QED
  BY <1>1, <1>2

\* Server.cpp:52: removeConnection leaves the entry of a closed connection in
\* the poll table and keeps the connection for it until the loop has run
\* connectDestroyed.
THEOREM HandlersNeverDangle == Spec => []NoDanglingHandler
BY ServerInvariant, PointersLeadSomewhere, PTL

\* Server.cpp:31, 55: the map has exactly the connections that are open, for
\* accept(2) gives no number that an older connection still has.
THEOREM MapMatchesConnections == Spec => []MapHoldsOpenConnections
<1>1. Types /\ ServerInv => MapHoldsOpenConnections
  <2> SUFFICES ASSUME Types, ServerInv, serving = "serving"
               PROVE  /\ \A fd \in Fd : connections[fd] # NoConn => connFd[connections[fd]] = fd
                      /\ \A c \in 0..(nextConnId - 1) :
                           connections[connFd[c]] = c <=> c \notin closed \/ RemovalQueued(c)
    BY DEF MapHoldsOpenConnections
  <2>1. ConnInv
    BY DEF ServerInv
  <2>2. \A fd \in Fd : connections[fd] # NoConn => connFd[connections[fd]] = fd
    BY <2>1 DEF ConnInv, MappedOpen
  <2>3. ASSUME NEW c \in Accepted PROVE ~RemovalQueued(c)
    BY <2>1 DEF ConnInv, TasksDestroy, RemovalQueued
  <2>4. ASSUME NEW c \in Accepted PROVE connections[connFd[c]] = c <=> c \notin closed
    <3>1. c \in Conn /\ connFd[c] \in Fd
      BY <2>1, FdAssumption DEF ConnInv, ConnPlaced, Accepted, Conn, Types, ConnTyped
    <3>2. c # NoConn
      BY <3>1, ConnAssumption
    <3>3. c \notin closed => connections[connFd[c]] = c
      BY <2>1 DEF ConnInv, OpenMapped
    <3>4. connections[connFd[c]] = c => c \notin closed
      BY <2>1, <3>1, <3>2 DEF ConnInv, MappedOpen
    <3> QED
      BY <3>3, <3>4
  <2> QED
    BY <2>2, <2>3, <2>4 DEF Accepted
<1> QED
  BY <1>1, ServerInvariant, PTL

\* PollSelect.cpp: fdnums_ of each loop stays the number of its descriptors.
THEOREM FdNumsAlwaysCounted == Spec => []FdNumsCounted
<1>1. Types /\ ServerInv => FdNumsCounted
  <2> SUFFICES ASSUME Types, ServerInv, NEW l \in Loop
               PROVE  fdnums[l] = 1 + Cardinality(Registered(events[l]))
    BY DEF FdNumsCounted
  <2>1. CASE l = Base
    BY <2>1 DEF ServerInv, BaseServes
  <2>2. CASE l # Base
    <3>1. fdnums[l] = 1 /\ \A fd \in Descriptor : events[l][fd] = NoEntry
      BY <2>2 DEF ServerInv, PoolIdle, PoolLoop
    <3>2. DOMAIN events[l] = Descriptor
      BY DEF Types, LoopTyped, Table
    <3>3. Registered(events[l]) = {}
      BY <3>1, <3>2 DEF Registered, HasEvent
    <3> QED
      BY <3>1, <3>3, FS_EmptySet
  <2> QED
    BY <2>1, <2>2
<1> QED
  BY <1>1, ServerInvariant, PTL

\* EventloopPool.cpp:44: with any number of loops and any load, getNextEvent
\* gives every connection to the base loop, and the threads of the pool have
\* nothing to do. The comment there promises a round-robin, or a sort when
\* there are many connections (:48): robinNum_ is never advanced, and the sort
\* puts the loop with the most descriptors first.
THEOREM EveryConnectionOnBase ==
  Spec => [](\A l \in PoolLoop : \A c \in 0..(nextConnId - 1) : serving # "destroyed" => connLoop[c] # l)
<1>1. ServerInv => \A l \in PoolLoop : \A c \in 0..(nextConnId - 1) : serving # "destroyed" => connLoop[c] # l
  BY LoopFacts DEF ServerInv, ConnInv, ConnPlaced, Accepted
<1> QED
  BY <1>1, ServerInvariant, PTL
-----------------------------------------------------------------------------
(***************************************************************************)
(* The safety halves of the liveness properties, which TLC checks: what is *)
(* still to happen is on its way, in every state.                          *)
(***************************************************************************)
\* What a closed connection waits for is a user or one queued connectDestroyed:
\* no map, poll table or other task keeps it, and none keeps its descriptor.
THEOREM ClosedOnItsWayOut ==
  Spec => [](serving # "destroyed" => \A c \in closed : Referenced(c) => c \in held \/ DestroyQueued(c))
<1>1. Types /\ ServerInv =>
        (serving # "destroyed" => \A c \in closed : Referenced(c) => c \in held \/ DestroyQueued(c))
  <2> SUFFICES ASSUME Types, ServerInv, serving # "destroyed", NEW c \in closed, Referenced(c)
               PROVE  c \in held \/ DestroyQueued(c)
    OBVIOUS
  <2>1. ConnInv /\ c \in Conn /\ c # NoConn
    BY ConnAssumption DEF ServerInv, Types, ConnTyped
  <2>2. \A fd \in Fd : connections[fd] # c
    BY <2>1 DEF ConnInv, MappedOpen
  <2>3. ASSUME NEW l \in Loop, NEW i \in 1..Len(tasks[l]), tasks[l][i][2] = c
        PROVE  DestroyQueued(c)
    <3>1. l = Base
      <4>1. CASE l # Base
        <5>1. tasks[l] = <<>>
          BY <4>1 DEF ServerInv, PoolIdle, PoolLoop
        <5> QED
          BY <2>3, <5>1
      <4> QED
        BY <4>1
    <3>2. tasks[Base] \in Seq({"completeConnect", "removeConnection", "connectDestroyed"} \X Conn)
      BY LoopFacts DEF Types, LoopTyped
    <3>3. tasks[Base][i] = <<tasks[Base][i][1], tasks[Base][i][2]>>
      BY <2>3, <3>1, <3>2
    <3>4. tasks[Base][i][1] = "connectDestroyed"
      BY <2>1, <2>3, <3>1 DEF ConnInv, TasksDestroy
    <3> QED
      BY <2>3, <3>1, <3>3, <3>4 DEF DestroyQueued
  <2> QED
    BY <2>2, <2>3 DEF Referenced
<1> QED
  BY <1>1, ServerInvariant, PTL

\* start() waits on the latch only while count_ is 1, or it has been woken.
SleepInv ==
  /\ startPc = "asleep" => Base \in cond.waiting \cup cond.woken
  /\ Base \in cond.waiting => startPc = "asleep" /\ count = 1

LEMMA NextSleep == Types /\ StartInv /\ SleepInv /\ [Next]_vars => SleepInv'
<1> SUFFICES ASSUME Types, StartInv, SleepInv, [Next]_vars PROVE SleepInv'
  OBVIOUS
<1> USE LoopFacts
<1>0. cond \in [waiting : SUBSET {Base}, woken : SUBSET {Base}] /\ count \in 0..1
  BY CountIsBit DEF Types, PoolTyped, ConditionOf
<1>1. ASSUME UNCHANGED <<startPc, count, cond>> PROVE SleepInv'
  BY <1>1 DEF SleepInv
<1>2. CASE CreateThread \/ SpinEnds
  BY <1>2 DEF CreateThread, SpinEnds, SleepInv
<1>3. CASE LatchWait
  <2>1. CASE count > 0
    <3>1. startPc' = "asleep" /\ cond' = Wait(cond, Base) /\ count' = 1
      BY <1>0, <1>3, <2>1 DEF LatchWait
    <3> QED
      BY <3>1 DEF SleepInv, Wait
  <2>2. CASE ~(count > 0)
    BY <1>3, <2>2 DEF LatchWait, SleepInv
  <2> QED
    BY <2>1, <2>2
<1>4. CASE LatchWakes
  <2>1. Base \notin cond.waiting
    BY <1>4 DEF LatchWakes, Types, PoolTyped, ConditionOf
  <2>2. startPc' = "latch" /\ cond'.waiting = cond.waiting
    BY <1>0, <1>4 DEF LatchWakes, Return
  <2> QED
    BY <2>1, <2>2 DEF SleepInv
<1>5. CASE StoreLoop
  BY <1>5 DEF StoreLoop, SleepInv
<1>6. CASE SpuriousWakeup
  <2>1. cond'.waiting = {} /\ Base \in cond'.woken
    BY <1>0, <1>6 DEF SpuriousWakeup, Wake
  <2> QED
    BY <2>1 DEF SleepInv
<1>7. ASSUME NEW l \in PoolLoop, ThreadStep(l) PROVE SleepInv'
  <2>1. CASE EnterThread(l) \/ ConstructLoop(l)
    BY <1>1, <2>1 DEF EnterThread, ConstructLoop
  <2>2. CASE CountDown(l)
    <3>1. startPc # "started" /\ Starting /\ Iterating
      BY <2>2 DEF CountDown, Enters, StartInv, Started
    <3>2. Len(loops) = l
      BY <2>2, <3>1 DEF CountDown, Enters, Starting, StartInv
    <3>3. startPc # "create" /\ count = 1
      BY <2>2, <3>1, <3>2 DEF CountDown, Enters, Iterating
    <3>4. cond' = NotifyAll(cond) /\ startPc' = startPc
      BY <2>2, <3>3 DEF CountDown
    <3>5. cond'.waiting = {} /\ cond'.woken = cond.woken \cup cond.waiting
      BY <3>4 DEF NotifyAll
    <3> QED
      BY <3>4, <3>5 DEF SleepInv
  <2> QED
    BY <1>7, <2>1, <2>2 DEF ThreadStep
<1>8. CASE Listen
  <2>1. Base \notin cond.waiting
    BY <1>8 DEF Listen, SleepInv
  <2> QED
    BY <1>8, <2>1 DEF Listen, SleepInv
<1>9. CASE DestroyServer \/ SetQuit
  BY <1>1, <1>9 DEF DestroyServer, SetQuit
<1>10. ASSUME NEW l \in Loop, LoopStep(l) PROVE SleepInv'
  <2>1. UNCHANGED <<startPc, count, cond>>
    BY <1>10 DEF LoopStep, StartLoop, Poll, EndLoop, LoopReturns, RunTasks, RunTask, EndTasks, Accept,
                 HandleRead, poolVars
  <2> QED
    BY <1>1, <2>1
<1>11. CASE UNCHANGED vars \/ \E c \in Conn : UserDrops(c)
  BY <1>1, <1>11 DEF vars, UserDrops, poolVars
<1> QED
  BY <1>2, <1>3, <1>4, <1>5, <1>6, <1>7, <1>8, <1>9, <1>10, <1>11 DEF Next, MainStep, StartStep

\* CountDownLatch.h: no count-down is missed. While start() sleeps on the latch
\* either it has been woken, or the thread it has created has not counted down
\* yet; a thread that pthread_create refused never will.
THEOREM CountDownNeverMissed ==
  Spec => [](startPc = "asleep" /\ Base \notin cond.woken =>
               worker[Len(loops)] \in {"created", "failed", "running", "constructed"})
<1>1. Init => SleepInv
  BY DEF Init, PoolInit, NewCondition, SleepInv
<1>2. StartInv /\ SleepInv => (startPc = "asleep" /\ Base \notin cond.woken =>
        worker[Len(loops)] \in {"created", "failed", "running", "constructed"})
  BY DEF StartInv, Iterating, SleepInv
<1>3. Types /\ StartInv /\ SleepInv /\ [Next]_vars => (Types /\ StartInv /\ SleepInv)'
  BY NextTypes, NextStart, NextSleep
<1> QED
  BY InitTypes, InitStart, <1>1, <1>2, <1>3, PTL DEF Spec

\* The sort keeps every loop: as many different ones as there are.
LEMMA EveryLoopStored ==
  ASSUME Types, Started, NEW l \in Loop
  PROVE  \E i \in 1..Len(loops) : loops[i] = l
<1> DEFINE I == 1..Len(loops)
           f == [i \in I |-> loops[i]]
<1>1. NumLoops \in Nat \ {0} /\ Len(loops) = NumLoops
  BY LoopFacts DEF Started
<1>2. IsFiniteSet(Loop) /\ Cardinality(Loop) = NumLoops
  <2>1. IsFiniteSet(0..(NumLoops - 1)) /\ Cardinality(0..(NumLoops - 1)) = NumLoops
    BY <1>1, FS_Interval
  <2> QED
    BY <2>1 DEF Loop
<1>3. Cardinality(I) = NumLoops
  BY <1>1, FS_Interval
<1>4. f \in Injection(I, Loop)
  BY DEF Started, Injection, IsInjective
<1>5. f \in Surjection(I, Loop)
  <2> HIDE DEF f, I
  <2> QED
    BY <1>2, <1>3, <1>4, FS_Injection
<1> QED
  BY <1>5 DEF Surjection

ToldInv == serving = "destroyed" => \A l \in Loop : quit[l]

\* ~EventloopPool stops the threads because loops_ still has every loop, in
\* whatever order the sort of getNextEvent has left it: once the Server is
\* destroyed, each loop of the pool has been told to quit.
THEOREM EveryThreadToldToStop == Spec => [](serving = "destroyed" => \A l \in PoolLoop : quit[l])
<1>1. Init => ToldInv
  BY DEF Init, ToldInv
<1>2. ASSUME Types, StartInv, ToldInv, [Next]_vars PROVE ToldInv'
  <2>1. ASSUME serving' = serving \/ serving' # "destroyed", \A l \in Loop : quit[l] => quit'[l]
        PROVE  ToldInv'
    BY <1>2, <2>1 DEF ToldInv
  <2>2. CASE DestroyServer
    <3>1. serving = "serving" /\ QuitAll
      BY <2>2 DEF DestroyServer
    <3>2. Started
      BY <1>2, <3>1 DEF StartInv, Starting
    <3>3. \A l \in Loop : \E i \in 1..Len(loops) : loops[i] = l
      BY <1>2, <3>2, EveryLoopStored
    <3>4. \A l \in Loop : quit'[l]
      BY <3>1, <3>3 DEF QuitAll
    <3> QED
      BY <3>4 DEF ToldInv
  <2>3. CASE SetQuit
    BY <1>2, <2>1, <2>3 DEF SetQuit, serverVars, Types, PoolTyped
  <2>4. CASE \/ Listen \/ (StartStep /\ UNCHANGED serverVars) \/ (SpuriousWakeup /\ UNCHANGED serverVars)
             \/ \E l \in PoolLoop : ThreadStep(l) /\ UNCHANGED serverVars
    BY <2>1, <2>4 DEF Listen, StartStep, CreateThread, SpinEnds, LatchWait, LatchWakes, StoreLoop,
                      SpuriousWakeup, ThreadStep, EnterThread, ConstructLoop, CountDown, serverVars
  <2>5. ASSUME NEW l \in Loop, LoopStep(l) PROVE ToldInv'
    BY <2>1, <2>5 DEF LoopStep, StartLoop, Poll, EndLoop, LoopReturns, RunTasks, RunTask, EndTasks, Accept,
                HandleRead, poolVars
  <2>6. CASE UNCHANGED vars \/ \E c \in Conn : UserDrops(c)
    BY <2>1, <2>6 DEF vars, UserDrops, poolVars, serverVars
  <2> QED
    BY <1>2, <2>2, <2>3, <2>4, <2>5, <2>6 DEF Next, MainStep
<1>3. Types /\ StartInv /\ ToldInv /\ [Next]_vars => (Types /\ StartInv /\ ToldInv)'
  BY <1>2, NextTypes, NextStart
<1>4. ToldInv => (serving = "destroyed" => \A l \in PoolLoop : quit[l])
  BY LoopFacts DEF ToldInv
<1> QED
  BY InitTypes, InitStart, <1>1, <1>3, <1>4, PTL DEF Spec
=============================================================================
