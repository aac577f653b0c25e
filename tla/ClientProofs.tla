---------------------------- MODULE ClientProofs ----------------------------
(***************************************************************************)
(* Proofs about a Client and its connector, for any threads, descriptors,  *)
(* handlers and delays: the types, the one attempt that is under way, and  *)
(* the connection that the poll table still points to.                     *)
(***************************************************************************)
EXTENDS Client, SequenceTheorems, TLAPS

Entry == [handler : Handler, interest : {{"kWrite"}}]
Table == [Fd -> Entry \cup {NoEntry, NullEntry}]
Task == (CallName \X {NoFd}) \cup ({"handleClose", "shutdownInLoop"} \X Fd)

-----------------------------------------------------------------------------
(***************************************************************************)
(* The poll table and the queue.                                           *)
(***************************************************************************)
LEMMA TableAdded ==
  ASSUME NEW T \in Table, NEW fd \in Fd, NEW h \in Handler
  PROVE  LET U == AfterSetEvent(AfterAddFd(T, fd, h), fd, "kWrite") IN
         /\ U \in Table /\ HasEvent(U, fd) /\ U[fd].handler = h
         /\ \A f \in Fd : f # fd => U[f] = T[f]
<1> DEFINE e == FdEvent(h)
           w == [handler |-> h, interest |-> {"kWrite"}]
           A == AfterAddFd(T, fd, h)
           U == AfterSetEvent(A, fd, "kWrite")
<1>1. e \notin {NoEntry, NullEntry} /\ e.handler = h /\ e.interest = {}
  BY EntryAssumption DEF FdEvent
<1>2. w \in Entry /\ w \notin {NoEntry, NullEntry} /\ w.handler = h
  BY EntryAssumption DEF Entry
<1>3. A = [T EXCEPT ![fd] = e]
  BY DEF AfterAddFd
<1>4. w = [handler |-> e.handler, interest |-> {} \cup {"kWrite"}]
  BY <1>1
<1> HIDE DEF e, w
<1>5. DOMAIN A = Fd /\ A[fd] = e /\ \A f \in Fd : f # fd => A[f] = T[f]
  BY <1>3 DEF Table
<1> HIDE DEF A
<1>6. HasEvent(A, fd) /\ Interest(A, fd) = {}
  BY <1>1, <1>5 DEF HasEvent, Interest
<1>7. U = [A EXCEPT ![fd] = w]
  BY <1>4, <1>5, <1>6 DEF AfterSetEvent, WithInterest
<1> HIDE DEF U
<1>8. U = [f \in Fd |-> IF f = fd THEN w ELSE T[f]]
  BY <1>3, <1>5, <1>7 DEF Table
<1>9. U \in Table /\ HasEvent(U, fd) /\ U[fd].handler = h /\ \A f \in Fd : f # fd => U[f] = T[f]
  BY <1>2, <1>8 DEF Table, HasEvent
<1> QED
  BY <1>9 DEF U, A

LEMMA TableDeleted ==
  ASSUME NEW T \in Table, NEW fd \in Fd, HasEvent(T, fd)
  PROVE  LET U == AfterDeleteFd(T, fd) IN
         /\ U \in Table /\ U[fd] = NoEntry
         /\ \A f \in Fd : f # fd => U[f] = T[f]
<1>1. AfterDeleteFd(T, fd) = [T EXCEPT ![fd] = NoEntry]
  BY DEF AfterDeleteFd
<1> QED
  BY <1>1 DEF Table

\* What the proofs ask of a queue: a call is in it, once, among its first n,
\* and a task refers to a descriptor.
In(q, t) == \E i \in 1..Len(q) : q[i] = t
Once(q, t) == \A i, j \in 1..Len(q) : q[i] = t /\ q[j] = t => i = j
Early(q, t, n) == \E i \in 1..Len(q) : q[i] = t /\ i <= n
Refers(q, fd) == \E i \in 1..Len(q) : q[i][2] = fd

LEMMA Queued ==
  ASSUME NEW q \in Seq(Task), NEW t \in Task
  PROVE  /\ Append(q, t) \in Seq(Task) /\ Len(Append(q, t)) = Len(q) + 1 /\ Append(q, t) # <<>>
         /\ \A s : In(Append(q, t), s) <=> In(q, s) \/ s = t
         /\ \A s : Once(q, s) /\ (s = t => ~In(q, s)) => Once(Append(q, t), s)
         /\ \A s, n : Early(q, s, n) => Early(Append(q, t), s, n)
         /\ \A fd : Refers(Append(q, t), fd) <=> Refers(q, fd) \/ t[2] = fd
<1> HIDE DEF Task
<1> DEFINE p == Append(q, t)
<1>1. Len(q) \in Nat /\ p \in Seq(Task) /\ Len(p) = Len(q) + 1 /\ p # <<>>
  BY AppendProperties
<1>2. /\ \A i \in 1..Len(q) : i \in 1..Len(p) /\ p[i] = q[i]
      /\ Len(q) + 1 \in 1..Len(p) /\ p[Len(q) + 1] = t
      /\ \A i \in 1..Len(p) : i = Len(q) + 1 \/ i \in 1..Len(q)
  BY <1>1, AppendProperties
<1> HIDE DEF p
<1>3. \A s : In(p, s) <=> In(q, s) \/ s = t
  BY <1>2 DEF In
<1>4. \A s : Once(q, s) /\ (s = t => ~In(q, s)) => Once(p, s)
  BY <1>2 DEF Once, In
<1>5. \A s, n : Early(q, s, n) => Early(p, s, n)
  BY <1>2 DEF Early
<1>6. \A fd : Refers(p, fd) <=> Refers(q, fd) \/ t[2] = fd
  BY <1>2 DEF Refers
<1> QED
  BY <1>1, <1>3, <1>4, <1>5, <1>6 DEF p

LEMMA Dequeued ==
  ASSUME NEW q \in Seq(Task), q # <<>>
  PROVE  /\ Head(q) \in Task /\ Tail(q) \in Seq(Task) /\ Len(q) \in Nat \ {0}
         /\ Len(Tail(q)) = Len(q) - 1
         /\ \A s : In(q, s) <=> In(Tail(q), s) \/ s = Head(q)
         /\ \A s : Once(q, s) => Once(Tail(q), s) /\ (s = Head(q) => ~In(Tail(q), s))
         /\ \A s : \A n \in Nat : Early(q, s, n) => s = Head(q) \/ Early(Tail(q), s, n - 1)
         /\ \A fd : Refers(q, fd) <=> Refers(Tail(q), fd) \/ Head(q)[2] = fd
<1> HIDE DEF Task
<1> DEFINE p == Tail(q)
           h == Head(q)
<1>1. Len(q) \in Nat \ {0} /\ h = q[1] /\ h \in Task /\ p \in Seq(Task) /\ Len(p) = Len(q) - 1
  BY HeadTailProperties, EmptySeq
<1>2. /\ \A i \in 1..Len(p) : i + 1 \in 1..Len(q) /\ i + 1 # 1 /\ p[i] = q[i + 1]
      /\ \A i \in 1..Len(q) : i # 1 => i - 1 \in 1..Len(p) /\ p[i - 1] = q[i]
      /\ 1 \in 1..Len(q)
  BY <1>1, HeadTailProperties
<1> HIDE DEF p, h
<1>3. \A s : In(q, s) <=> In(p, s) \/ s = h
  BY <1>1, <1>2 DEF In
<1>4. \A s : Once(q, s) => Once(p, s)
  BY <1>1, <1>2 DEF Once
<1>5. \A s : Once(q, s) /\ s = h => ~In(p, s)
  BY <1>1, <1>2 DEF Once, In
<1>6. \A s : \A n \in Nat : Early(q, s, n) => s = h \/ Early(p, s, n - 1)
  BY <1>1, <1>2 DEF Early
<1>7. \A fd : Refers(q, fd) <=> Refers(p, fd) \/ h[2] = fd
  BY <1>1, <1>2 DEF Refers
<1> QED
  BY <1>1, <1>3, <1>4, <1>5, <1>6, <1>7 DEF p, h

LEMMA DeletedTyped == \A T \in Table : \A fd : AfterDeleteFd(T, fd) \in Table
BY DEF AfterDeleteFd, Table

LEMMA CallTyped == \A op \in CallName : Call(op) \in Task /\ Call(op)[1] = op /\ Call(op)[2] = NoFd
BY DEF Call, Task
-----------------------------------------------------------------------------
(***************************************************************************)
(* The types, in the parts that an action leaves alone or not.             *)
(***************************************************************************)
MemberTypes ==
  /\ connect \in BOOLEAN /\ gaveUp \in BOOLEAN
  /\ state \in {"kDisconnected", "kConnecting", "kConnected"}
  /\ sockfd \in Fd \cup {NoFd} /\ open \subseteq Fd
  /\ handler \in Handler \cup {NoHandler}
  /\ delay \in InitRetryDelay..MaxRetryDelay
  /\ events \in Table
PhaseTypes ==
  /\ timers \in Nat /\ due \in 0..timers
  /\ pc \in {"poll", "events", "tasks"}
  /\ inside \in {"none", "connect", "retry", "connected"}
  /\ reported \in Handler \cup {NoHandler}
QueueTypes == tasks \in Seq(Task) /\ batch \in 0..Len(tasks)
CallerTypes == userPc \in [Threads -> {"idle", "startInLoop", "stopInLoop"}]
ConnTypes ==
  /\ connection \in Fd \cup {NoFd} /\ copies \subseteq Fd
  /\ watched \subseteq Fd /\ readable \subseteq Fd /\ destroyed \in BOOLEAN
  /\ connState \in [Fd -> {"kConnected", "kDisconnecting", "kDisconnected"}]
HandedReferenced == handed = {fd \in Fd : Referenced(fd)}
SocketNamed == state = "kConnecting" \/ inside = "connected" => sockfd \in Fd

TypeInv == /\ MemberTypes /\ PhaseTypes /\ QueueTypes /\ CallerTypes /\ ConnTypes
           /\ HandedReferenced /\ SocketNamed

LEMMA TypesImply == TypeInv => TypeOK
<1> SUFFICES ASSUME TypeInv PROVE TypeOK
  OBVIOUS
<1>1. userPc \in [Threads -> CallName \cup {"idle"}]
  BY DEF TypeInv, CallerTypes, CallName
<1>2. handed \subseteq Fd
  BY DEF TypeInv, HandedReferenced
<1>3. ConnectorTypeOK
  BY <1>1, <1>2, Zenon DEF ConnectorTypeOK, TypeInv, MemberTypes, PhaseTypes, QueueTypes, Table, Entry
<1> QED
  BY <1>3, Zenon DEF TypeOK, TypeInv, QueueTypes, ConnTypes, HandedReferenced, Task

LEMMA InitTypes == ClientInit => TypeInv
<1> SUFFICES ASSUME ClientInit PROVE TypeInv
  OBVIOUS
<1>1. MemberTypes
  <2>1. delay \in InitRetryDelay..MaxRetryDelay
    BY DelayAssumption DEF ClientInit, Init
  <2>2. events \in Table
    BY DEF ClientInit, Init, Table
  <2> QED
    BY <2>1, <2>2 DEF ClientInit, Init, MemberTypes
<1>2. PhaseTypes /\ CallerTypes
  BY DEF ClientInit, Init, PhaseTypes, CallerTypes
<1>3. QueueTypes
  <2> HIDE DEF Task
  <2> QED
    BY DEF ClientInit, Init, QueueTypes
<1>4. ConnTypes
  BY DEF ClientInit, ConnTypes
<1>5. HandedReferenced /\ SocketNamed
  BY FdAssumption DEF ClientInit, Init, HandedReferenced, Referenced, SocketNamed
<1> QED
  BY <1>1, <1>2, <1>3, <1>4, <1>5 DEF TypeInv

\* A step that moves no descriptor into or out of the tasks.
LEMMA HandedKept ==
  ASSUME HandedReferenced, UNCHANGED <<connection, copies, handed>>,
         \A fd \in Fd : Refers(tasks', fd) <=> Refers(tasks, fd)
                                                   \/ (connection = fd /\ Refers(tasks', fd))
  PROVE  HandedReferenced'
BY DEF HandedReferenced, Referenced, Refers

LEMMA HandedDropped == DropUnreferenced => HandedReferenced'
BY DEF DropUnreferenced, HandedReferenced, Referenced

\* What becomes of the queue: nothing, a task more, a task less, or a stop
\* that queues the reset.
Adds(t) == tasks' = Append(tasks, t) /\ batch' = batch
Takes == tasks # <<>> /\ batch > 0 /\ tasks' = Tail(tasks) /\ batch' = batch - 1
TakesAndResets == /\ tasks # <<>> /\ batch > 0 /\ batch' = batch - 1
                  /\ tasks' = Append(Tail(tasks), Call("resetChannel"))

LEMMA QueueSteps ==
  ASSUME QueueTypes
  PROVE  /\ \A t \in Task : Adds(t) =>
              QueueTypes' /\ \A fd : Refers(tasks', fd) <=> Refers(tasks, fd) \/ t[2] = fd
         /\ Takes =>
              QueueTypes' /\ \A fd : Refers(tasks, fd) <=> Refers(tasks', fd) \/ Head(tasks)[2] = fd
         /\ TakesAndResets =>
              /\ QueueTypes'
              /\ \A fd : fd # NoFd =>
                   (Refers(tasks, fd) <=> Refers(tasks', fd) \/ Head(tasks)[2] = fd)
<1> HIDE DEF Task
<1> USE DEF QueueTypes
<1>1. ASSUME NEW t \in Task, Adds(t)
      PROVE  QueueTypes' /\ \A fd : Refers(tasks', fd) <=> Refers(tasks, fd) \/ t[2] = fd
  <2>1. tasks' \in Seq(Task) /\ Len(tasks') = Len(tasks) + 1
        /\ \A fd : Refers(tasks', fd) <=> Refers(tasks, fd) \/ t[2] = fd
    BY <1>1, Queued DEF Adds
  <2>2. batch' = batch /\ Len(tasks) \in Nat
    BY <1>1, LenProperties DEF Adds
  <2> QED
    BY <2>1, <2>2
<1>2. ASSUME Takes
      PROVE  QueueTypes' /\ \A fd : Refers(tasks, fd) <=> Refers(tasks', fd) \/ Head(tasks)[2] = fd
  <2>1. /\ tasks' \in Seq(Task) /\ Len(tasks) \in Nat \ {0} /\ Len(tasks') = Len(tasks) - 1
        /\ \A fd : Refers(tasks, fd) <=> Refers(tasks', fd) \/ Head(tasks)[2] = fd
    BY <1>2, Dequeued DEF Takes
  <2> QED
    BY <1>2, <2>1 DEF Takes
<1>3. ASSUME TakesAndResets
      PROVE  /\ QueueTypes'
             /\ \A fd : fd # NoFd =>
                   (Refers(tasks, fd) <=> Refers(tasks', fd) \/ Head(tasks)[2] = fd)
  <2> DEFINE r == Tail(tasks)
             c == Call("resetChannel")
  <2>1. /\ r \in Seq(Task) /\ Len(tasks) \in Nat \ {0} /\ Len(r) = Len(tasks) - 1
        /\ \A fd : Refers(tasks, fd) <=> Refers(r, fd) \/ Head(tasks)[2] = fd
    BY <1>3, Dequeued DEF TakesAndResets
  <2>2. c \in Task /\ c[2] = NoFd
    BY CallTyped DEF CallName
  <2>3. tasks' = Append(r, c)
    BY <1>3 DEF TakesAndResets
  <2> HIDE DEF r, c
  <2>4. tasks' \in Seq(Task) /\ Len(tasks') = Len(r) + 1
        /\ \A fd : Refers(tasks', fd) <=> Refers(r, fd) \/ c[2] = fd
    BY <2>1, <2>2, <2>3, Queued
  <2> QED
    BY <1>3, <2>1, <2>2, <2>4 DEF TakesAndResets
<1> QED
  BY <1>1, <1>2, <1>3

LEMMA RunTaskQueue ==
  ASSUME TypeInv, RunTask
  PROVE  /\ Takes \/ (TakesAndResets /\ state = "kConnecting")
         /\ Head(tasks)[2] = NoFd
         /\ events' \in Table /\ state' \in {state, "kDisconnected"} /\ open' \subseteq open
         /\ handler' \in {handler, NoHandler} /\ inside' \in {"none", "connect"}
<1> USE DEF RunTask
<1>1. tasks # <<>> /\ batch > 0 /\ batch' = batch - 1
  <2>1. Len(tasks) \in Nat /\ Len(tasks) > 0
    BY DEF TypeInv, QueueTypes
  <2> QED
    BY <2>1
<1>2. events \in Table
  BY DEF TypeInv, MemberTypes
<1>3. CASE Head(tasks) = Call("startInLoop") /\ tasks' = Tail(tasks) /\ StartInLoop(connect)
           /\ UNCHANGED <<state, open, events, handler>>
  BY <1>1, <1>2, <1>3 DEF Takes, StartInLoop, Call
<1>4. CASE Head(tasks) = Call("stopInLoop") /\ StopInLoop(Tail(tasks)) /\ UNCHANGED inside
  <2>1. inside' = "none" /\ handler' = handler
    BY <1>4 DEF Outside, StopInLoop, RemoveAndResetChannel
  <2>2. AfterDeleteFd(events, sockfd) \in Table
    BY <1>2, DeletedTyped
  <2> QED
    BY <1>1, <1>2, <1>4, <2>1, <2>2 DEF StopInLoop, RemoveAndResetChannel, Takes, TakesAndResets, Call
<1>5. CASE Head(tasks) = Call("resetChannel") /\ tasks' = Tail(tasks) /\ handler' = NoHandler
           /\ UNCHANGED <<state, open, events, inside>>
  BY <1>1, <1>2, <1>5 DEF Takes, Outside, Call
<1> QED
  BY <1>3, <1>4, <1>5

LEMMA HandleClosed ==
  ASSUME ConnTypes, NEW fd, HandleClose(fd),
         UNCHANGED <<connection, destroyed>>, copies' \subseteq Fd, readable' \subseteq readable
  PROVE  ConnTypes'
BY DEF HandleClose, ConnTypes

LEMMA SocketKept ==
  ASSUME SocketNamed, sockfd' = sockfd, state' = "kConnecting" => state = "kConnecting",
         inside' = "connected" => state = "kConnecting" \/ inside = "connected"
  PROVE  SocketNamed'
BY DEF SocketNamed

LEMMA NextTypes == TypeInv /\ [ClientNext]_allVars => TypeInv'
<1> SUFFICES ASSUME TypeInv, [ClientNext]_allVars PROVE TypeInv'
  OBVIOUS
<1> USE DEF TypeInv
<1>1. ASSUME UNCHANGED memberVars, UNCHANGED <<events, open, gaveUp>> PROVE MemberTypes'
  BY <1>1 DEF MemberTypes, memberVars
<1>2. ASSUME UNCHANGED <<loopVars, timers>> PROVE PhaseTypes'
  BY <1>2 DEF PhaseTypes, loopVars
<1>3. ASSUME UNCHANGED queueVars PROVE QueueTypes'
  BY <1>3 DEF QueueTypes, queueVars
<1>4. ASSUME UNCHANGED userPc PROVE CallerTypes'
  BY <1>4 DEF CallerTypes
<1>5. ASSUME UNCHANGED clientVars PROVE ConnTypes'
  BY <1>5 DEF ConnTypes, clientVars, connVars
<1>6. ASSUME UNCHANGED <<clientVars, handed, tasks>> PROVE ConnTypes' /\ HandedReferenced'
  BY <1>5, <1>6, HandedKept DEF clientVars, connVars
<1>7. CASE UNCHANGED allVars
  BY <1>1, <1>2, <1>3, <1>4, <1>6, <1>7, SocketKept
     DEF allVars, vars, socketVars, queueVars, memberVars, loopVars
<1>8. CASE Connecting /\ UNCHANGED clientVars
  <2>1. MemberTypes'
    <3>1. PICK fd \in Fd \ (open \cup handed), h \in Handler \ {handler} :
            /\ sockfd' = fd /\ open' = open \cup {fd}
            /\ handler' = h
            /\ events' = AfterSetEvent(AfterAddFd(events, fd, h), fd, "kWrite")
      BY <1>8 DEF Connecting
    <3>2. events' \in Table
      BY <3>1, TableAdded DEF MemberTypes
    <3> QED
      BY <1>8, <3>1, <3>2 DEF Connecting, MemberTypes
  <2>2. PhaseTypes' /\ SocketNamed'
    BY <1>8 DEF Connecting, PhaseTypes, SocketNamed
  <2> QED
    BY <1>3, <1>4, <1>6, <1>8, <2>1, <2>2 DEF Connecting, queueVars
<1>9. CASE (ConnectFails \/ ConnectGivesUp) /\ UNCHANGED clientVars
  <2>1. MemberTypes'
    BY <1>9 DEF ConnectFails, ConnectGivesUp, MemberTypes, socketVars
  <2>2. PhaseTypes' /\ SocketNamed'
    BY <1>9 DEF ConnectFails, ConnectGivesUp, PhaseTypes, SocketNamed
  <2> QED
    BY <1>3, <1>4, <1>6, <1>9, <2>1, <2>2 DEF ConnectFails, ConnectGivesUp, queueVars, socketVars
<1>10. CASE Retry /\ UNCHANGED clientVars
  <2>1. MemberTypes'
    <3>1. delay' \in InitRetryDelay..MaxRetryDelay
      BY <1>10, DelayAssumption DEF Retry, MemberTypes
    <3> QED
      BY <1>10, <3>1 DEF Retry, MemberTypes, socketVars
  <2>2. PhaseTypes' /\ SocketNamed'
    BY <1>10, SocketKept DEF Retry, PhaseTypes, memberVars
  <2> QED
    BY <1>3, <1>4, <1>6, <1>10, <2>1, <2>2 DEF Retry, queueVars, socketVars
<1>11. CASE HandleWrite /\ UNCHANGED clientVars
  <2>1. events' \in Table
    <3>1. AfterDeleteFd(events, sockfd) \in Table /\ events \in Table
      BY DeletedTyped DEF MemberTypes
    <3> QED
      BY <1>11, <3>1 DEF HandleWrite, RemoveAndResetChannel
  <2>2. MemberTypes'
    BY <1>11, <2>1 DEF HandleWrite, RemoveAndResetChannel, MemberTypes
  <2>3. PhaseTypes' /\ SocketNamed'
    BY <1>11, SocketKept DEF HandleWrite, PhaseTypes
  <2>4. QueueTypes' /\ HandedReferenced'
    <3>1. CASE tasks' = tasks
      BY <1>3, <1>6, <1>11, <3>1 DEF HandleWrite, queueVars
    <3>2. CASE tasks' # tasks
      <4>1. Adds(Call("resetChannel"))
        BY <1>11, <3>2 DEF HandleWrite, RemoveAndResetChannel, Adds
      <4>2. Call("resetChannel") \in Task /\ Call("resetChannel")[2] = NoFd
        BY CallTyped DEF CallName
      <4>3. QueueTypes' /\ \A fd : Refers(tasks', fd) <=> Refers(tasks, fd) \/ NoFd = fd
        BY <4>1, <4>2, QueueSteps
      <4> QED
        BY <1>11, <4>3, HandedKept, FdAssumption DEF HandleWrite, clientVars, connVars
    <3> QED
      BY <3>1, <3>2
  <2> QED
    BY <1>4, <1>5, <1>11, <2>2, <2>3, <2>4 DEF HandleWrite
<1>12. CASE (RetryTimer \/ RunTasks \/ EndTasks) /\ UNCHANGED clientVars
  <2>1. MemberTypes'
    BY <1>1, <1>12 DEF RetryTimer, RunTasks, EndTasks, socketVars
  <2>2. PhaseTypes' /\ SocketNamed'
    BY <1>12, SocketKept DEF RetryTimer, RunTasks, EndTasks, StartInLoop, Outside, PhaseTypes, memberVars
  <2>3. QueueTypes'
    BY <1>12 DEF RetryTimer, RunTasks, EndTasks, QueueTypes, queueVars
  <2> QED
    BY <1>4, <1>6, <1>12, <2>1, <2>2, <2>3 DEF RetryTimer, RunTasks, EndTasks, socketVars, queueVars
<1>13. CASE RunTask /\ UNCHANGED clientVars
  <2>1. /\ Takes \/ TakesAndResets
        /\ Head(tasks)[2] = NoFd
        /\ events' \in Table /\ state' \in {state, "kDisconnected"} /\ open' \subseteq open
        /\ handler' \in {handler, NoHandler} /\ inside' \in {"none", "connect"}
    BY <1>13, RunTaskQueue
  <2>2. MemberTypes'
    BY <1>13, <2>1 DEF RunTask, MemberTypes
  <2>3. PhaseTypes' /\ SocketNamed'
    BY <1>13, <2>1, SocketKept DEF RunTask, PhaseTypes
  <2>4. QueueTypes'
    BY <2>1, QueueSteps
  <2>5. \A fd : Refers(tasks, fd) \/ fd = NoFd <=> Refers(tasks', fd) \/ fd = NoFd
    BY <2>1, QueueSteps
  <2>6. HandedReferenced'
    BY <1>13, <2>5, HandedKept, FdAssumption DEF RunTask, clientVars, connVars
  <2> QED
    BY <1>4, <1>5, <1>13, <2>2, <2>3, <2>4, <2>6 DEF RunTask
<1>14. CASE PollAll
  <2>1. PhaseTypes'
    <3>1. \A fd \in {f \in Fd : Interest(events, f) # {}} : events[fd].handler \in Handler
      BY DEF Interest, HasEvent, MemberTypes, Table, Entry
    <3>2. reported' \in Handler \cup {NoHandler}
      BY <1>14, <3>1 DEF PollAll, Poll
    <3> QED
      BY <1>14, <3>2 DEF PollAll, Poll, PhaseTypes
  <2>4. SocketNamed'
    BY <1>14, SocketKept DEF PollAll, Poll, memberVars
  <2>2. ConnTypes'
    BY <1>14 DEF PollAll, ConnTypes
  <2>3. HandedReferenced'
    BY <1>14, HandedKept DEF PollAll, Poll, queueVars, socketVars
  <2> QED
    BY <1>1, <1>3, <1>4, <1>14, <2>1, <2>2, <2>3, <2>4 DEF PollAll, Poll, socketVars
<1>15. CASE HandedOver
  <2>1. MemberTypes'
    BY <1>15 DEF HandedOver, HandOver, MemberTypes, memberVars
  <2>2. PhaseTypes' /\ SocketNamed'
    BY <1>15, SocketKept DEF HandedOver, HandOver, PhaseTypes, memberVars
  <2>3. QueueTypes' /\ CallerTypes' /\ tasks' = tasks
    BY <1>3, <1>4, <1>15 DEF HandedOver, HandOver, queueVars
  <2>4. CASE UNCHANGED <<connection, connState, watched, copies, handed>>
    <3>1. ConnTypes'
      BY <1>15, <2>4 DEF HandedOver, ConnTypes
    <3> QED
      BY <2>1, <2>2, <2>3, <2>4, <3>1, HandedKept
  <2>5. CASE NewConnection(sockfd)
    <3>1. HandedReferenced'
      BY <2>5, HandedDropped DEF NewConnection
    <3>2. sockfd \in Fd
      BY <1>15 DEF HandedOver, HandOver, SocketNamed
    <3>3. ConnTypes'
      BY <1>15, <2>5, <3>2 DEF HandedOver, NewConnection, ConnTypes
    <3> QED
      BY <2>1, <2>2, <2>3, <3>1, <3>3
  <2> QED
    BY <1>15, <2>4, <2>5 DEF HandedOver
<1>16. CASE RunConnTask
  <2>1. MemberTypes' /\ PhaseTypes' /\ SocketNamed' /\ CallerTypes' /\ HandedReferenced'
    BY <1>1, <1>2, <1>4, <1>16, HandedDropped, SocketKept DEF RunConnTask, memberVars, loopVars
  <2>2. QueueTypes'
    <3>1. tasks # <<>>
      BY <1>16, EmptySeq DEF RunConnTask, QueueTypes
    <3> QED
      BY <1>16, <3>1, QueueSteps DEF RunConnTask, Takes
  <2>3. ConnTypes'
    <3>1. copies' \subseteq Fd /\ UNCHANGED <<connection, readable, copies, destroyed>>
      BY <1>16 DEF RunConnTask, ConnTypes
    <3>2. CASE HandleClose(Head(tasks)[2])
      BY <3>1, <3>2, HandleClosed
    <3>3. CASE UNCHANGED <<connState, watched>>
      BY <3>1, <3>3 DEF ConnTypes
    <3> QED
      BY <1>16, <3>2, <3>3 DEF RunConnTask
  <2> QED
    BY <2>1, <2>2, <2>3
<1>17. CASE \E fd \in Fd : HandleRead(fd)
  <2>1. PICK fd \in Fd : HandleRead(fd)
    BY <1>17
  <2>2. MemberTypes' /\ PhaseTypes' /\ SocketNamed' /\ CallerTypes' /\ HandedReferenced' /\ QueueTypes'
    BY <1>1, <1>2, <1>3, <1>4, <2>1, HandedDropped, SocketKept
       DEF HandleRead, memberVars, loopVars, queueVars
  <2>3. ConnTypes'
    <3>1. /\ copies' \subseteq Fd /\ readable' \subseteq readable
          /\ UNCHANGED <<connection, destroyed>>
      BY <2>1 DEF HandleRead, ConnTypes
    <3>2. CASE HandleClose(fd)
      BY <3>1, <3>2, HandleClosed
    <3>3. CASE UNCHANGED <<connState, watched>>
      BY <3>1, <3>3 DEF ConnTypes
    <3> QED
      BY <2>1, <3>2, <3>3 DEF HandleRead
  <2> QED
    BY <2>2, <2>3
<1>18. CASE Start /\ UNCHANGED clientVars
  BY <1>3, <1>4, <1>6, <1>18, SocketKept
     DEF Start, StartInLoop, MemberTypes, PhaseTypes, socketVars, queueVars
<1>19. CASE Stop /\ UNCHANGED clientVars
  <2>1. MemberTypes' /\ PhaseTypes' /\ SocketNamed' /\ CallerTypes' /\ ConnTypes'
    BY <1>2, <1>4, <1>5, <1>19, SocketKept DEF Stop, MemberTypes, socketVars, loopVars
  <2>2. Adds(Call("stopInLoop")) /\ Call("stopInLoop") \in Task /\ Call("stopInLoop")[2] = NoFd
    BY <1>19, CallTyped DEF Stop, Adds, CallName
  <2>3. QueueTypes' /\ \A fd : Refers(tasks', fd) <=> Refers(tasks, fd) \/ NoFd = fd
    BY <2>2, QueueSteps
  <2>4. HandedReferenced'
    BY <1>19, <2>3, HandedKept, FdAssumption DEF Stop, socketVars, clientVars, connVars
  <2> QED
    BY <2>1, <2>3, <2>4
<1>20. CASE (\E u \in Threads : StartFromThread(u) \/ StopFromThread(u)) /\ UNCHANGED clientVars
  <2>1. PICK u \in Threads : StartFromThread(u) \/ StopFromThread(u)
    BY <1>20
  <2>2. CallerTypes'
    BY <2>1 DEF StartFromThread, StopFromThread, CallerTypes
  <2> QED
    BY <1>2, <1>3, <1>6, <1>20, <2>1, <2>2, SocketKept
       DEF StartFromThread, StopFromThread, MemberTypes, socketVars, loopVars, queueVars
<1>21. CASE (\E u \in Threads : QueueCall(u)) /\ UNCHANGED clientVars
  <2>1. PICK u \in Threads : QueueCall(u)
    BY <1>21
  <2>2. MemberTypes' /\ PhaseTypes' /\ SocketNamed' /\ CallerTypes' /\ ConnTypes'
    BY <1>1, <1>2, <1>5, <1>21, <2>1, SocketKept
       DEF QueueCall, CallerTypes, socketVars, loopVars, memberVars
  <2>3. userPc[u] \in CallName
    BY <2>1 DEF QueueCall, CallerTypes, CallName
  <2>4. Adds(Call(userPc[u])) /\ Call(userPc[u]) \in Task /\ Call(userPc[u])[2] = NoFd
    BY <2>1, <2>3, CallTyped DEF QueueCall, Adds
  <2>5. QueueTypes' /\ \A fd : Refers(tasks', fd) <=> Refers(tasks, fd) \/ NoFd = fd
    BY <2>4, QueueSteps
  <2>6. HandedReferenced'
    BY <1>21, <2>1, <2>5, HandedKept, FdAssumption DEF QueueCall, socketVars, clientVars, connVars
  <2> QED
    BY <2>2, <2>5, <2>6
<1>22. CASE Disconnect \/ DisconnectFromThread
  <2>1. MemberTypes' /\ PhaseTypes' /\ SocketNamed' /\ CallerTypes' /\ ConnTypes'
    BY <1>1, <1>2, <1>4, <1>22, SocketKept
       DEF Disconnect, DisconnectFromThread, Disconnecting, ConnTypes, socketVars, loopVars, memberVars
  <2>2. CASE UNCHANGED queueVars
    BY <1>3, <1>22, <2>1, <2>2, HandedKept
       DEF Disconnect, DisconnectFromThread, Disconnecting, socketVars, queueVars
  <2>3. CASE DisconnectFromThread
    <3> DEFINE t == <<"shutdownInLoop", connection>>
    <3>1. connection \in Fd
      BY <2>3 DEF DisconnectFromThread, Disconnecting, IsConnected
    <3>2. t \in Task /\ t[2] = connection /\ Adds(t)
      BY <2>3, <3>1 DEF DisconnectFromThread, Adds, Task
    <3>3. QueueTypes' /\ \A fd : Refers(tasks', fd) <=> Refers(tasks, fd) \/ connection = fd
      BY <3>2, QueueSteps
    <3>4. HandedReferenced'
      BY <2>3, <3>3, HandedKept DEF DisconnectFromThread, Disconnecting, socketVars
    <3> QED
      BY <2>1, <3>3, <3>4
  <2> QED
    BY <1>22, <2>2, <2>3 DEF Disconnect
<1>23. CASE Destroy
  <2>1. MemberTypes' /\ PhaseTypes' /\ SocketNamed' /\ CallerTypes' /\ HandedReferenced'
    BY <1>1, <1>2, <1>4, <1>23, HandedDropped, SocketKept DEF Destroy, loopVars, memberVars
  <2>2. CASE IsConnected(connection) /\ ForceClose(connection)
    <3> DEFINE t == <<"handleClose", connection>>
    <3>1. connection \in Fd
      BY <2>2 DEF IsConnected
    <3>2. t \in Task /\ Adds(t)
      BY <1>23, <2>2, <3>1 DEF Destroy, ForceClose, Adds, Task
    <3>3. QueueTypes'
      BY <3>2, QueueSteps
    <3>4. ConnTypes'
      BY <1>23, <2>2 DEF Destroy, ForceClose, ConnTypes
    <3> QED
      BY <2>1, <3>3, <3>4
  <2>3. CASE UNCHANGED <<connState, watched, tasks>>
    <3>1. QueueTypes'
      BY <1>3, <1>23, <2>3 DEF Destroy, queueVars
    <3>2. ConnTypes'
      BY <1>23, <2>3 DEF Destroy, ConnTypes
    <3> QED
      BY <2>1, <3>1, <3>2
  <2> QED
    BY <1>23, <2>2, <2>3 DEF Destroy
<1>24. CASE \E fd \in Fd : DropCopy(fd)
  <2>1. PICK fd \in Fd : DropCopy(fd)
    BY <1>24
  <2>2. ConnTypes'
    BY <2>1 DEF DropCopy, ConnTypes
  <2> QED
    BY <1>1, <1>2, <1>3, <1>4, <2>1, <2>2, HandedDropped, SocketKept
       DEF DropCopy, loopVars, memberVars, queueVars
<1> QED
  BY <1>7, <1>8, <1>9, <1>10, <1>11, <1>12, <1>13, <1>14, <1>15, <1>16, <1>17, <1>18, <1>19, <1>20,
     <1>21, <1>22, <1>23, <1>24
     DEF ClientNext, LoopStep, ConnectorStep, UserStep, ConnectorCall
-----------------------------------------------------------------------------
(***************************************************************************)
(* The attempt.  At most one is under way, in one of five forms: a start   *)
(* on its way to the loop, a function of the connector, a socket that is   *)
(* connecting, a retry timer.  A handler that is no longer polled has its  *)
(* resetChannel queued, and a retry timer does not fire before that.       *)
(***************************************************************************)
StartQueued == In(tasks, Call("startInLoop"))
StopQueued == In(tasks, Call("stopInLoop"))
ResetQueued == In(tasks, Call("resetChannel"))
ResetEarly == Early(tasks, Call("resetChannel"), batch)
StartOnce == Once(tasks, Call("startInLoop"))
ResetOnce == Once(tasks, Call("resetChannel"))
StartCalled == \E u \in Threads : userPc[u] = "startInLoop"
StopCalled == \E u \in Threads : userPc[u] = "stopInLoop"
StartComing == StartQueued \/ StartCalled

\* A start and a reset are queued once; a stop undone by no start is obeyed.
CallsInv ==
  /\ StartOnce /\ ResetOnce
  /\ StartCalled => ~StartQueued
  /\ \A u, v \in Threads : userPc[u] = "startInLoop" /\ userPc[v] = "startInLoop" => u = v
  /\ StopQueued \/ StopCalled => ~connect

\* Outside handleActiveEvents nothing that select reported is left.
PhaseInv == pc # "events" => reported = NoHandler /\ due = 0

Unused == state # "kConnecting" /\ timers = 0 /\ ~ResetQueued /\ ~StartComing
AttemptInv ==
  /\ StartComing => state # "kConnecting" /\ timers = 0 /\ ~ResetQueued /\ inside = "none"
  /\ inside = "connect" => Unused
  /\ inside = "retry" => /\ state = "kDisconnected" /\ timers = 0 /\ ~StartComing
                         /\ ResetQueued => pc = "events"
  /\ inside = "connected" => state = "kConnected" /\ timers = 0 /\ ~StartComing
  /\ timers > 0 => /\ timers = 1 /\ state # "kConnecting" /\ inside = "none"
                   /\ ResetQueued => due = 0 /\ (pc = "events" \/ (pc = "tasks" /\ ResetEarly))
  /\ state = "kConnecting" => timers = 0 /\ inside = "none" /\ ~ResetQueued /\ handler # NoHandler
  /\ handler # NoHandler /\ state # "kConnecting" => ResetQueued

\* Its socket.
SocketInv ==
  /\ open = IF state = "kConnecting" \/ inside = "connected" THEN {sockfd} ELSE {}
  /\ \A fd \in Fd : IF state = "kConnecting" /\ fd = sockfd
                      THEN HasEvent(events, fd) /\ events[fd].handler = handler
                      ELSE events[fd] = NoEntry
  /\ reported # NoHandler => reported = handler

ConnectorInv == CallsInv /\ PhaseInv /\ AttemptInv /\ SocketInv /\ AttemptNotForgotten

(***************************************************************************)
(* The connection, as long as callers keep their rules.  One that is       *)
(* polled is the Client's, or its handleClose is queued; none is when an   *)
(* attempt is under way.                                                   *)
(***************************************************************************)
UnderWay == StartComing \/ inside # "none" \/ state = "kConnecting" \/ timers > 0
ConnInv ==
  /\ readable \subseteq watched
  /\ pc # "events" => readable = {}
  /\ \A fd \in watched : connection = fd \/ In(tasks, <<"handleClose", fd>>)
  /\ \A fd \in watched : ~Finished(fd)
  /\ UnderWay => Finished(connection)
  /\ open \cap handed = {}
-----------------------------------------------------------------------------
\* What the queue's changes mean for the calls in it.
LEMMA AddsCalls ==
  ASSUME QueueTypes, NEW t \in Task, Adds(t)
  PROVE  /\ \A s : In(tasks', s) <=> In(tasks, s) \/ s = t
         /\ \A s : Once(tasks, s) /\ (s = t => ~In(tasks, s)) => Once(tasks', s)
         /\ ResetEarly => ResetEarly'
<1> HIDE DEF Task
<1>1. tasks \in Seq(Task) /\ tasks' = Append(tasks, t) /\ batch' = batch
  BY DEF QueueTypes, Adds
<1>2. \A s, n : Early(tasks, s, n) => Early(Append(tasks, t), s, n)
  BY <1>1, Queued
<1>3. ResetEarly => ResetEarly'
  BY <1>1, <1>2 DEF ResetEarly, Call
<1> QED
  BY <1>1, <1>3, Queued

LEMMA TakesCalls ==
  ASSUME QueueTypes, Takes
  PROVE  /\ \A s : In(tasks, s) <=> In(tasks', s) \/ s = Head(tasks)
         /\ \A s : Once(tasks, s) => Once(tasks', s) /\ (s = Head(tasks) => ~In(tasks', s))
         /\ ResetEarly => ResetEarly' \/ Call("resetChannel") = Head(tasks)
<1> HIDE DEF Task
<1>1. tasks \in Seq(Task) /\ tasks # <<>> /\ tasks' = Tail(tasks) /\ batch' = batch - 1 /\ batch \in Nat
  <2>1. Len(tasks) \in Nat
    BY LenProperties DEF QueueTypes
  <2> QED
    BY <2>1 DEF QueueTypes, Takes
<1>2. \A s : \A n \in Nat : Early(tasks, s, n) => s = Head(tasks) \/ Early(Tail(tasks), s, n - 1)
  BY <1>1, Dequeued
<1>3. ResetEarly => ResetEarly' \/ Call("resetChannel") = Head(tasks)
  BY <1>1, <1>2 DEF ResetEarly, Call
<1> QED
  BY <1>1, <1>3, Dequeued

LEMMA TakesAndResetsCalls ==
  ASSUME QueueTypes, TakesAndResets, ~ResetQueued
  PROVE  /\ ResetQueued' /\ (ResetOnce => ResetOnce') /\ (StartOnce => StartOnce')
         /\ StartQueued' => StartQueued
         /\ StopQueued' => StopQueued
         /\ \A s : In(tasks, s) => In(tasks', s) \/ s = Head(tasks)
<1> HIDE DEF Task
<1> DEFINE r == Tail(tasks)
           c == Call("resetChannel")
<1>1. tasks \in Seq(Task) /\ tasks # <<>> /\ tasks' = Append(r, c) /\ c \in Task
  BY CallTyped DEF QueueTypes, TakesAndResets, CallName
<1>2. /\ r \in Seq(Task)
      /\ \A s : In(tasks, s) <=> In(r, s) \/ s = Head(tasks)
      /\ \A s : Once(tasks, s) => Once(r, s)
  BY <1>1, Dequeued
<1> HIDE DEF r
<1>3. /\ \A s : In(tasks', s) <=> In(r, s) \/ s = c
      /\ \A s : Once(r, s) /\ (s = c => ~In(r, s)) => Once(tasks', s)
  BY <1>1, <1>2, Queued
<1>4. ~In(r, c)
  BY <1>2 DEF ResetQueued
<1>5. c # Call("startInLoop") /\ c # Call("stopInLoop")
  BY DEF Call
<1> QED
  BY <1>2, <1>3, <1>4, <1>5 DEF ResetQueued, ResetOnce, StartOnce, StartQueued, StopQueued, Call

LEMMA NoCalls == ASSUME tasks = <<>> PROVE ~StartQueued /\ ~StopQueued /\ ~ResetQueued
BY DEF StartQueued, StopQueued, ResetQueued, In

\* The connector's calls in the queue stay as they are.
SameCalls ==
  /\ StartQueued' <=> StartQueued
  /\ StopQueued' <=> StopQueued
  /\ ResetQueued' <=> ResetQueued
  /\ ResetEarly => ResetEarly'
  /\ StartOnce => StartOnce'
  /\ ResetOnce => ResetOnce'

LEMMA QueueKept == UNCHANGED queueVars => SameCalls
BY DEF queueVars, SameCalls, StartQueued, StopQueued, ResetQueued, ResetEarly, StartOnce, ResetOnce, Call

LEMMA ConnTasks ==
  ASSUME QueueTypes
  PROVE  /\ \A t \in Task : t[2] # NoFd /\ Adds(t) => SameCalls
         /\ Takes /\ Head(tasks)[2] # NoFd => SameCalls
<1> HIDE DEF Task
<1> USE DEF SameCalls, StartQueued, StopQueued, ResetQueued, StartOnce, ResetOnce
<1>1. ASSUME NEW t \in Task, t[2] # NoFd, Adds(t) PROVE SameCalls
  <2>1. t # Call("startInLoop") /\ t # Call("stopInLoop") /\ t # Call("resetChannel")
    BY <1>1 DEF Call
  <2> QED
    BY <1>1, <2>1, AddsCalls DEF Call
<1>2. ASSUME Takes, Head(tasks)[2] # NoFd PROVE SameCalls
  <2>1. Head(tasks) # Call("startInLoop") /\ Head(tasks) # Call("stopInLoop")
        /\ Head(tasks) # Call("resetChannel")
    BY <1>2 DEF Call
  <2> QED
    BY <1>2, <2>1, TakesCalls DEF Call
<1> QED
  BY <1>1, <1>2

-----------------------------------------------------------------------------
(***************************************************************************)
(* The attempt, step by step.                                              *)
(***************************************************************************)
LEMMA InitConnector == ClientInit => ConnectorInv
<1> SUFFICES ASSUME ClientInit PROVE ConnectorInv
  OBVIOUS
<1>1. ~StartQueued /\ ~StopQueued /\ ~ResetQueued /\ StartOnce /\ ResetOnce
  <2>1. tasks = <<>>
    BY DEF ClientInit, Init
  <2> QED
    BY <2>1, NoCalls DEF StartOnce, ResetOnce, Once
<1>2. ~StartCalled /\ ~StopCalled /\ ~StartComing
  BY <1>1 DEF ClientInit, Init, StartCalled, StopCalled, StartComing
<1>3. CallsInv
  BY <1>1, <1>2 DEF ClientInit, Init, CallsInv
<1>4. PhaseInv /\ AttemptInv /\ SocketInv /\ AttemptNotForgotten
  BY <1>1, <1>2 DEF ClientInit, Init, PhaseInv, AttemptInv, SocketInv, AttemptNotForgotten
<1> QED
  BY <1>3, <1>4 DEF ConnectorInv

\* A step that is none of the connector's.
connectorVars == <<memberVars, timers, events, open, loopVars, userPc, gaveUp>>

LEMMA AttemptKnown ==
  AttemptNotForgotten <=>
    (connect /\ ~gaveUp => \/ state \in {"kConnecting", "kConnected"} \/ timers > 0
                           \/ inside # "none" \/ StartComing)
BY DEF AttemptNotForgotten, StartComing, StartQueued, StartCalled, In

LEMMA AttemptKnownNext ==
  AttemptNotForgotten' <=>
    (connect' /\ ~gaveUp' => \/ state' \in {"kConnecting", "kConnected"} \/ timers' > 0
                             \/ inside' # "none" \/ StartComing')
BY DEF AttemptNotForgotten, StartComing, StartQueued, StartCalled, In

LEMMA ConnectorKept ==
  ASSUME ConnectorInv, SameCalls, UNCHANGED connectorVars
  PROVE  ConnectorInv'
<1> USE DEF ConnectorInv, SameCalls, connectorVars, memberVars, loopVars
<1>1. StartCalled' <=> StartCalled
  BY DEF StartCalled
<1>2. StopCalled' <=> StopCalled
  BY DEF StopCalled
<1>3. StartComing' <=> StartComing
  BY <1>1 DEF StartComing
<1>4. CallsInv'
  BY <1>1, <1>2 DEF CallsInv
<1>5. PhaseInv' /\ AttemptInv'
  BY <1>3 DEF PhaseInv, AttemptInv, Unused
<1>6. SocketInv'
  BY DEF SocketInv
<1>7. AttemptNotForgotten'
  BY <1>3, AttemptKnown, AttemptKnownNext
<1> QED
  BY <1>4, <1>5, <1>6, <1>7

\* The functions of the connector that connect() leads to: no call is queued
\* or made.
LEMMA CallsKept ==
  ASSUME CallsInv, SameCalls, UNCHANGED <<connect, userPc>>
  PROVE  /\ CallsInv' /\ (StartComing' <=> StartComing)
         /\ (ResetQueued' <=> ResetQueued) /\ (ResetEarly => ResetEarly')
BY DEF CallsInv, SameCalls, StartCalled, StopCalled, StartComing

LEMMA ConnectSteps ==
  ASSUME TypeInv, ConnectorInv, Connecting \/ ConnectFails \/ ConnectGivesUp
  PROVE  ConnectorInv'
<1> USE DEF ConnectorInv, PhaseInv
<1>1. UNCHANGED queueVars /\ UNCHANGED <<connect, userPc, pc, reported, due, timers>>
      /\ inside = "connect"
  BY DEF Connecting, ConnectFails, ConnectGivesUp
<1>2. /\ CallsInv' /\ (StartComing' <=> StartComing)
      /\ (ResetQueued' <=> ResetQueued) /\ (ResetEarly => ResetEarly')
  BY <1>1, QueueKept, CallsKept
<1>3. /\ state # "kConnecting" /\ timers = 0 /\ ~ResetQueued /\ ~StartComing
      /\ handler = NoHandler /\ reported = NoHandler /\ open = {}
  BY <1>1 DEF AttemptInv, Unused, SocketInv
<1>4. PhaseInv'
  BY <1>1
<1>5. CASE Connecting
  <2>1. PICK fd \in Fd \ (open \cup handed), h \in Handler \ {handler} :
          /\ sockfd' = fd /\ open' = open \cup {fd}
          /\ handler' = h
          /\ events' = AfterSetEvent(AfterAddFd(events, fd, h), fd, "kWrite")
    BY <1>5 DEF Connecting
  <2>2. /\ HasEvent(events', fd) /\ events'[fd].handler = h
        /\ \A f \in Fd : f # fd => events'[f] = events[f]
    BY <2>1, TableAdded DEF TypeInv, MemberTypes
  <2>3. \A f \in Fd : events[f] = NoEntry
    BY <1>3 DEF SocketInv
  <2>4. SocketInv'
    BY <1>1, <1>3, <1>5, <2>1, <2>2, <2>3 DEF SocketInv, Connecting
  <2>5. AttemptInv'
    BY <1>1, <1>2, <1>3, <1>5, <2>1, FdAssumption DEF AttemptInv, Connecting
  <2>6. AttemptNotForgotten'
    BY <1>5 DEF AttemptNotForgotten, Connecting
  <2> QED
    BY <1>2, <1>4, <2>4, <2>5, <2>6
<1>6. CASE ConnectFails
  <2>1. SocketInv'
    BY <1>1, <1>3, <1>6 DEF SocketInv, ConnectFails, socketVars
  <2>2. AttemptInv'
    BY <1>1, <1>2, <1>3, <1>6 DEF AttemptInv, ConnectFails
  <2>3. AttemptNotForgotten'
    BY <1>6 DEF AttemptNotForgotten, ConnectFails
  <2> QED
    BY <1>2, <1>4, <2>1, <2>2, <2>3
<1>7. CASE ConnectGivesUp
  <2>1. SocketInv'
    BY <1>1, <1>3, <1>7 DEF SocketInv, ConnectGivesUp, socketVars
  <2>2. AttemptInv'
    BY <1>1, <1>2, <1>3, <1>7 DEF AttemptInv, ConnectGivesUp
  <2>3. AttemptNotForgotten'
    BY <1>7 DEF AttemptNotForgotten, ConnectGivesUp
  <2> QED
    BY <1>2, <1>4, <2>1, <2>2, <2>3
<1> QED
  BY <1>5, <1>6, <1>7

LEMMA EventSteps ==
  ASSUME TypeInv, ConnectorInv, Retry \/ HandleWrite \/ HandOver \/ RetryTimer
  PROVE  ConnectorInv'
<1> USE DEF ConnectorInv
<1>1. CASE Retry
  <2>1. /\ CallsInv' /\ (StartComing' <=> StartComing) /\ (ResetQueued' <=> ResetQueued)
        /\ (ResetEarly => ResetEarly')
    BY <1>1, QueueKept, CallsKept DEF Retry, memberVars
  <2>2. due = 0 /\ timers = 0 /\ timers' \in {0, 1}
    BY <1>1 DEF Retry, AttemptInv, TypeInv, PhaseTypes
  <2>3. PhaseInv' /\ SocketInv'
    BY <1>1 DEF Retry, PhaseInv, SocketInv, socketVars, AttemptInv
  <2>4. AttemptInv'
    BY <1>1, <2>1, <2>2 DEF Retry, AttemptInv
  <2>5. AttemptNotForgotten'
    BY <1>1, <2>2 DEF Retry, AttemptNotForgotten
  <2> QED
    BY <2>1, <2>3, <2>4, <2>5
<1>2. CASE HandleWrite /\ state # "kConnecting"
  <2>1. /\ CallsInv' /\ (StartComing' <=> StartComing) /\ (ResetQueued' <=> ResetQueued)
        /\ (ResetEarly => ResetEarly')
    BY <1>2, QueueKept, CallsKept DEF HandleWrite, queueVars
  <2>2. PhaseInv' /\ SocketInv'
    BY <1>2 DEF HandleWrite, PhaseInv, SocketInv
  <2>3. AttemptInv'
    BY <1>2, <2>1 DEF HandleWrite, AttemptInv, Unused
  <2>4. AttemptNotForgotten'
    BY <1>2, <2>1, AttemptKnown, AttemptKnownNext DEF HandleWrite
  <2> QED
    BY <2>1, <2>2, <2>3, <2>4
<1>3. CASE HandleWrite /\ state = "kConnecting"
  <2> DEFINE c == Call("resetChannel")
  <2>1. c \in Task /\ Adds(c) /\ QueueTypes
    BY <1>3, CallTyped DEF HandleWrite, RemoveAndResetChannel, Adds, CallName, TypeInv
  <2>2. /\ \A s : In(tasks', s) <=> In(tasks, s) \/ s = c
        /\ \A s : Once(tasks, s) /\ (s = c => ~In(tasks, s)) => Once(tasks', s)
    BY <2>1, AddsCalls
  <2>3. timers = 0 /\ inside = "none" /\ ~ResetQueued /\ handler # NoHandler /\ ~StartComing
        /\ pc = "events"
    BY <1>3 DEF AttemptInv, HandleWrite
  <2>4. c # Call("startInLoop") /\ c # Call("stopInLoop")
    BY DEF Call
  <2>5. /\ StartQueued' <=> StartQueued
        /\ StopQueued' <=> StopQueued
        /\ ResetQueued' /\ (StartOnce => StartOnce') /\ (ResetOnce => ResetOnce')
    BY <2>2, <2>3, <2>4 DEF StartQueued, StopQueued, ResetQueued, StartOnce, ResetOnce, Call
  <2>6. (StartCalled' <=> StartCalled) /\ (StopCalled' <=> StopCalled)
        /\ UNCHANGED <<connect, userPc, timers, pc, due>>
    BY <1>3 DEF HandleWrite, StartCalled, StopCalled
  <2>7. CallsInv' /\ ~StartComing'
    BY <2>3, <2>5, <2>6 DEF CallsInv, StartComing
  <2>8. PhaseInv'
    BY <2>3, <2>6 DEF PhaseInv
  <2>9. AttemptInv'
    BY <1>3, <2>3, <2>5, <2>6, <2>7 DEF AttemptInv, HandleWrite
  <2>10. SocketInv'
    <3>1. events \in Table /\ sockfd \in Fd /\ HasEvent(events, sockfd)
      BY <1>3 DEF TypeInv, MemberTypes, SocketNamed, SocketInv
    <3>2. events' = AfterDeleteFd(events, sockfd)
      BY <1>3 DEF HandleWrite, RemoveAndResetChannel
    <3>3. events'[sockfd] = NoEntry /\ \A f \in Fd : f # sockfd => events'[f] = events[f]
      BY <3>1, <3>2, TableDeleted
    <3>4. handler' = handler /\ reported' = reported /\ sockfd' = sockfd
      BY <1>3 DEF HandleWrite, RemoveAndResetChannel
    <3>5. open = {sockfd} /\ (reported # NoHandler => reported = handler)
      BY <1>3 DEF SocketInv
    <3>6. \A f \in Fd : events'[f] = NoEntry
      BY <1>3, <3>3 DEF SocketInv
    <3>7. open' = IF state' = "kConnecting" \/ inside' = "connected" THEN {sockfd'} ELSE {}
      BY <1>3, <3>4, <3>5 DEF HandleWrite
    <3> QED
      BY <1>3, <3>4, <3>5, <3>6, <3>7 DEF SocketInv, HandleWrite
  <2>11. AttemptNotForgotten'
    BY <1>3 DEF HandleWrite, AttemptNotForgotten
  <2> QED
    BY <2>7, <2>8, <2>9, <2>10, <2>11
<1>4. CASE HandOver
  <2>1. /\ CallsInv' /\ (StartComing' <=> StartComing) /\ (ResetQueued' <=> ResetQueued)
        /\ (ResetEarly => ResetEarly')
    BY <1>4, QueueKept, CallsKept DEF HandOver, memberVars
  <2>2. PhaseInv' /\ SocketInv'
    BY <1>4 DEF HandOver, PhaseInv, SocketInv, memberVars, AttemptInv
  <2>3. AttemptInv'
    BY <1>4, <2>1 DEF HandOver, AttemptInv, memberVars
  <2>4. AttemptNotForgotten'
    BY <1>4 DEF HandOver, AttemptInv, AttemptNotForgotten, memberVars
  <2> QED
    BY <2>1, <2>2, <2>3, <2>4
<1>5. CASE RetryTimer
  <2>1. /\ CallsInv' /\ (StartComing' <=> StartComing) /\ (ResetQueued' <=> ResetQueued)
        /\ (ResetEarly => ResetEarly')
    BY <1>5, QueueKept, CallsKept DEF RetryTimer, memberVars
  <2>2. timers = 1 /\ timers' = 0 /\ due > 0 /\ state # "kConnecting" /\ ~ResetQueued
        /\ ~StartComing /\ due' = 0
    BY <1>5 DEF RetryTimer, AttemptInv, TypeInv, PhaseTypes
  <2>3. PhaseInv' /\ SocketInv'
    BY <1>5, <2>2 DEF RetryTimer, StartInLoop, PhaseInv, SocketInv, memberVars, socketVars, Outside
  <2>4. AttemptInv'
    BY <1>5, <2>1, <2>2 DEF RetryTimer, StartInLoop, AttemptInv, Unused, memberVars
  <2>5. AttemptNotForgotten'
    BY <1>5 DEF RetryTimer, StartInLoop, AttemptNotForgotten, memberVars
  <2> QED
    BY <2>1, <2>3, <2>4, <2>5
<1> QED
  BY <1>1, <1>2, <1>3, <1>4, <1>5

LEMMA PhaseSteps ==
  ASSUME TypeInv, ConnectorInv, Poll \/ RunTasks \/ EndTasks
  PROVE  ConnectorInv'
<1> USE DEF ConnectorInv
<1>1. /\ (StartQueued' <=> StartQueued) /\ (StopQueued' <=> StopQueued) /\ (ResetQueued' <=> ResetQueued)
      /\ (StartOnce' <=> StartOnce) /\ (ResetOnce' <=> ResetOnce)
  BY DEF Poll, RunTasks, EndTasks, queueVars, StartQueued, StopQueued, ResetQueued, StartOnce,
     ResetOnce, Call
<1>2. (StartCalled' <=> StartCalled) /\ (StopCalled' <=> StopCalled) /\ (StartComing' <=> StartComing)
  BY <1>1 DEF Poll, RunTasks, EndTasks, StartCalled, StopCalled, StartComing
<1>3. CallsInv'
  BY <1>1, <1>2 DEF Poll, RunTasks, EndTasks, CallsInv, memberVars
<1>4. UNCHANGED <<memberVars, timers, socketVars, inside, gaveUp>>
  BY DEF Poll, RunTasks, EndTasks
<1>5. AttemptNotForgotten'
  BY <1>2, <1>4, AttemptKnown, AttemptKnownNext DEF memberVars
<1>6. CASE Poll
  <2>1. PhaseInv'
    BY <1>6 DEF Poll, PhaseInv
  <2>2. timers > 0 => ~ResetQueued
    BY <1>6 DEF Poll, AttemptInv
  <2>3. AttemptInv'
    BY <1>1, <1>2, <1>4, <1>6, <2>2 DEF Poll, AttemptInv, Unused, memberVars
  <2>4. reported' \in {NoHandler, handler}
    <3>1. \A fd \in Fd : Interest(events, fd) # {} => events[fd].handler = handler
      BY DEF Interest, HasEvent, SocketInv
    <3> QED
      BY <1>6, <3>1 DEF Poll
  <2>5. SocketInv'
    BY <1>4, <2>4 DEF SocketInv, memberVars, socketVars
  <2> QED
    BY <1>3, <1>5, <2>1, <2>3, <2>5
<1>7. CASE RunTasks
  <2>1. PhaseInv'
    BY <1>7 DEF RunTasks, PhaseInv
  <2>2. ResetQueued => ResetEarly'
    <3>1. batch' = Len(tasks) /\ tasks' = tasks
      BY <1>7 DEF RunTasks
    <3>2. Len(tasks) \in Nat
      BY LenProperties DEF TypeInv, QueueTypes
    <3> QED
      BY <3>1, <3>2 DEF ResetQueued, ResetEarly, In, Early, Call
  <2>3. AttemptInv'
    BY <1>1, <1>2, <1>4, <1>7, <2>2 DEF RunTasks, AttemptInv, Unused, memberVars, Outside
  <2>4. SocketInv'
    BY <1>4, <1>7 DEF RunTasks, SocketInv, memberVars, socketVars
  <2> QED
    BY <1>3, <1>5, <2>1, <2>3, <2>4
<1>8. CASE EndTasks
  <2>1. PhaseInv'
    BY <1>8 DEF EndTasks, PhaseInv
  <2>2. ~ResetEarly
    BY <1>8 DEF EndTasks, ResetEarly, Early
  <2>3. AttemptInv'
    BY <1>1, <1>2, <1>4, <1>8, <2>2 DEF EndTasks, AttemptInv, Unused, memberVars, Outside
  <2>4. SocketInv'
    BY <1>4, <1>8 DEF EndTasks, SocketInv, memberVars, socketVars
  <2> QED
    BY <1>3, <1>5, <2>1, <2>3, <2>4
<1> QED
  BY <1>6, <1>7, <1>8

LEMMA TaskSteps ==
  ASSUME TypeInv, ConnectorInv, RunTask
  PROVE  ConnectorInv'
<1> USE DEF ConnectorInv
<1>1. /\ UNCHANGED <<connect, sockfd, delay, timers, pc, reported, due, userPc, gaveUp>>
      /\ pc = "tasks" /\ inside = "none" /\ QueueTypes
  BY DEF RunTask, Outside, TypeInv
<1>2. reported = NoHandler /\ due = 0 /\ PhaseInv'
  BY <1>1 DEF PhaseInv
<1>3. (StartCalled' <=> StartCalled) /\ (StopCalled' <=> StopCalled)
  BY <1>1 DEF StartCalled, StopCalled
<1>4. tasks # <<>> /\ batch > 0 /\ batch' = batch - 1
  <2>1. Len(tasks) \in Nat /\ Len(tasks) > 0
    BY DEF RunTask, TypeInv, QueueTypes
  <2> QED
    BY <2>1 DEF RunTask
<1>5. CASE Head(tasks) = Call("startInLoop") /\ tasks' = Tail(tasks) /\ StartInLoop(connect)
           /\ UNCHANGED <<state, open, events, handler>>
  <2>1. Takes
    BY <1>4, <1>5 DEF Takes
  <2>2. /\ Head(tasks) # Call("stopInLoop") /\ Head(tasks) # Call("resetChannel")
    BY <1>5 DEF Call
  <2>3. /\ StartQueued /\ ~StartQueued' /\ (StopQueued' <=> StopQueued) /\ (ResetQueued' <=> ResetQueued)
        /\ StartOnce' /\ ResetOnce'
    BY <1>1, <1>5, <2>1, <2>2, TakesCalls
       DEF CallsInv, StartQueued, StopQueued, ResetQueued, StartOnce, ResetOnce, Call
  <2>4. state # "kConnecting" /\ timers = 0 /\ ~ResetQueued /\ ~StartCalled
    BY <2>3 DEF AttemptInv, CallsInv, StartComing
  <2>5. CallsInv' /\ ~StartComing'
    BY <1>1, <1>3, <2>3, <2>4 DEF CallsInv, StartComing
  <2>6. AttemptInv'
    BY <1>1, <1>5, <2>3, <2>4, <2>5 DEF AttemptInv, Unused, StartInLoop
  <2>7. SocketInv'
    BY <1>1, <1>5, <2>4 DEF SocketInv, StartInLoop
  <2>8. AttemptNotForgotten'
    BY <1>1, <1>5 DEF AttemptNotForgotten, StartInLoop
  <2> QED
    BY <1>2, <2>5, <2>6, <2>7, <2>8
<1>6. CASE /\ Head(tasks) = Call("stopInLoop") /\ state = "kConnecting"
           /\ StopInLoop(Tail(tasks)) /\ UNCHANGED inside
  <2>1. TakesAndResets
    BY <1>4, <1>6 DEF TakesAndResets, StopInLoop, RemoveAndResetChannel
  <2>2. timers = 0 /\ ~ResetQueued /\ ~StartComing
    BY <1>6 DEF AttemptInv
  <2>3. /\ ResetQueued' /\ ResetOnce' /\ StartOnce' /\ (StartQueued' => StartQueued)
        /\ (StopQueued' => StopQueued)
    BY <1>1, <2>1, <2>2, TakesAndResetsCalls DEF CallsInv
  <2>4. StopQueued
    <3>1. Len(tasks) \in Nat /\ Len(tasks) > 0 /\ Head(tasks) = tasks[1]
      BY <1>1, <1>4, HeadTailProperties, EmptySeq, LenProperties DEF QueueTypes
    <3> QED
      BY <1>6, <3>1 DEF StopQueued, In
  <2>5. ~connect /\ ~connect'
    BY <1>1, <2>4 DEF CallsInv
  <2>6. CallsInv' /\ ~StartComing'
    BY <1>1, <1>3, <2>2, <2>3, <2>5 DEF CallsInv, StartComing
  <2>7. AttemptInv'
    BY <1>1, <1>6, <2>2, <2>3, <2>6 DEF AttemptInv, StopInLoop
  <2>8. SocketInv'
    <3>1. events \in Table /\ sockfd \in Fd /\ HasEvent(events, sockfd)
      BY <1>6 DEF TypeInv, MemberTypes, SocketNamed, SocketInv
    <3>2. events' = AfterDeleteFd(events, sockfd)
      BY <1>6 DEF StopInLoop, RemoveAndResetChannel
    <3>3. events'[sockfd] = NoEntry /\ \A f \in Fd : f # sockfd => events'[f] = events[f]
      BY <3>1, <3>2, TableDeleted
    <3>4. \A f \in Fd : events'[f] = NoEntry
      BY <1>6, <3>3 DEF SocketInv
    <3>5. open = {sockfd} /\ open' = {}
      BY <1>6 DEF SocketInv, StopInLoop
    <3> QED
      BY <1>1, <1>2, <1>6, <3>4, <3>5 DEF SocketInv, StopInLoop
  <2>9. AttemptNotForgotten'
    BY <2>5 DEF AttemptNotForgotten
  <2> QED
    BY <1>2, <2>6, <2>7, <2>8, <2>9
<1>7. CASE /\ Head(tasks) = Call("stopInLoop") /\ state # "kConnecting"
           /\ StopInLoop(Tail(tasks)) /\ UNCHANGED inside
  <2>1. Takes /\ UNCHANGED <<state, open, events, handler>>
    BY <1>4, <1>7 DEF Takes, StopInLoop
  <2>2. /\ Head(tasks) # Call("startInLoop") /\ Head(tasks) # Call("resetChannel")
    BY <1>7 DEF Call
  <2>3. /\ (StartQueued' <=> StartQueued) /\ (StopQueued' => StopQueued)
        /\ (ResetQueued' <=> ResetQueued)
        /\ StartOnce' /\ ResetOnce' /\ (ResetEarly => ResetEarly')
    BY <1>1, <2>1, <2>2, TakesCalls
       DEF CallsInv, StartQueued, StopQueued, ResetQueued, StartOnce, ResetOnce, Call
  <2>4. CallsInv' /\ (StartComing' <=> StartComing)
    BY <1>1, <1>3, <2>3 DEF CallsInv, StartComing
  <2>5. AttemptInv'
    BY <1>1, <1>7, <2>1, <2>3, <2>4 DEF AttemptInv
  <2>6. SocketInv'
    BY <1>1, <1>7, <2>1 DEF SocketInv
  <2>7. AttemptNotForgotten'
    BY <1>1, <1>7, <2>1, <2>4, AttemptKnown, AttemptKnownNext
  <2> QED
    BY <1>2, <2>4, <2>5, <2>6, <2>7
<1>8. CASE /\ Head(tasks) = Call("resetChannel") /\ tasks' = Tail(tasks)
           /\ handler' = NoHandler /\ UNCHANGED <<state, open, events, inside>>
  <2>1. Takes
    BY <1>4, <1>8 DEF Takes
  <2>2. /\ Head(tasks) # Call("startInLoop") /\ Head(tasks) # Call("stopInLoop")
    BY <1>8 DEF Call
  <2>3. /\ (StartQueued' <=> StartQueued) /\ (StopQueued' <=> StopQueued) /\ ResetQueued /\ ~ResetQueued'
        /\ StartOnce' /\ ResetOnce'
    BY <1>1, <1>8, <2>1, <2>2, TakesCalls
       DEF CallsInv, StartQueued, StopQueued, ResetQueued, StartOnce, ResetOnce, Call
  <2>4. CallsInv' /\ (StartComing' <=> StartComing)
    BY <1>1, <1>3, <2>3 DEF CallsInv, StartComing
  <2>5. AttemptInv'
    BY <1>1, <1>8, <2>3, <2>4 DEF AttemptInv
  <2>6. SocketInv'
    BY <1>1, <1>2, <1>8, <2>3 DEF SocketInv, AttemptInv
  <2>7. AttemptNotForgotten'
    BY <1>1, <1>8, <2>4, AttemptKnown, AttemptKnownNext
  <2> QED
    BY <1>2, <2>4, <2>5, <2>6, <2>7
<1> QED
  BY <1>1, <1>5, <1>6, <1>7, <1>8 DEF RunTask

LEMMA CallSteps ==
  ASSUME TypeInv, ConnectorInv,
         Start \/ Stop \/ \E u \in Threads : StartFromThread(u) \/ StopFromThread(u) \/ QueueCall(u)
  PROVE  ConnectorInv'
<1> USE DEF ConnectorInv
<1>1. ASSUME UNCHANGED <<pc, reported, due>> PROVE PhaseInv'
  BY <1>1 DEF PhaseInv
<1>2. ASSUME UNCHANGED <<state, inside, open, events, sockfd, handler, reported>> PROVE SocketInv'
  BY <1>2 DEF SocketInv
<1>3. ASSUME Quiet
      PROVE  /\ ~StartQueued /\ ~StopQueued /\ ~ResetQueued /\ ~StartCalled /\ ~StopCalled
             /\ ~StartComing
             /\ state # "kConnecting" /\ handler = NoHandler /\ timers = 0 /\ inside = "none"
  BY <1>3, NoCalls DEF Quiet, Outside, StartCalled, StopCalled, StartComing
<1>4. CASE Start
  <2>1. SameCalls /\ UNCHANGED <<userPc, pc, reported, due>>
    BY <1>4, QueueKept DEF Start
  <2>2. Quiet
    BY <1>4 DEF Start
  <2>3. /\ ~StartCalled' /\ ~StopCalled' /\ ~StartComing'
    BY <1>3, <2>1, <2>2 DEF SameCalls, StartCalled, StopCalled, StartComing
  <2>4. CallsInv'
    BY <1>3, <2>1, <2>2, <2>3 DEF CallsInv, SameCalls
  <2>5. AttemptInv'
    BY <1>3, <1>4, <2>1, <2>2, <2>3 DEF Start, StartInLoop, AttemptInv, Unused, SameCalls
  <2>6. SocketInv'
    BY <1>3, <1>4, <2>2 DEF Start, StartInLoop, SocketInv, socketVars
  <2>7. AttemptNotForgotten'
    BY <1>4 DEF Start, StartInLoop, AttemptNotForgotten
  <2> QED
    BY <1>1, <2>1, <2>4, <2>5, <2>6, <2>7
<1>5. CASE Stop
  <2>1. Adds(Call("stopInLoop")) /\ Call("stopInLoop") \in Task /\ QueueTypes
    BY <1>5, CallTyped DEF Stop, Adds, CallName, TypeInv
  <2>2. Call("stopInLoop") # Call("startInLoop") /\ Call("stopInLoop") # Call("resetChannel")
    BY DEF Call
  <2>3. /\ (StartQueued' <=> StartQueued) /\ (ResetQueued' <=> ResetQueued)
        /\ StartOnce' /\ ResetOnce' /\ (ResetEarly => ResetEarly')
    BY <2>1, <2>2, AddsCalls DEF CallsInv, StartQueued, ResetQueued, StartOnce, ResetOnce, Call
  <2>4. (StartCalled' <=> StartCalled) /\ ~connect' /\ userPc' = userPc
    BY <1>5 DEF Stop, StartCalled
  <2>5. CallsInv' /\ (StartComing' <=> StartComing)
    BY <2>3, <2>4 DEF CallsInv, StartComing
  <2>6. AttemptInv'
    BY <1>5, <2>3, <2>5 DEF Stop, AttemptInv, Unused, loopVars
  <2>7. PhaseInv' /\ SocketInv'
    BY <1>1, <1>2, <1>5 DEF Stop, loopVars, socketVars
  <2>8. AttemptNotForgotten'
    BY <2>4 DEF AttemptNotForgotten
  <2> QED
    BY <2>5, <2>6, <2>7, <2>8
<1>6. ASSUME NEW u \in Threads, StartFromThread(u) PROVE ConnectorInv'
  <2>1. SameCalls /\ Quiet /\ connect' = TRUE
    BY <1>6, QueueKept DEF StartFromThread
  <2>2. userPc' = [userPc EXCEPT ![u] = "startInLoop"]
        /\ userPc \in [Threads -> {"idle", "startInLoop", "stopInLoop"}]
    BY <1>6 DEF StartFromThread, TypeInv, CallerTypes
  <2>3. \A v \in Threads : userPc'[v] = IF v = u THEN "startInLoop" ELSE "idle"
    BY <2>1, <2>2 DEF Quiet
  <2>4. ~StartQueued' /\ ~StopQueued' /\ ~ResetQueued' /\ ~StopCalled' /\ StartCalled' /\ StartComing'
    BY <1>3, <2>1, <2>3 DEF SameCalls, StartCalled, StopCalled, StartComing
  <2>5. CallsInv'
    BY <2>1, <2>3, <2>4 DEF CallsInv, SameCalls
  <2>6. AttemptInv'
    BY <1>3, <1>6, <2>1, <2>4 DEF StartFromThread, AttemptInv, loopVars
  <2>7. PhaseInv' /\ SocketInv'
    BY <1>1, <1>2, <1>6 DEF StartFromThread, loopVars, socketVars
  <2>8. AttemptNotForgotten'
    BY <2>4, AttemptKnownNext
  <2> QED
    BY <2>5, <2>6, <2>7, <2>8
<1>7. ASSUME NEW u \in Threads, StopFromThread(u) PROVE ConnectorInv'
  <2>1. SameCalls /\ ~connect'
    BY <1>7, QueueKept DEF StopFromThread
  <2>2. /\ userPc' = [userPc EXCEPT ![u] = "stopInLoop"] /\ userPc[u] = "idle"
        /\ userPc \in [Threads -> {"idle", "startInLoop", "stopInLoop"}]
    BY <1>7 DEF StopFromThread, TypeInv, CallerTypes
  <2>3. \A v \in Threads : userPc'[v] = "startInLoop" <=> userPc[v] = "startInLoop"
    BY <2>2
  <2>4. StartCalled' <=> StartCalled
    BY <2>3 DEF StartCalled
  <2>5. CallsInv' /\ (StartComing' <=> StartComing)
    BY <2>1, <2>3, <2>4 DEF CallsInv, SameCalls, StartComing
  <2>6. AttemptInv'
    BY <1>7, <2>1, <2>5 DEF StopFromThread, AttemptInv, Unused, SameCalls, loopVars
  <2>7. PhaseInv' /\ SocketInv'
    BY <1>1, <1>2, <1>7 DEF StopFromThread, loopVars, socketVars
  <2>8. AttemptNotForgotten'
    BY <2>1 DEF AttemptNotForgotten
  <2> QED
    BY <2>5, <2>6, <2>7, <2>8
<1>8. ASSUME NEW u \in Threads, QueueCall(u) PROVE ConnectorInv'
  <2> DEFINE c == Call(userPc[u])
  <2>1. userPc[u] \in {"startInLoop", "stopInLoop"} /\ userPc' = [userPc EXCEPT ![u] = "idle"]
        /\ userPc \in [Threads -> {"idle", "startInLoop", "stopInLoop"}]
    BY <1>8 DEF QueueCall, TypeInv, CallerTypes
  <2>2. c \in Task /\ Adds(c) /\ QueueTypes
    BY <1>8, <2>1, CallTyped DEF QueueCall, Adds, CallName, TypeInv
  <2>3. UNCHANGED <<memberVars, timers, socketVars, loopVars, gaveUp>>
    BY <1>8 DEF QueueCall
  <2>4. \A v \in Threads : userPc'[v] = IF v = u THEN "idle" ELSE userPc[v]
    BY <2>1
  <2>5. /\ (ResetQueued' <=> ResetQueued) /\ ResetOnce' /\ (ResetEarly => ResetEarly')
    BY <2>1, <2>2, AddsCalls DEF CallsInv, ResetQueued, ResetOnce, Call
  <2>6. CASE userPc[u] = "startInLoop"
    <3>1. StartQueued' /\ (StopQueued' <=> StopQueued)
      BY <2>2, <2>6, AddsCalls DEF StartQueued, StopQueued, Call
    <3>2. ~StartQueued
      BY <2>6 DEF CallsInv, StartCalled
    <3>3. StartOnce'
      BY <2>2, <2>6, <3>2, AddsCalls DEF CallsInv, StartQueued, StartOnce, Call
    <3>4. StartComing /\ StartComing' /\ ~StartCalled'
      BY <2>4, <2>6, <3>1 DEF CallsInv, StartComing, StartCalled
    <3>5. StopCalled' => StopCalled
      BY <2>4 DEF StopCalled
    <3>6. CallsInv'
      BY <2>3, <2>4, <2>5, <3>1, <3>3, <3>4, <3>5 DEF CallsInv, memberVars
    <3>7. AttemptInv'
      BY <2>3, <2>5, <3>4 DEF AttemptInv, Unused, memberVars, loopVars
    <3>8. PhaseInv' /\ SocketInv'
      BY <1>1, <1>2, <2>3 DEF memberVars, loopVars, socketVars
    <3>9. AttemptNotForgotten'
      BY <3>4, AttemptKnownNext
    <3> QED
      BY <3>6, <3>7, <3>8, <3>9
  <2>7. CASE userPc[u] = "stopInLoop"
    <3>1. (StartQueued' <=> StartQueued) /\ StartOnce'
      BY <2>2, <2>7, AddsCalls DEF CallsInv, StartQueued, StartOnce, Call
    <3>2. \A v \in Threads : userPc'[v] = "startInLoop" <=> userPc[v] = "startInLoop"
      BY <2>4, <2>7
    <3>3. StartCalled' <=> StartCalled
      BY <3>2 DEF StartCalled
    <3>4. ~connect /\ ~connect'
      BY <2>3, <2>7 DEF CallsInv, StopCalled, memberVars
    <3>5. CallsInv' /\ (StartComing' <=> StartComing)
      BY <2>5, <3>1, <3>2, <3>3, <3>4 DEF CallsInv, StartComing
    <3>6. AttemptInv'
      BY <2>3, <2>5, <3>5 DEF AttemptInv, Unused, memberVars, loopVars
    <3>7. PhaseInv' /\ SocketInv'
      BY <1>1, <1>2, <2>3 DEF memberVars, loopVars, socketVars
    <3>8. AttemptNotForgotten'
      BY <3>4 DEF AttemptNotForgotten
    <3> QED
      BY <3>5, <3>6, <3>7, <3>8
  <2> QED
    BY <2>1, <2>6, <2>7
<1> QED
  BY <1>4, <1>5, <1>6, <1>7, <1>8

\* What reads, closes, disconnects or forgets the connection.
ConnStep == \/ RunConnTask \/ Disconnect \/ DisconnectFromThread \/ Destroy
            \/ \E fd \in Fd : HandleRead(fd) \/ DropCopy(fd)

LEMMA ConnStepQueue ==
  ASSUME TypeInv, ConnStep
  PROVE  /\ UNCHANGED connectorVars /\ SameCalls
         /\ \/ UNCHANGED queueVars
            \/ RunConnTask /\ Takes
            \/ DisconnectFromThread /\ Adds(<<"shutdownInLoop", connection>>)
            \/ Destroy /\ ForceClose(connection) /\ Adds(<<"handleClose", connection>>)
<1> USE DEF connectorVars, TypeInv
<1>1. CASE RunConnTask
  <2>1. tasks # <<>>
    BY <1>1, EmptySeq DEF RunConnTask, QueueTypes
  <2>2. Takes /\ Head(tasks)[2] # NoFd
    BY <1>1, <2>1 DEF RunConnTask, Takes
  <2> QED
    BY <1>1, <2>2, ConnTasks DEF RunConnTask
<1>2. CASE Disconnect
  BY <1>2, QueueKept DEF Disconnect, Disconnecting, socketVars
<1>3. CASE DisconnectFromThread
  <2>1. connection \in Fd /\ connection # NoFd
    BY <1>3, FdAssumption DEF DisconnectFromThread, Disconnecting, IsConnected
  <2>2. Adds(<<"shutdownInLoop", connection>>) /\ <<"shutdownInLoop", connection>> \in Task
    BY <1>3, <2>1 DEF DisconnectFromThread, Adds, Task
  <2> QED
    BY <1>3, <2>1, <2>2, ConnTasks DEF DisconnectFromThread, Disconnecting, socketVars
<1>4. CASE Destroy
  <2>1. CASE UNCHANGED tasks
    BY <1>4, <2>1, QueueKept DEF Destroy, queueVars
  <2>2. CASE IsConnected(connection) /\ ForceClose(connection)
    <3>1. connection \in Fd /\ connection # NoFd
      BY <2>2, FdAssumption DEF IsConnected
    <3>2. Adds(<<"handleClose", connection>>) /\ <<"handleClose", connection>> \in Task
      BY <1>4, <2>2, <3>1 DEF Destroy, ForceClose, Adds, Task
    <3> QED
      BY <1>4, <2>2, <3>1, <3>2, ConnTasks DEF Destroy
  <2> QED
    BY <1>4, <2>1, <2>2 DEF Destroy
<1>5. ASSUME NEW fd \in Fd, HandleRead(fd) PROVE UNCHANGED connectorVars /\ SameCalls
             /\ UNCHANGED queueVars
  BY <1>5, QueueKept DEF HandleRead
<1>6. ASSUME NEW fd \in Fd, DropCopy(fd) PROVE UNCHANGED connectorVars /\ SameCalls
             /\ UNCHANGED queueVars
  BY <1>6, QueueKept DEF DropCopy, queueVars
<1> QED
  BY <1>1, <1>2, <1>3, <1>4, <1>5, <1>6 DEF ConnStep

\* Every step is the connector's, a poll, the hand-over, the connection's,
\* or none.
LEMMA StepKinds ==
  [ClientNext]_allVars =>
    \/ (ConnectorStep \/ ConnectorCall) /\ UNCHANGED clientVars
    \/ PollAll \/ HandedOver \/ ConnStep \/ UNCHANGED allVars
BY DEF ClientNext, LoopStep, UserStep, ConnStep

LEMMA NextConnector ==
  ASSUME TypeInv, ConnectorInv, [ClientNext]_allVars
  PROVE  ConnectorInv'
<1>1. CASE ConnectorStep
  BY <1>1, ConnectSteps, EventSteps, PhaseSteps, TaskSteps DEF ConnectorStep
<1>2. CASE ConnectorCall
  BY <1>2, CallSteps DEF ConnectorCall
<1>3. CASE PollAll \/ HandedOver
  BY <1>3, PhaseSteps, EventSteps DEF PollAll, HandedOver
<1>4. CASE ConnStep
  BY <1>4, ConnStepQueue, ConnectorKept
<1>5. CASE UNCHANGED allVars
  BY <1>5, QueueKept, ConnectorKept
     DEF allVars, vars, connectorVars, socketVars, memberVars, loopVars, queueVars
<1> QED
  BY <1>1, <1>2, <1>3, <1>4, <1>5, StepKinds

-----------------------------------------------------------------------------
(***************************************************************************)
(* The connection, step by step.                                           *)
(***************************************************************************)
LEMMA InitConn == ClientInit => ConnInv
BY DEF ClientInit, Init, ConnInv, UnderWay, StartComing, StartQueued, StartCalled, In, Finished

LEMMA FinishedWhen ==
  ASSUME ConnTypes
  PROVE  \A fd : Finished(fd) <=> fd \notin Fd \/ connState[fd] = "kDisconnected"
BY DEF Finished, ConnTypes

LEMMA WatchedHanded == TypeInv /\ ConnInv => watched \subseteq handed
<1> SUFFICES ASSUME TypeInv, ConnInv, NEW fd \in watched PROVE fd \in handed
  OBVIOUS
<1>1. fd \in Fd /\ (connection = fd \/ In(tasks, <<"handleClose", fd>>))
  BY DEF TypeInv, ConnTypes, ConnInv
<1>2. Referenced(fd)
  BY <1>1 DEF Referenced, In
<1> QED
  BY <1>1, <1>2 DEF TypeInv, HandedReferenced

\* The connector starts nothing of itself, and leaves a queued handleClose alone.
LEMMA ConnectorSteps ==
  ASSUME TypeInv, ConnectorInv, ConnectorStep \/ ConnectorCall
  PROVE  /\ UnderWay' => UnderWay \/ MayConnect
         /\ \A fd : In(tasks, <<"handleClose", fd>>) => In(tasks', <<"handleClose", fd>>)
         /\ open' \cap handed = {} \/ open' \subseteq open
         /\ pc' # "events" => pc # "events" \/ readable = {}
         /\ handed' = handed
<1> USE DEF UnderWay, TypeInv
<1>1. CASE Connecting \/ ConnectFails \/ ConnectGivesUp
  <2>1. inside = "connect" /\ UNCHANGED <<tasks, pc>> /\ handed' = handed
    BY <1>1 DEF Connecting, ConnectFails, ConnectGivesUp, queueVars, socketVars
  <2>2. open' \cap handed = {} \/ open' \subseteq open
    BY <1>1 DEF ConnectorInv, AttemptInv, SocketInv, Unused, Connecting, ConnectFails,
       ConnectGivesUp, socketVars
  <2> QED
    BY <2>1, <2>2
<1>2. CASE Retry \/ RetryTimer
  <2>1. UNCHANGED <<tasks, pc, open, handed>> /\ UnderWay
    BY <1>2 DEF Retry, RetryTimer, queueVars, socketVars, PhaseTypes
  <2> QED
    BY <2>1
<1>3. CASE HandleWrite
  <2>1. StartComing' => StartComing
    <3>1. CASE tasks' = tasks
      BY <1>3, <3>1 DEF HandleWrite, StartComing, StartQueued, StartCalled, Call
    <3>2. CASE tasks' # tasks
      <4>1. Adds(Call("resetChannel")) /\ Call("resetChannel") \in Task
        BY <1>3, <3>2, CallTyped DEF HandleWrite, RemoveAndResetChannel, Adds, CallName
      <4>2. StartQueued' => StartQueued
        BY <4>1, AddsCalls DEF StartQueued, Call
      <4> QED
        BY <1>3, <4>2 DEF HandleWrite, StartComing, StartCalled
    <3> QED
      BY <3>1, <3>2
  <2>2. \A s : In(tasks, s) => In(tasks', s)
    <3>1. CASE tasks' = tasks
      BY <3>1
    <3>2. CASE tasks' # tasks
      <4>1. Adds(Call("resetChannel")) /\ Call("resetChannel") \in Task
        BY <1>3, <3>2, CallTyped DEF HandleWrite, RemoveAndResetChannel, Adds, CallName
      <4> QED
        BY <4>1, AddsCalls
    <3> QED
      BY <3>1, <3>2
  <2> QED
    BY <1>3, <2>1, <2>2 DEF HandleWrite
<1>4. CASE (RunTasks /\ readable = {}) \/ EndTasks
  BY <1>4 DEF RunTasks, EndTasks, StartComing, StartQueued, StartCalled, Call, queueVars,
     memberVars, socketVars
<1>5. CASE RunTask
  <2>1. /\ Takes \/ (TakesAndResets /\ state = "kConnecting")
        /\ state' \in {state, "kDisconnected"} /\ open' \subseteq open
    BY <1>5, RunTaskQueue
  <2>2. Head(tasks) \in {Call("startInLoop"), Call("stopInLoop"), Call("resetChannel")}
    BY <1>5 DEF RunTask
  <2>3. Takes \/ (TakesAndResets /\ ~ResetQueued)
    BY <2>1 DEF ConnectorInv, AttemptInv
  <2>4. \A s : In(tasks, s) => In(tasks', s) \/ s = Head(tasks)
    BY <2>3, TakesCalls, TakesAndResetsCalls
  <2>5. \A fd : <<"handleClose", fd>> # Head(tasks)
    BY <2>2 DEF Call
  <2>6. StartQueued' => StartQueued
    BY <2>3, TakesCalls, TakesAndResetsCalls DEF StartQueued, Call
  <2>7. StartComing' => StartComing
    BY <1>5, <2>6 DEF RunTask, StartComing, StartCalled
  <2>8. UnderWay' => UnderWay
    <3>1. CASE Head(tasks) = Call("startInLoop")
      <4>1. Len(tasks) \in Nat /\ Len(tasks) > 0 /\ Head(tasks) = tasks[1]
        BY <2>1, HeadTailProperties, EmptySeq, LenProperties DEF Takes, TakesAndResets, QueueTypes
      <4>2. StartQueued
        BY <3>1, <4>1 DEF StartQueued, In
      <4> QED
        BY <4>2 DEF StartComing
    <3>2. CASE Head(tasks) # Call("startInLoop")
      BY <1>5, <2>1, <2>7, <3>2 DEF RunTask
    <3> QED
      BY <3>1, <3>2
  <2> QED
    BY <1>5, <2>1, <2>4, <2>5, <2>8 DEF RunTask
<1>6. CASE (MayConnect /\ Start) \/ \E u \in Threads : MayConnect /\ StartFromThread(u)
  BY <1>6 DEF Start, StartFromThread, queueVars, socketVars, loopVars
<1>7. CASE Stop
  <2>1. Adds(Call("stopInLoop")) /\ Call("stopInLoop") \in Task
    BY <1>7, CallTyped DEF Stop, Adds, CallName
  <2>2. StartQueued' => StartQueued
    BY <2>1, AddsCalls DEF StartQueued, Call
  <2>3. UnderWay' => UnderWay
    BY <1>7, <2>2 DEF Stop, StartComing, StartCalled, loopVars
  <2> QED
    BY <1>7, <2>1, <2>3, AddsCalls DEF Stop, loopVars, socketVars
<1>8. ASSUME NEW u \in Threads, StopFromThread(u)
      PROVE  /\ UnderWay' => UnderWay
             /\ UNCHANGED <<tasks, open, handed, pc>>
  <2>1. UNCHANGED <<tasks, open, handed, pc, inside, state, timers>>
    BY <1>8 DEF StopFromThread, queueVars, socketVars, loopVars
  <2>2. \A v \in Threads : userPc'[v] = "startInLoop" => userPc[v] = "startInLoop"
    BY <1>8 DEF StopFromThread, CallerTypes
  <2> QED
    BY <2>1, <2>2 DEF StartComing, StartQueued, StartCalled, Call
<1>9. ASSUME NEW u \in Threads, QueueCall(u)
      PROVE  /\ UnderWay' => UnderWay
             /\ \A s : In(tasks, s) => In(tasks', s)
             /\ UNCHANGED <<open, handed, pc>>
  <2>1. userPc[u] \in CallName /\ userPc' = [userPc EXCEPT ![u] = "idle"]
    BY <1>9 DEF QueueCall, CallerTypes, CallName
  <2>2. Adds(Call(userPc[u])) /\ Call(userPc[u]) \in Task
    BY <1>9, <2>1, CallTyped DEF QueueCall, Adds
  <2>3. StartQueued' => StartQueued \/ userPc[u] = "startInLoop"
    BY <2>2, AddsCalls DEF StartQueued, Call
  <2>4. StartCalled' => StartCalled
    BY <2>1 DEF StartCalled, CallerTypes
  <2>5. StartComing' => StartComing
    BY <2>3, <2>4 DEF StartComing, StartCalled
  <2> QED
    BY <1>9, <2>2, <2>5, AddsCalls DEF QueueCall, memberVars, socketVars, loopVars
<1> QED
  BY <1>1, <1>2, <1>3, <1>4, <1>5, <1>6, <1>7, <1>8, <1>9 DEF ConnectorStep, ConnectorCall

\* A step of the connection hands nothing over.
LEMMA HandedShrinks ==
  ASSUME TypeInv, ConnInv, ConnStep, DropUnreferenced
  PROVE  handed' \subseteq handed
<1> USE DEF TypeInv
<1>1. \A fd \in Fd : Refers(tasks', fd) => fd \in handed
  <2>1. \A fd \in Fd : Refers(tasks, fd) \/ connection = fd => fd \in handed
    BY DEF HandedReferenced, Referenced, Refers
  <2>2. CASE UNCHANGED queueVars
    BY <2>1, <2>2 DEF queueVars
  <2>3. CASE Takes
    BY <2>1, <2>3, QueueSteps
  <2>4. CASE Destroy /\ ForceClose(connection) /\ Adds(<<"handleClose", connection>>)
    <3>1. CASE connection \in Fd
      <4>1. <<"handleClose", connection>> \in Task
        BY <3>1 DEF Task
      <4> QED
        BY <2>1, <2>4, <4>1, QueueSteps
    <3>2. CASE connection \notin Fd
      BY <2>1, <2>4, <3>2, ConnStepQueue
         DEF Destroy, ForceClose, Adds, IsConnected, QueueTypes, Refers
    <3> QED
      BY <3>1, <3>2
  <2>5. CASE DisconnectFromThread /\ Adds(<<"shutdownInLoop", connection>>)
    <3>1. connection \in Fd
      BY <2>5 DEF DisconnectFromThread, Disconnecting, IsConnected
    <3>2. <<"shutdownInLoop", connection>> \in Task
      BY <3>1 DEF Task
    <3> QED
      BY <2>1, <2>5, <3>2, QueueSteps
  <2> QED
    BY <2>2, <2>3, <2>4, <2>5, ConnStepQueue
<1>2. connection' \in {connection, NoFd}
  BY DEF ConnStep, RunConnTask, Disconnect, DisconnectFromThread, Disconnecting, Destroy,
     HandleRead, DropCopy
<1>3. copies' \subseteq copies \cup handed
  <2>1. \A fd \in readable : fd \in handed
    BY WatchedHanded DEF ConnInv
  <2> QED
    BY <2>1 DEF ConnStep, RunConnTask, Disconnect, DisconnectFromThread, Disconnecting, Destroy,
       HandleRead, DropCopy
<1>4. \A fd \in Fd : fd \in copies \/ connection = fd => fd \in handed
  BY DEF HandedReferenced, Referenced
<1> QED
  BY <1>1, <1>2, <1>3, <1>4, FdAssumption DEF DropUnreferenced, Referenced, Refers

LEMMA ConnSteps ==
  ASSUME Careful, TypeInv, ConnInv, ConnStep
  PROVE  ConnInv'
<1> USE DEF ConnInv
<1>1. UNCHANGED connectorVars /\ SameCalls
  BY ConnStepQueue
<1>2. (UnderWay' <=> UnderWay) /\ pc' = pc /\ open' = open
  BY <1>1 DEF SameCalls, connectorVars, memberVars, loopVars, UnderWay, StartComing, StartCalled
<1>3. ConnTypes /\ ConnTypes'
  <2>1. ClientNext
    BY DEF ConnStep, ClientNext, LoopStep, UserStep
  <2> QED
    BY <2>1, NextTypes DEF TypeInv
<1>4. /\ \A fd : Finished(fd) <=> fd \notin Fd \/ connState[fd] = "kDisconnected"
      /\ \A fd : Finished(fd)' <=> fd \notin Fd \/ connState'[fd] = "kDisconnected"
  BY <1>3, FinishedWhen DEF Finished, ConnTypes
<1>5. open' \cap handed' = {}
  <2>1. DropUnreferenced \/ handed' = handed
    BY DEF ConnStep, RunConnTask, Disconnect, DisconnectFromThread, Disconnecting, Destroy, HandleRead,
           DropCopy, socketVars
  <2>2. handed' \subseteq handed
    BY <2>1, HandedShrinks
  <2> QED
    BY <1>2, <2>2
<1>6. CASE RunConnTask
  <2> DEFINE h == Head(tasks)
  <2>1. Takes /\ QueueTypes /\ pc = "tasks" /\ UNCHANGED <<connection, readable>>
    <3>1. tasks # <<>>
      BY <1>6, EmptySeq DEF RunConnTask, TypeInv, QueueTypes
    <3> QED
      BY <1>6, <3>1 DEF RunConnTask, Takes, TypeInv
  <2>2. \A s : In(tasks, s) => In(tasks', s) \/ s = h
    BY <2>1, TakesCalls
  <2>3. readable' = {}
    BY <2>1
  <2>4. CASE h[1] = "handleClose"
    <3>1. HandleClose(h[2])
      BY <1>6, <2>4 DEF RunConnTask
    <3>2. \A fd \in watched' : fd \in watched /\ fd # h[2] /\ connState'[fd] = connState[fd]
      BY <1>3, <3>1 DEF HandleClose, ConnTypes
    <3>3. \A fd \in watched' : connection' = fd \/ In(tasks', <<"handleClose", fd>>)
      <4>1. SUFFICES ASSUME NEW fd \in watched', connection' # fd
                     PROVE  In(tasks', <<"handleClose", fd>>)
        OBVIOUS
      <4>2. In(tasks, <<"handleClose", fd>>) /\ fd # h[2]
        BY <2>1, <3>2, <4>1
      <4>3. <<"handleClose", fd>>[2] = fd
        OBVIOUS
      <4> HIDE DEF h
      <4> QED
        BY <2>2, <4>2, <4>3
    <3>4. \A fd \in watched' : ~Finished(fd)'
      BY <1>3, <1>4, <3>2
    <3>5. UnderWay' => Finished(connection)'
      <4>1. \A fd \in Fd : connState[fd] = "kDisconnected" => connState'[fd] = "kDisconnected"
        BY <1>3, <3>1 DEF HandleClose, ConnTypes
      <4> QED
        BY <1>2, <1>4, <2>1, <4>1
    <3> QED
      BY <1>5, <2>3, <3>3, <3>4, <3>5
  <2>5. CASE h[1] # "handleClose"
    <3>1. UNCHANGED <<connState, watched>>
      BY <1>6, <2>5 DEF RunConnTask
    <3>2. \A fd : In(tasks, <<"handleClose", fd>>) => In(tasks', <<"handleClose", fd>>)
      BY <2>2, <2>5
    <3> QED
      BY <1>2, <1>4, <1>5, <2>1, <2>3, <3>1, <3>2
  <2> QED
    BY <2>4, <2>5
<1>7. CASE Disconnect \/ DisconnectFromThread
  <2>1. /\ connection \in Fd /\ connState[connection] = "kConnected"
        /\ connState' = [connState EXCEPT ![connection] = "kDisconnecting"]
        /\ UNCHANGED <<connection, watched, readable>>
    BY <1>7 DEF Disconnect, DisconnectFromThread, Disconnecting, IsConnected
  <2>2. \A fd : In(tasks, <<"handleClose", fd>>) => In(tasks', <<"handleClose", fd>>)
    <3>1. CASE UNCHANGED queueVars
      BY <3>1 DEF queueVars
    <3>2. CASE DisconnectFromThread
      <4>1. Adds(<<"shutdownInLoop", connection>>) /\ <<"shutdownInLoop", connection>> \in Task
            /\ QueueTypes
        BY <2>1, <3>2 DEF DisconnectFromThread, Adds, Task, TypeInv
      <4> QED
        BY <4>1, AddsCalls
    <3> QED
      BY <1>7, <3>1, <3>2 DEF Disconnect
  <2>3. \A fd \in watched' : ~Finished(fd)'
    BY <1>3, <1>4, <2>1 DEF ConnTypes
  <2>4. ~UnderWay'
    BY <1>2, <1>4, <2>1
  <2> QED
    BY <1>2, <1>5, <2>1, <2>2, <2>3, <2>4
<1>8. CASE Destroy
  <2>1. connection' = NoFd /\ readable' = readable /\ Finished(connection)'
    BY <1>4, <1>8, FdAssumption DEF Destroy
  <2>2. CASE IsConnected(connection) /\ ForceClose(connection)
    <3>1. /\ connection \in Fd /\ watched' = watched
          /\ connState' = [connState EXCEPT ![connection] = "kDisconnecting"]
      BY <2>2 DEF IsConnected, ForceClose
    <3>2. Adds(<<"handleClose", connection>>) /\ <<"handleClose", connection>> \in Task /\ QueueTypes
      BY <1>8, <2>2, <3>1 DEF Destroy, ForceClose, Adds, Task, TypeInv
    <3>3. \A fd \in watched' : In(tasks', <<"handleClose", fd>>)
      BY <3>1, <3>2, AddsCalls
    <3>4. \A fd \in watched' : ~Finished(fd)'
      BY <1>3, <1>4, <3>1 DEF ConnTypes
    <3> QED
      BY <1>2, <1>5, <2>1, <3>1, <3>3, <3>4
  <2>3. CASE Finished(connection) /\ UNCHANGED <<connState, watched, tasks>>
    <3>1. connection \notin watched
      BY <2>3
    <3>2. \A fd \in watched' : In(tasks', <<"handleClose", fd>>) /\ ~Finished(fd)'
      BY <1>4, <2>3, <3>1
    <3> QED
      BY <1>2, <1>5, <2>1, <2>3, <3>2
  <2>4. MayDestroy
    BY <1>8 DEF Destroy
  <2>5. Finished(connection) => ~IsConnected(connection)
    BY <1>4 DEF IsConnected
  <2> QED
    BY <1>8, <2>2, <2>3, <2>4, <2>5 DEF Destroy, MayDestroy
<1>9. ASSUME NEW fd \in Fd, HandleRead(fd) PROVE ConnInv'
  <2>1. /\ pc = "events" /\ readable' = readable \ {fd}
        /\ UNCHANGED <<connection, tasks>>
    BY <1>9 DEF HandleRead, queueVars
  <2>2. CASE UNCHANGED <<connState, watched>>
    <3>1. \A f \in watched' : ~Finished(f)'
      BY <1>4, <2>2
    <3>2. UnderWay' => Finished(connection)'
      BY <1>2, <1>4, <2>1, <2>2
    <3> QED
      BY <1>2, <1>5, <2>1, <2>2, <3>1, <3>2
  <2>3. CASE HandleClose(fd)
    <3>1. \A f \in watched' : f \in watched /\ f # fd /\ connState'[f] = connState[f]
      BY <1>3, <2>3 DEF HandleClose, ConnTypes
    <3>2. \A f \in watched' : ~Finished(f)'
      BY <1>3, <1>4, <3>1
    <3>3. UnderWay' => Finished(connection)'
      <4>1. \A f \in Fd : connState[f] = "kDisconnected" => connState'[f] = "kDisconnected"
        BY <1>3, <2>3 DEF HandleClose, ConnTypes
      <4> QED
        BY <1>2, <1>4, <2>1, <4>1
    <3>4. readable' \subseteq watched'
      BY <2>1, <2>3 DEF HandleClose
    <3> QED
      BY <1>2, <1>5, <2>1, <3>1, <3>2, <3>3, <3>4
  <2> QED
    BY <1>9, <2>2, <2>3 DEF HandleRead
<1>10. ASSUME NEW fd \in Fd, DropCopy(fd) PROVE ConnInv'
  <2>1. UNCHANGED <<connection, tasks, connState, watched, readable>>
    BY <1>10 DEF DropCopy
  <2> QED
    BY <1>2, <1>4, <1>5, <2>1
<1> QED
  BY <1>6, <1>7, <1>8, <1>9, <1>10 DEF ConnStep

LEMMA NextConn ==
  ASSUME Careful, TypeInv, ConnectorInv, ConnInv, [ClientNext]_allVars
  PROVE  ConnInv'
<1> USE DEF ConnInv
<1>1. /\ \A fd : Finished(fd) <=> fd \notin Fd \/ connState[fd] = "kDisconnected"
      /\ \A fd : Finished(fd)' <=> fd \notin Fd \/ connState'[fd] = "kDisconnected"
  <2>1. ConnTypes /\ ConnTypes'
    BY NextTypes DEF TypeInv
  <2> QED
    BY <2>1, FinishedWhen DEF Finished, ConnTypes
<1>2. CASE (ConnectorStep \/ ConnectorCall) /\ UNCHANGED clientVars
  <2>1. /\ UnderWay' => UnderWay \/ MayConnect
        /\ \A fd : In(tasks, <<"handleClose", fd>>) => In(tasks', <<"handleClose", fd>>)
        /\ open' \cap handed = {} \/ open' \subseteq open
        /\ pc' # "events" => pc # "events" \/ readable = {}
        /\ handed' = handed
    BY <1>2, ConnectorSteps
  <2>2. UNCHANGED <<connection, connState, watched, readable>>
    BY <1>2 DEF clientVars, connVars
  <2>3. UnderWay' => Finished(connection)'
    BY <1>1, <2>1, <2>2 DEF MayConnect
  <2>4. \A fd \in watched' : ~Finished(fd)'
    BY <1>1, <2>2
  <2> QED
    BY <2>1, <2>2, <2>3, <2>4
<1>3. CASE PollAll
  <2>1. /\ UNCHANGED <<connection, connState, watched, tasks, open, handed, inside, state, timers, userPc>>
        /\ pc' = "events" /\ readable' \subseteq watched
    BY <1>3 DEF PollAll, Poll, queueVars, socketVars, memberVars
  <2>2. UnderWay' => UnderWay
    BY <2>1 DEF UnderWay, StartComing, StartQueued, StartCalled, Call
  <2>3. (\A fd \in watched' : ~Finished(fd)') /\ (UnderWay' => Finished(connection)')
    BY <1>1, <2>1, <2>2
  <2> QED
    BY <2>1, <2>3
<1>4. CASE HandedOver
  <2>1. /\ HandOver /\ UNCHANGED <<tasks, readable, pc, state, timers, userPc, sockfd>>
        /\ inside' = "none"
    BY <1>4 DEF HandedOver, HandOver, memberVars, queueVars
  <2>2. state = "kConnected" /\ timers = 0 /\ ~StartComing /\ open = {sockfd} /\ UnderWay
        /\ sockfd \in Fd
    BY <2>1 DEF HandOver, ConnectorInv, AttemptInv, SocketInv, UnderWay, TypeInv, SocketNamed
  <2>3. ~UnderWay'
    BY <2>1, <2>2 DEF UnderWay, StartComing, StartQueued, StartCalled, Call
  <2>4. open' = {}
    BY <2>1, <2>2 DEF HandOver
  <2>5. CASE UNCHANGED <<connection, connState, watched, copies, handed>>
    BY <1>1, <2>1, <2>3, <2>4, <2>5
  <2>6. CASE NewConnection(sockfd)
    <3>1. connection \notin watched
      BY <2>2
    <3>2. /\ connection' = sockfd /\ connState' = [connState EXCEPT ![sockfd] = "kConnected"]
          /\ watched' = watched \cup {sockfd}
      BY <2>6 DEF NewConnection
    <3>3. \A fd \in watched' : connection' = fd \/ In(tasks', <<"handleClose", fd>>)
      BY <2>1, <3>1, <3>2
    <3>4. \A fd \in watched' : ~Finished(fd)'
      BY <1>1, <2>2, <3>2 DEF TypeInv, ConnTypes
    <3> QED
      BY <2>1, <2>3, <2>4, <3>2, <3>3, <3>4
  <2> QED
    BY <1>4, <2>5, <2>6 DEF HandedOver
<1>5. CASE ConnStep
  BY <1>5, ConnSteps
<1>6. CASE UNCHANGED allVars
  <2>1. /\ UNCHANGED <<connection, connState, watched, readable, tasks, open, handed>>
        /\ UNCHANGED <<pc, inside, state, timers, userPc>>
    BY <1>6 DEF allVars, vars, clientVars, connVars, socketVars, loopVars, memberVars, queueVars
  <2>2. UnderWay' => UnderWay
    BY <2>1 DEF UnderWay, StartComing, StartQueued, StartCalled, Call
  <2> QED
    BY <1>1, <2>1, <2>2
<1> QED
  BY <1>2, <1>3, <1>4, <1>5, <1>6, StepKinds

-----------------------------------------------------------------------------
(***************************************************************************)
(* The theorems.                                                           *)
(***************************************************************************)
\* However the calls, the retries, the connections and the pointers users
\* keep interleave, every part of the state keeps its type, and a
\* descriptor is open exactly as long as something holds its Connection.
THEOREM TypeCorrect == ClientSpec => []TypeOK
<1>1. ClientSpec => []TypeInv
  BY InitTypes, NextTypes, PTL DEF ClientSpec
<1> QED
  BY <1>1, TypesImply, PTL

LEMMA ConnectorCorrect == ClientSpec => [](TypeInv /\ ConnectorInv)
<1>1. ClientInit => TypeInv /\ ConnectorInv
  BY InitTypes, InitConnector
<1>2. TypeInv /\ ConnectorInv /\ [ClientNext]_allVars => (TypeInv /\ ConnectorInv)'
  BY NextTypes, NextConnector
<1> QED
  BY <1>1, <1>2, PTL DEF ClientSpec

LEMMA NoHandlerDangles == TypeInv /\ ConnectorInv => NoDanglingHandler
<1> SUFFICES ASSUME TypeInv, ConnectorInv PROVE NoDanglingHandler
  OBVIOUS
<1>1. \A fd \in Registered(events) : fd \in Fd /\ events[fd] # NoEntry
  BY DEF Registered, HasEvent, TypeInv, MemberTypes, Table
<1> QED
  BY <1>1 DEF NoDanglingHandler, ConnectorInv, SocketInv

LEMMA OneSocket == TypeInv /\ ConnectorInv /\ ConnInv => OneSocketAtATime
<1> SUFFICES ASSUME TypeInv, ConnectorInv, ConnInv PROVE OneSocketAtATime
  OBVIOUS
<1> USE DEF ConnectorInv, SocketInv
<1>1. DOMAIN events = Fd
  BY DEF TypeInv, MemberTypes, Table
<1>2. \A fd \in Fd : HasEvent(events, fd) <=> state = "kConnecting" /\ fd = sockfd
  BY DEF HasEvent
<1>3. state = "kConnecting" => sockfd \in Fd
  BY DEF TypeInv, SocketNamed
<1>4. Registered(events) = IF state = "kConnecting" THEN {sockfd} ELSE {}
  BY <1>1, <1>2, <1>3 DEF Registered
<1>5. NullEntries(events) = {}
  <2>1. \A fd \in Fd : events[fd] # NullEntry
    BY EntryAssumption DEF HasEvent
  <2> QED
    BY <1>1, <2>1 DEF NullEntries
<1> QED
  BY <1>4, <1>5 DEF OneSocketAtATime, ConnInv

\* Whoever starts and stops the connector, and whenever its socket reports
\* and its timers expire, select calls only the handler that handler_ still
\* owns: removeAndResetChannel takes the descriptor out of the poll table and
\* leaves the handler to a task, which runs after the handlers reported.
THEOREM HandlersNeverDangle == ClientSpec => []NoDanglingHandler
BY ConnectorCorrect, NoHandlerDangles, PTL

\* No interleaving of start, stop, the socket and the retry timer loses the
\* wish to be connected: a connector that is to connect, and has not met an
\* error it does not retry, is connected or has one thing under way.
THEOREM AttemptNeverForgotten == ClientSpec => []AttemptNotForgotten
BY ConnectorCorrect, PTL DEF ConnectorInv

LEMMA CarefulCorrect ==
  ASSUME Careful
  PROVE  ClientSpec => [](TypeInv /\ ConnectorInv /\ ConnInv)
<1>1. ClientInit => TypeInv /\ ConnectorInv /\ ConnInv
  BY InitTypes, InitConnector, InitConn
<1>2. TypeInv /\ ConnectorInv /\ ConnInv /\ [ClientNext]_allVars => (TypeInv /\ ConnectorInv /\ ConnInv)'
  BY Careful, NextTypes, NextConnector, NextConn
<1> QED
  BY <1>1, <1>2, PTL DEF ClientSpec

\* When callers keep the rules, each socket that connect() opens is polled,
\* and then closed or handed over exactly once: none leaks, none is closed
\* while a Connection owns it, and none stays in the poll table.
THEOREM SocketsNeverLeak == Careful => (ClientSpec => []OneSocketAtATime)
<1> SUFFICES ASSUME Careful PROVE ClientSpec => []OneSocketAtATime
  OBVIOUS
<1> QED
  BY CarefulCorrect, OneSocket, PTL

\* When callers keep the rules, a Connection lives as long as the poll table
\* can call its handler: forceClose, which ~Client calls, holds it in a task
\* until its events are off.
THEOREM ConnectionsNeverDangle == Careful => (ClientSpec => []NoDanglingConnection)
<1>1. TypeInv /\ ConnInv => NoDanglingConnection
  BY WatchedHanded DEF NoDanglingConnection, ConnInv
<1> SUFFICES ASSUME Careful PROVE ClientSpec => []NoDanglingConnection
  OBVIOUS
<1> QED
  BY <1>1, CarefulCorrect, PTL
-----------------------------------------------------------------------------
(***************************************************************************)
(* The safety halves of StopTakesEffect and ConnectionsReleased, which TLC *)
(* checks: what a stop or ~Client has not done yet is queued.              *)
(***************************************************************************)
StopComing == StopQueued \/ StopCalled

\* A connector that was stopped connects only until the queued stop has run.
StopInv == ~connect /\ (state = "kConnecting" \/ inside = "connect") => StopComing

LEMMA StopKept ==
  ASSUME StopInv, ~connect' => ~connect, StopComing => StopComing',
         state' = "kConnecting" \/ inside' = "connect"
           => state = "kConnecting" \/ inside = "connect" \/ connect'
  PROVE  StopInv'
BY DEF StopInv

LEMMA StopComingKept ==
  ASSUME StopQueued => StopQueued', userPc' = userPc
  PROVE  StopComing => StopComing'
BY DEF StopComing, StopCalled

\* Stop is the only call whose end takes the stop out of the queue.
LEMMA RunTaskStop == ASSUME TypeInv, StopInv, RunTask PROVE StopInv'
<1>1. \A s : In(tasks, s) => In(tasks', s) \/ s = Head(tasks)
  <2>1. tasks # <<>> /\ tasks \in Seq(Task)
    BY RunTaskQueue DEF Takes, TakesAndResets, TypeInv, QueueTypes
  <2>2. \A s : In(tasks, s) <=> In(Tail(tasks), s) \/ s = Head(tasks)
    BY <2>1, Dequeued
  <2>3. CASE Takes
    BY <2>2, <2>3 DEF Takes
  <2>4. CASE TakesAndResets
    <3>1. Tail(tasks) \in Seq(Task) /\ Call("resetChannel") \in Task
      BY <2>1, Dequeued, CallTyped DEF CallName
    <3>2. \A s : In(Tail(tasks), s) => In(tasks', s)
      BY <2>4, <3>1, Queued DEF TakesAndResets
    <3> QED
      BY <2>2, <3>2
  <2> QED
    BY <2>3, <2>4, RunTaskQueue
<1>2. connect' = connect /\ userPc' = userPc /\ inside = "none"
  BY DEF RunTask, Outside
<1>3. CASE Head(tasks) = Call("stopInLoop")
  <2>1. inside' = "none" /\ state' # "kConnecting"
    <3>1. Head(tasks) # Call("startInLoop") /\ Head(tasks) # Call("resetChannel")
      BY <1>3 DEF Call
    <3>2. StopInLoop(Tail(tasks)) /\ UNCHANGED inside
      BY <3>1 DEF RunTask
    <3> QED
      BY <1>2, <3>2 DEF StopInLoop
  <2> QED
    BY <2>1 DEF StopInv
<1>4. CASE Head(tasks) # Call("stopInLoop")
  <2>1. StopQueued => StopQueued'
    BY <1>1, <1>4 DEF StopQueued, Call
  <2>2. state' = state /\ (inside' = "connect" => connect)
    BY <1>2, <1>4 DEF RunTask, StartInLoop
  <2> QED
    BY <1>2, <2>1, <2>2, StopComingKept, StopKept
<1> QED
  BY <1>3, <1>4

LEMMA CallStop ==
  ASSUME TypeInv, StopInv,
         Start \/ Stop \/ \E u \in Threads : StartFromThread(u) \/ StopFromThread(u) \/ QueueCall(u)
  PROVE  StopInv'
<1>1. CASE Start \/ \E u \in Threads : StartFromThread(u)
  BY <1>1 DEF Start, StartFromThread, StopInv
<1>2. ASSUME NEW t \in Task, Adds(t) PROVE (StopQueued => StopQueued') /\ In(tasks', t)
  BY <1>2, AddsCalls DEF StopQueued, TypeInv, Call
<1>3. CASE Stop
  <2>1. Adds(Call("stopInLoop")) /\ Call("stopInLoop") \in Task
    BY <1>3, CallTyped DEF Stop, Adds, CallName
  <2>2. StopQueued'
    BY <1>2, <2>1 DEF StopQueued, Call
  <2> QED
    BY <2>2 DEF StopInv, StopComing
<1>4. ASSUME NEW u \in Threads, StopFromThread(u) PROVE StopInv'
  <2>1. userPc'[u] = "stopInLoop"
    BY <1>4 DEF StopFromThread, TypeInv, CallerTypes
  <2> QED
    BY <2>1 DEF StopInv, StopComing, StopCalled
<1>5. ASSUME NEW u \in Threads, QueueCall(u) PROVE StopInv'
  <2>1. /\ userPc[u] \in CallName /\ UNCHANGED <<connect, state, inside>>
        /\ userPc' = [userPc EXCEPT ![u] = "idle"] /\ userPc \in [Threads -> {"idle", "startInLoop", "stopInLoop"}]
    BY <1>5 DEF QueueCall, TypeInv, CallerTypes, CallName, memberVars, loopVars
  <2>2. Adds(Call(userPc[u])) /\ Call(userPc[u]) \in Task
    BY <1>5, <2>1, CallTyped DEF QueueCall, Adds
  <2>3. (StopQueued => StopQueued') /\ In(tasks', Call(userPc[u]))
    BY <1>2, <2>2
  <2>4. StopComing => StopComing'
    <3>1. ASSUME NEW w \in Threads, userPc[w] = "stopInLoop" PROVE StopComing'
      <4>1. CASE w = u
        <5>1. In(tasks', Call("stopInLoop"))
          BY <2>3, <3>1, <4>1
        <5> QED
          BY <5>1 DEF StopComing, StopQueued, Call
      <4>2. CASE w # u
        BY <2>1, <3>1, <4>2 DEF StopComing, StopCalled
      <4> QED
        BY <4>1, <4>2
    <3> QED
      BY <2>3, <3>1 DEF StopComing, StopCalled
  <2> QED
    BY <2>1, <2>4, StopKept
<1> QED
  BY <1>1, <1>3, <1>4, <1>5

LEMMA NextStop ==
  ASSUME TypeInv, ConnectorInv, StopInv, [ClientNext]_allVars
  PROVE  StopInv'
<1>1. ASSUME connect' = connect, userPc' = userPc, StopQueued => StopQueued',
             state' = "kConnecting" \/ inside' = "connect"
               => state = "kConnecting" \/ inside = "connect" \/ connect
      PROVE  StopInv'
  BY <1>1, StopComingKept, StopKept
<1>2. CASE Connecting \/ ConnectFails \/ ConnectGivesUp \/ Retry \/ RetryTimer \/ RunTasks \/ EndTasks \/ PollAll
           \/ HandedOver
  <2>1. UNCHANGED <<connect, userPc, tasks>>
    BY <1>2 DEF Connecting, ConnectFails, ConnectGivesUp, Retry, RetryTimer, RunTasks, EndTasks, PollAll, Poll,
                HandedOver, HandOver, queueVars, memberVars
  <2>2. state' = "kConnecting" \/ inside' = "connect"
          => state = "kConnecting" \/ inside = "connect" \/ connect
    BY <1>2 DEF Connecting, ConnectFails, ConnectGivesUp, Retry, RetryTimer, RunTasks, EndTasks, PollAll, Poll,
                HandedOver, HandOver, StartInLoop, queueVars, memberVars, loopVars
  <2> QED
    BY <1>1, <2>1, <2>2 DEF StopQueued
<1>3. CASE HandleWrite
  <2>1. UNCHANGED <<connect, userPc>> /\ state' # "kConnecting" /\ inside' # "connect"
    BY <1>3 DEF HandleWrite
  <2> QED
    BY <2>1 DEF StopInv
<1>4. CASE RunTask
  BY <1>4, RunTaskStop
<1>5. CASE ConnectorCall
  BY <1>5, CallStop DEF ConnectorCall
<1>6. CASE ConnStep
  <2>1. UNCHANGED connectorVars /\ SameCalls
    BY <1>6, ConnStepQueue
  <2> QED
    BY <1>1, <2>1 DEF connectorVars, memberVars, loopVars, SameCalls
<1>7. CASE UNCHANGED allVars
  BY <1>1, <1>7 DEF allVars, vars, memberVars, loopVars, queueVars, StopQueued
<1> QED
  BY <1>2, <1>3, <1>4, <1>5, <1>6, <1>7, StepKinds DEF ConnectorStep

\* No interleaving loses a stop: as long as a stopped connector is still
\* connecting, the call of stopInLoop is on its way, and as long as a handler
\* is left otherwise, its resetChannel is queued.
THEOREM StopNotForgotten ==
  ClientSpec => [](/\ ~connect /\ (state = "kConnecting" \/ inside = "connect") => StopQueued \/ StopCalled
                   /\ handler # NoHandler /\ state # "kConnecting" => ResetQueued
                   /\ open # {} => state = "kConnecting" \/ inside = "connected")
<1> DEFINE P == /\ ~connect /\ (state = "kConnecting" \/ inside = "connect") => StopQueued \/ StopCalled
                /\ handler # NoHandler /\ state # "kConnecting" => ResetQueued
                /\ open # {} => state = "kConnecting" \/ inside = "connected"
<1>1. ClientInit => StopInv
  BY DEF ClientInit, Init, StopInv
<1>2. TypeInv /\ ConnectorInv /\ StopInv /\ [ClientNext]_allVars => (TypeInv /\ ConnectorInv /\ StopInv)'
  BY NextTypes, NextConnector, NextStop
<1>3. ConnectorInv /\ StopInv => P
  BY DEF StopInv, StopComing, ConnectorInv, AttemptInv, SocketInv
<1> HIDE DEF P
<1>4. ClientSpec => []P
  BY InitTypes, InitConnector, <1>1, <1>2, <1>3, PTL DEF ClientSpec
<1> QED
  BY <1>4 DEF P
-----------------------------------------------------------------------------
\* ~Client leaves no connection, and nothing that could make another one.
OverInv == destroyed => /\ connection = NoFd
                        /\ state # "kConnecting" /\ timers = 0 /\ inside = "none" /\ ~StartComing

LEMMA NextOver ==
  ASSUME TypeInv, ConnectorInv, OverInv, [ClientNext]_allVars
  PROVE  OverInv'
<1>1. CASE Destroy
  <2>1. Quiet /\ connection' = NoFd /\ UNCHANGED connectorVars /\ SameCalls
    BY <1>1, ConnStepQueue DEF Destroy, ConnStep
  <2>2. ~StartComing'
    BY <2>1, NoCalls DEF Quiet, StartComing, StartCalled, SameCalls, connectorVars
  <2> QED
    BY <2>1, <2>2 DEF OverInv, Quiet, Outside, connectorVars, memberVars, loopVars
<1>2. CASE ~Destroy
  <2> SUFFICES ASSUME destroyed' PROVE OverInv'
    BY DEF OverInv
  <2>1. destroyed
    BY <1>2, StepKinds DEF clientVars, PollAll, HandedOver, ConnStep, RunConnTask, Disconnect,
       DisconnectFromThread, Disconnecting, HandleRead, DropCopy, allVars
  <2>2. connection = NoFd /\ state # "kConnecting" /\ timers = 0 /\ inside = "none" /\ ~StartComing /\ due = 0
    BY <2>1 DEF OverInv, TypeInv, PhaseTypes
  <2>3. ASSUME UNCHANGED <<connection, timers, userPc>>, state' # "kConnecting", inside' = "none",
               StartQueued' => StartQueued
        PROVE  OverInv'
    BY <2>2, <2>3 DEF OverInv, StartComing, StartCalled
  <2>4. CASE ConnectorStep /\ UNCHANGED clientVars
    <3>1. CASE HandleWrite \/ RunTasks \/ EndTasks
      <4>1. UNCHANGED <<state, inside, timers, userPc, tasks>>
        BY <2>2, <3>1 DEF HandleWrite, RunTasks, EndTasks, memberVars, queueVars
      <4> QED
        BY <2>2, <2>3, <2>4, <4>1 DEF clientVars, connVars, StartQueued
    <3>2. CASE RunTask
      <4>1. ASSUME Takes PROVE StartQueued' => StartQueued
        BY <4>1, TakesCalls DEF TypeInv, StartQueued, Call
      <4>2. Takes /\ Head(tasks) # Call("startInLoop")
        <5>1. Takes
          BY <2>2, <3>2, RunTaskQueue
        <5>2. In(tasks, Head(tasks))
          BY <5>1, TakesCalls DEF TypeInv
        <5> QED
          BY <2>2, <5>1, <5>2 DEF StartComing, StartQueued, Call
      <4>3. state' # "kConnecting" /\ inside' = "none" /\ UNCHANGED <<timers, userPc>>
        BY <2>2, <3>2, <4>2, RunTaskQueue DEF RunTask, StopInLoop
      <4> QED
        BY <2>3, <2>4, <4>1, <4>2, <4>3 DEF clientVars, connVars
    <3> QED
      BY <2>2, <2>4, <3>1, <3>2
         DEF ConnectorStep, Connecting, ConnectFails, ConnectGivesUp, Retry, RetryTimer
  <2>5. CASE ConnectorCall /\ UNCHANGED clientVars
    <3>1. PICK u \in Threads : QueueCall(u)
      BY <2>1, <2>5 DEF ConnectorCall, MayConnect
    <3>2. userPc[u] = "stopInLoop" /\ userPc' = [userPc EXCEPT ![u] = "idle"]
          /\ userPc \in [Threads -> {"idle", "startInLoop", "stopInLoop"}]
      BY <2>2, <3>1 DEF QueueCall, TypeInv, CallerTypes, StartComing, StartCalled
    <3>3. Adds(Call("stopInLoop")) /\ Call("stopInLoop") \in Task /\ Call("stopInLoop") # Call("startInLoop")
      BY <3>1, <3>2, CallTyped DEF QueueCall, Adds, CallName, Call
    <3>4. ~StartQueued'
      BY <2>2, <3>3, AddsCalls DEF TypeInv, StartComing, StartQueued, Call
    <3>5. ~StartCalled'
      BY <2>2, <3>2 DEF StartComing, StartCalled
    <3> QED
      BY <2>2, <2>5, <3>1, <3>4, <3>5
         DEF QueueCall, OverInv, StartComing, clientVars, connVars, memberVars, loopVars
  <2>6. CASE PollAll
    BY <2>2, <2>3, <2>6 DEF PollAll, Poll, memberVars, queueVars, StartQueued
  <2>7. ~HandedOver
    BY <2>2 DEF HandedOver, HandOver
  <2>8. CASE ConnStep
    <3>1. UNCHANGED connectorVars /\ SameCalls
      BY <2>8, ConnStepQueue
    <3>2. connection' = connection
      BY <1>2, <2>8 DEF ConnStep, RunConnTask, Disconnect, DisconnectFromThread, Disconnecting, HandleRead, DropCopy
    <3> QED
      BY <2>2, <2>3, <3>1, <3>2 DEF connectorVars, memberVars, loopVars, SameCalls
  <2>9. CASE UNCHANGED allVars
    BY <2>2, <2>3, <2>9 DEF allVars, vars, clientVars, connVars, memberVars, loopVars, queueVars, StartQueued
  <2> QED
    BY <2>4, <2>5, <2>6, <2>7, <2>8, <2>9, StepKinds
<1> QED
  BY <1>1, <1>2

\* When callers keep the rules, a connection that is still polled after
\* ~Client has its handleClose queued, and what is not yet destroyed is kept
\* by a user or by a task: nothing of a destroyed Client stays for ever.
THEOREM ReleaseNotForgotten ==
  Careful => (ClientSpec => [](destroyed => /\ \A fd \in watched : In(tasks, <<"handleClose", fd>>)
                                            /\ \A fd \in handed : fd \in copies \/ Refers(tasks, fd)))
<1> SUFFICES ASSUME Careful
             PROVE  ClientSpec => [](destroyed =>
                                       /\ \A fd \in watched : In(tasks, <<"handleClose", fd>>)
                                       /\ \A fd \in handed : fd \in copies \/ Refers(tasks, fd))
  OBVIOUS
<1> DEFINE P == destroyed => /\ \A fd \in watched : In(tasks, <<"handleClose", fd>>)
                             /\ \A fd \in handed : fd \in copies \/ Refers(tasks, fd)
<1>1. ClientInit => OverInv
  BY DEF ClientInit, OverInv
<1>2. TypeInv /\ ConnectorInv /\ OverInv /\ [ClientNext]_allVars => OverInv'
  BY NextOver
<1>3. TypeInv /\ ConnInv /\ OverInv => P
  <2> SUFFICES ASSUME TypeInv, ConnInv, OverInv, destroyed
               PROVE  /\ \A fd \in watched : In(tasks, <<"handleClose", fd>>)
                      /\ \A fd \in handed : fd \in copies \/ Refers(tasks, fd)
    OBVIOUS
  <2>1. connection = NoFd /\ watched \subseteq Fd /\ NoFd \notin Fd
    BY FdAssumption DEF OverInv, TypeInv, ConnTypes
  <2>2. \A fd \in watched : In(tasks, <<"handleClose", fd>>)
    BY <2>1 DEF ConnInv
  <2>3. \A fd \in handed : fd \in copies \/ Refers(tasks, fd)
    BY <2>1 DEF TypeInv, HandedReferenced, Referenced, Refers
  <2> QED
    BY <2>2, <2>3
<1> HIDE DEF P
<1>4. ClientSpec => [](TypeInv /\ ConnectorInv /\ ConnInv)
  BY CarefulCorrect
<1>5. ClientSpec => []P
  BY <1>1, <1>2, <1>3, <1>4, PTL DEF ClientSpec
<1> QED
  BY <1>5 DEF P
=============================================================================
