------------------------------- MODULE Server -------------------------------
(***************************************************************************)
(* A Server (reactor/Server, Acceptor) on its EventloopPool: start(), the  *)
(* connections it accepts, in their map, in the poll tables of the loops   *)
(* and in the hands of users, their removal, the reuse of descriptors, and *)
(* the Server's destruction when its loop has ended.                       *)
(*                                                                         *)
(* What a connection does with its data is in Connection; here it is read  *)
(* until its peer closes.  forceClose is left out: a second handleClose    *)
(* (conn_force) would end every run.                                       *)
(***************************************************************************)
EXTENDS EventloopPool, FdTable

CONSTANTS Fd,             \* descriptor numbers of accepted sockets
          AcceptFd, Acceptor, \* the Acceptor's descriptor and handler
          MaxConns,       \* bound on the connections ever accepted
          NoConn

ASSUME FdAssumption == IsFiniteSet(Fd) /\ AcceptFd \notin Fd /\ MaxConns \in Nat

Conn == 0..(MaxConns - 1)
ASSUME ConnAssumption == {NoConn, Acceptor} \cap Conn = {}
ASSUME EntryAssumption ==
  /\ NoEntry # NullEntry
  /\ {NoEntry, NullEntry} \cap [handler : Conn \cup {Acceptor}, interest : SUBSET {"kRead"}] = {}

VARIABLES
  serving,     \* "starting", "serving", "destroyed"
  nextConnId,  \* nextConnId_
  connections, \* connections_
  connFd, connLoop, \* fd_ and loop_ of each connection
  held,        \* connections whose ConnectionPtr a user keeps
  closed,      \* connections that handleClose has left without events
  events,      \* each loop's poll table
  fdnums,      \* each loop's fdnums_
  phase,       \* where each loop is: "off", "poll", "events", "tasks", "exited"
  ready,       \* the handlers its wait() has collected and not yet called
  tasks, batch \* its tasks, and how many of them runTasks still executes

connVars == <<nextConnId, connections, connFd, connLoop>>
loopVars == <<phase, ready, batch>>
serverVars == <<serving, connVars, held, closed, events, fdnums, loopVars, tasks>>
vars == <<poolVars, serverVars>>

\* Each loop's wakeup descriptor is counted; the timer's is not, for timerQueue_
\* adds it before fdnums_ is initialised (Eventloop.h:96, :102).
Init ==
  /\ PoolInit
  /\ serving = "starting" /\ nextConnId = 0
  /\ connections = [fd \in Fd |-> NoConn]
  /\ connFd = [c \in Conn |-> AcceptFd] /\ connLoop = [c \in Conn |-> NoLoop]
  /\ held = {} /\ closed = {}
  /\ events = [l \in Loop |-> [fd \in Fd \cup {AcceptFd} |-> NoEntry]]
  /\ fdnums = [l \in Loop |-> 1]
  /\ phase = [l \in Loop |-> "off"] /\ ready = [l \in Loop |-> {}]
  /\ tasks = [l \in Loop |-> <<>>] /\ batch = [l \in Loop |-> 0]

\* Somebody has a ConnectionPtr to c.  The last one to drop it runs
\* ~Connection, which closes the descriptor.
Referenced(c) == \/ c \in held
                 \/ \E fd \in Fd : connections[fd] = c
                 \/ \E l \in Loop : \E i \in 1..Len(tasks[l]) : tasks[l][i][2] = c
InUse(fd) == \E c \in Conn : Referenced(c) /\ connFd[c] = fd
-----------------------------------------------------------------------------
\* addFd and setEvent(kRead) on loop l; deleteFd on loop l.
Register(l, fd, h) ==
  /\ events' = [events EXCEPT ![l] = AfterSetEvent(AfterAddFd(@, fd, h), fd, "kRead")]
  /\ fdnums' = [fdnums EXCEPT ![l] = @ + 1]
Unregister(l, fd) ==
  /\ events' = [events EXCEPT ![l] = AfterDeleteFd(@, fd)]
  /\ fdnums' = [fdnums EXCEPT ![l] = @ - 1]

Queue(l, op, c) == tasks' = [tasks EXCEPT ![l] = Append(@, <<op, c>>)]

\* The user's callback may keep the ConnectionPtr it is given.
Callback(c) == held' \in {held, held \cup {c}}

AcceptorListens(l) == Register(l, AcceptFd, Acceptor)
AcceptorGoes(l) == Unregister(l, AcceptFd)

\* Server::start: the Acceptor listens on the loop that getNextEvent gives,
\* which is the base loop; then the caller enters loop().
Listen ==
  /\ startPc = "create" /\ Len(loops) = NumLoops /\ serving = "starting"
  /\ serving' = "serving" /\ startPc' = "started"
  /\ AcceptorListens(loops[1])
  /\ phase' = [phase EXCEPT ![Base] = "poll"]
  /\ UNCHANGED <<loops, currentLoop, count, cond, worker, quit, connVars, held, closed, ready, tasks, batch>>

\* The new connection c has descriptor fd and the loop getNextEvent gives; it
\* is completed on that loop, at once if it is this one.
NewConnection(c, fd) ==
  /\ nextConnId' = nextConnId + 1
  /\ loops' \in NextLoops(fdnums)
  /\ connections' = [connections EXCEPT ![fd] = c]
  /\ connFd' = [connFd EXCEPT ![c] = fd] /\ connLoop' = [connLoop EXCEPT ![c] = loops'[1]]
  /\ IF loops'[1] = Base
       THEN Register(Base, fd, c) /\ Callback(c) /\ UNCHANGED tasks
       ELSE Queue(loops'[1], "completeConnect", c) /\ UNCHANGED <<held, events, fdnums>>

\* Acceptor::handleRead: accept(2) gives a free descriptor, or fails.
Accept ==
  /\ phase[Base] = "events" /\ Acceptor \in ready[Base]
  /\ ready' = [ready EXCEPT ![Base] = @ \ {Acceptor}]
  /\ \/ UNCHANGED <<loops, connVars, held, events, fdnums, tasks>>
     \/ /\ nextConnId < MaxConns
        /\ \E fd \in {f \in Fd : ~InUse(f)} : NewConnection(nextConnId, fd)
  /\ UNCHANGED <<startPc, currentLoop, count, cond, worker, quit, serving, closed, phase, batch>>

\* Faulty: the poll table is cleaned up, and the map keeps the connection.
RemoveConnectionInLoopUnerased(c) == UNCHANGED connections /\ Queue(connLoop[c], "connectDestroyed", c)

RemoveConnectionInLoop(c) ==
  /\ connections' = [connections EXCEPT ![connFd[c]] = NoConn]
  /\ Queue(connLoop[c], "connectDestroyed", c)

\* Faulty: the connection is destroyed on the spot.
HandleCloseAtOnce(l, c) ==
  /\ connections' = [connections EXCEPT ![connFd[c]] = NoConn]
  /\ events' = [events EXCEPT ![l] = AfterDeleteAllEvent(@, connFd[c])]
  /\ closed' = closed \cup {c} /\ UNCHANGED tasks

RemoveConnection(l, c) ==
  IF l = Base THEN RemoveConnectionInLoop(c)
              ELSE Queue(Base, "removeConnection", c) /\ UNCHANGED connections

HandleClose(l, c) ==
  /\ events' = [events EXCEPT ![l] = AfterDeleteAllEvent(@, connFd[c])]
  /\ closed' = closed \cup {c}
  /\ RemoveConnection(l, c)

\* handleRead: a message, or a failed readv taken for one, or the peer has closed.
HandleRead(l, c) ==
  /\ phase[l] = "events" /\ c \in ready[l]
  /\ ready' = [ready EXCEPT ![l] = @ \ {c}]
  /\ \/ Callback(c) /\ UNCHANGED <<connections, events, closed, tasks>>
     \/ HandleClose(l, c) /\ UNCHANGED held
  /\ UNCHANGED <<poolVars, serving, nextConnId, connFd, connLoop, fdnums, phase, batch>>
-----------------------------------------------------------------------------
(***************************************************************************)
(* The loops, reduced to their phases (Eventloop).                         *)
(***************************************************************************)
StartLoop(l) == /\ l \in PoolLoop /\ worker[l] = "looping" /\ phase[l] = "off"
                /\ phase' = [phase EXCEPT ![l] = "poll"]
                /\ UNCHANGED <<poolVars, serving, connVars, held, closed, events, fdnums, ready, tasks, batch>>

Poll(l) ==
  /\ phase[l] = "poll" /\ ~quit[l] /\ NullEntries(events[l]) = {}
  /\ phase' = [phase EXCEPT ![l] = "events"]
  /\ \E R \in SUBSET {fd \in Fd \cup {AcceptFd} : Interest(events[l], fd) # {}} :
       ready' = [ready EXCEPT ![l] = {events[l][fd].handler : fd \in R}]
  /\ UNCHANGED <<poolVars, serving, connVars, held, closed, events, fdnums, tasks, batch>>

\* while(!quit_) ends.
EndLoop(l) ==
  /\ phase[l] = "poll" /\ quit[l]
  /\ phase' = [phase EXCEPT ![l] = "exited"]
  /\ IF l = Base THEN UNCHANGED poolVars ELSE LoopReturns(l)
  /\ UNCHANGED <<serving, connVars, held, closed, events, fdnums, ready, tasks, batch>>

RunTasks(l) ==
  /\ phase[l] = "events" /\ ready[l] = {}
  /\ phase' = [phase EXCEPT ![l] = "tasks"] /\ batch' = [batch EXCEPT ![l] = Len(tasks[l])]
  /\ UNCHANGED <<poolVars, serving, connVars, held, closed, events, fdnums, ready, tasks>>

\* The task runs, and its reference to the connection goes.
RunTask(l) ==
  /\ phase[l] = "tasks" /\ batch[l] > 0
  /\ batch' = [batch EXCEPT ![l] = @ - 1]
  /\ LET op == Head(tasks[l])[1]
         c  == Head(tasks[l])[2]
         rest == [tasks EXCEPT ![l] = Tail(@)]
     IN CASE op = "completeConnect" ->
               /\ Register(l, connFd[c], c) /\ Callback(c)
               /\ tasks' = rest /\ UNCHANGED connections
          [] op = "removeConnection" ->
               /\ connections' = [connections EXCEPT ![connFd[c]] = NoConn]
               /\ tasks' = [rest EXCEPT ![connLoop[c]] = Append(@, <<"connectDestroyed", c>>)]
               /\ UNCHANGED <<events, fdnums, held>>
          [] op = "connectDestroyed" ->
               /\ Unregister(l, connFd[c])
               /\ tasks' = rest /\ UNCHANGED <<connections, held>>
  /\ UNCHANGED <<poolVars, serving, nextConnId, connFd, connLoop, closed, phase, ready>>

EndTasks(l) ==
  /\ phase[l] = "tasks" /\ batch[l] = 0
  /\ phase' = [phase EXCEPT ![l] = "poll"]
  /\ UNCHANGED <<poolVars, serving, connVars, held, closed, events, fdnums, ready, tasks, batch>>
-----------------------------------------------------------------------------
UserDrops(c) == /\ c \in held /\ held' = held \ {c}
                /\ UNCHANGED <<poolVars, serving, connVars, closed, events, fdnums, loopVars, tasks>>

\* Somebody calls setQuit on the base loop.
SetQuit == /\ serving = "serving" /\ ~quit[Base]
           /\ quit' = [quit EXCEPT ![Base] = TRUE]
           /\ UNCHANGED <<startPc, loops, currentLoop, count, cond, worker, serverVars>>

\* Faulty: the loops of the pool are left running.
DestroyServerOnly ==
  /\ phase[Base] = "exited" /\ serving = "serving" /\ serving' = "destroyed"
  /\ connections' = [fd \in Fd |-> NoConn]
  /\ AcceptorGoes(Base)
  /\ UNCHANGED <<poolVars, nextConnId, connFd, connLoop, held, closed, loopVars, tasks>>

\* ~Server, after loop() has returned: the members go in the reverse order of
\* their declaration, connections_, threadPool_ and acceptor_.
DestroyServer ==
  /\ phase[Base] = "exited" /\ serving = "serving" /\ serving' = "destroyed"
  /\ connections' = [fd \in Fd |-> NoConn]
  /\ QuitAll
  /\ AcceptorGoes(Base)
  /\ UNCHANGED <<startPc, loops, currentLoop, count, cond, worker, nextConnId, connFd, connLoop,
                 held, closed, loopVars, tasks>>
-----------------------------------------------------------------------------
LoopStep(l) == \/ StartLoop(l) \/ Poll(l) \/ EndLoop(l) \/ RunTasks(l) \/ RunTask(l) \/ EndTasks(l)
               \/ (l = Base /\ Accept) \/ \E c \in Conn : HandleRead(l, c)

MainStep == (StartStep /\ UNCHANGED serverVars) \/ Listen \/ DestroyServer

Next == \/ MainStep \/ SetQuit \/ (SpuriousWakeup /\ UNCHANGED serverVars)
        \/ \E l \in PoolLoop : ThreadStep(l) /\ UNCHANGED serverVars
        \/ \E l \in Loop : LoopStep(l)
        \/ \E c \in Conn : UserDrops(c)

\* Every thread runs: the caller of start(), the threads of the pool, the loops.
Fairness == /\ WF_vars(MainStep)
            /\ \A l \in PoolLoop : WF_vars(ThreadStep(l) /\ UNCHANGED serverVars)
            /\ \A l \in Loop : WF_vars(LoopStep(l))

Spec == Init /\ [][Next]_vars
FairSpec == Spec /\ Fairness
-----------------------------------------------------------------------------
(***************************************************************************)
(* Properties.                                                             *)
(***************************************************************************)
Running(l) == phase[l] \in {"poll", "events", "tasks"}

TypeOK ==
  /\ startPc \in {"create", "spin", "latch", "asleep", "store", "started"}
  /\ loops \in Seq(Loop \cup {NoLoop}) /\ currentLoop \in Loop \cup {NoLoop}
  /\ count \in 0..1 /\ cond \in ConditionOf({Base})
  /\ worker \in [PoolLoop -> {"none", "created", "failed", "running", "constructed", "looping", "exited"}]
  /\ quit \in [Loop -> BOOLEAN] /\ serving \in {"starting", "serving", "destroyed"}
  /\ nextConnId \in 0..MaxConns /\ connections \in [Fd -> Conn \cup {NoConn}]
  /\ connFd \in [Conn -> Fd \cup {AcceptFd}] /\ connLoop \in [Conn -> Loop \cup {NoLoop}]
  /\ held \subseteq Conn /\ closed \subseteq Conn
  /\ events \in [Loop -> [Fd \cup {AcceptFd} ->
                   [handler : Conn \cup {Acceptor}, interest : SUBSET {"kRead"}] \cup {NoEntry, NullEntry}]]
  /\ fdnums \in [Loop -> Int]
  /\ phase \in [Loop -> {"off", "poll", "events", "tasks", "exited"}]
  /\ ready \in [Loop -> SUBSET (Conn \cup {Acceptor})] /\ batch \in [Loop -> Nat]
  /\ tasks \in [Loop -> Seq({"completeConnect", "removeConnection", "connectDestroyed"} \X Conn)]

\* What start() has stored are the addresses of different loops that have been
\* built and not yet destroyed: no null pointer, and no loop twice, however
\* the threads and the latch interleave.
LoopsAreLive ==
  serving # "destroyed" =>
    /\ \A i \in 1..Len(loops) : loops[i] \in PoolLoop => worker[loops[i]] = "looping"
    /\ \A i \in 1..Len(loops) : loops[i] # NoLoop
    /\ \A i, j \in 1..Len(loops) : loops[i] = loops[j] => i = j

\* The raw pointers in the poll table of a running loop, and those its wait()
\* has collected, lead to connections that somebody still references, under
\* the descriptor they have.
NoDanglingHandler ==
  \A l \in Loop : Running(l) =>
    /\ \A c \in ready[l] \cap Conn : Referenced(c)
    /\ \A fd \in Fd : HasEvent(events[l], fd) =>
         LET c == events[l][fd].handler IN Referenced(c) /\ connFd[c] = fd /\ connLoop[c] = l

\* connections_ holds exactly the connections that are not being removed, each
\* under its descriptor: none is overwritten when a number is used again.
RemovalQueued(c) == \E i \in 1..Len(tasks[Base]) : tasks[Base][i] = <<"removeConnection", c>>
MapHoldsOpenConnections ==
  serving = "serving" =>
    /\ \A fd \in Fd : connections[fd] # NoConn => connFd[connections[fd]] = fd
    /\ \A c \in 0..(nextConnId - 1) :
         connections[connFd[c]] = c <=> c \notin closed \/ RemovalQueued(c)

\* fdnums_ of a loop, which getNextEvent compares, is the wakeup descriptor and
\* those in its poll table.
FdNumsCounted == \A l \in Loop : fdnums[l] = 1 + Cardinality(Registered(events[l]))

\* start() returns if every thread can be created.
StartReturns == <>(startPc = "started" \/ \E l \in PoolLoop : worker[l] = "failed")

\* A closed connection is freed, and with it its descriptor, unless a user
\* keeps it or the base loop ends.
ClosedConnectionFreed == \A c \in Conn : c \in closed ~> ~Referenced(c) \/ c \in held \/ quit[Base]

\* ~EventloopPool: "set the quit flags so that the loops end"
\* (EventloopPool.cpp:24), and with them the threads.
PoolStops == serving = "destroyed" ~> \A l \in PoolLoop : worker[l] \in {"none", "failed", "exited"}
=============================================================================
