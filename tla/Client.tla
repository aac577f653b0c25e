------------------------------- MODULE Client -------------------------------
(***************************************************************************)
(* A Client (reactor/Client.h, Client.cpp) with its ClientConnector: the   *)
(* Connection it makes of the socket the connector hands over, the         *)
(* references that keep this Connection alive, and ~Client.                *)
(*                                                                         *)
(* A Connection is identified by its descriptor, which is closed when the  *)
(* last reference to it goes (~Connection).  Its data is Connection's      *)
(* subject; here it is read until its peer closes it.                      *)
(*                                                                         *)
(* connect_ and retry_ of the Client are left out: only removeConnection   *)
(* reads them, which nothing calls (newConnection sets no close callback), *)
(* and with it goes ClientConnector::restart.                              *)
(***************************************************************************)
EXTENDS ClientConnector

\* TRUE: callers keep the rules Finished and MayDestroy, which the code does
\* not enforce.
CONSTANT Careful
ASSUME CarefulAssumption == Careful \in BOOLEAN

VARIABLES
  connection, \* connection_, as the descriptor of the Connection, or NoFd
  connState,  \* state_ of each Connection
  watched,    \* descriptors whose entry of the poll table is a Connection's, with kRead
  readable,   \* those whose handler select has reported and not yet called
  copies,     \* Connections of which a user keeps a ConnectionPtr
  destroyed   \* ~Client has run

connVars == <<connection, connState, watched, readable, copies>>
clientVars == <<connVars, destroyed>>
allVars == <<vars, clientVars>>

ClientInit ==
  /\ Init
  /\ connection = NoFd /\ connState = [fd \in Fd |-> "kDisconnected"]
  /\ watched = {} /\ readable = {} /\ copies = {} /\ destroyed = FALSE

\* A shared_ptr somewhere owns the Connection on fd.
Referenced(fd) == \/ connection = fd \/ fd \in copies
                  \/ \E i \in 1..Len(tasks) : tasks[i][2] = fd

\* ~Connection has closed the descriptors that are no longer referenced.
DropUnreferenced == handed' = {fd \in Fd : Referenced(fd)'}

\* Connected, and the user has not been told otherwise; over, as
\* isDisconnected() tells.
IsConnected(fd) == fd \in {f \in Fd : connState[f] = "kConnected"}
Finished(fd) == fd \notin {f \in Fd : connState[f] # "kDisconnected"}
-----------------------------------------------------------------------------
(***************************************************************************)
(* The Connection.                                                         *)
(***************************************************************************)
\* completeConnect; the connection callback may keep the pointer it is given.
NewConnection(fd) ==
  /\ connection' = fd
  /\ connState' = [connState EXCEPT ![fd] = "kConnected"]
  /\ watched' = watched \cup {fd}
  /\ copies' \in {copies, copies \cup {fd}}
  /\ DropUnreferenced

HandedOver ==
  /\ HandOver
  /\ IF connect THEN NewConnection(sockfd)
                ELSE UNCHANGED <<connection, connState, watched, copies, handed>>
  /\ UNCHANGED <<readable, destroyed>>

\* No close callback is set: the entry stays in the poll table, without events.
HandleClose(fd) ==
  /\ connState' = IF connState[fd] = "kDisconnecting"
                    THEN [connState EXCEPT ![fd] = "kDisconnected"] ELSE connState
  /\ watched' = watched \ {fd}

\* handleRead: a message, or a failed readv taken for one, and the callback, or
\* the peer has closed.
HandleRead(fd) ==
  /\ pc = "events" /\ Outside /\ fd \in readable
  /\ readable' = readable \ {fd}
  /\ \/ copies' \in {copies, copies \cup {fd}} /\ UNCHANGED <<connState, watched>>
     \/ HandleClose(fd) /\ UNCHANGED copies
  /\ UNCHANGED <<memberVars, timers, events, open, loopVars, queueVars, userPc, gaveUp,
                 connection, destroyed>>
  /\ DropUnreferenced

\* The task queued by forceClose, or by shutdown called from a thread.
RunConnTask ==
  /\ pc = "tasks" /\ Outside /\ batch > 0 /\ Head(tasks)[2] # NoFd
  /\ batch' = batch - 1 /\ tasks' = Tail(tasks)
  /\ IF Head(tasks)[1] = "handleClose" THEN HandleClose(Head(tasks)[2])
                                       ELSE UNCHANGED <<connState, watched>>
  /\ UNCHANGED <<connection, copies>>
  /\ DropUnreferenced
  /\ UNCHANGED <<memberVars, timers, events, open, loopVars, userPc, gaveUp, readable, destroyed>>
-----------------------------------------------------------------------------
(***************************************************************************)
(* The Client's user.                                                      *)
(***************************************************************************)
Disconnecting == /\ IsConnected(connection) /\ ~destroyed
                 /\ connState' = [connState EXCEPT ![connection] = "kDisconnecting"]
                 /\ UNCHANGED <<memberVars, timers, socketVars, loopVars, userPc, gaveUp,
                                connection, watched, readable, copies, destroyed>>

\* shutdown: shutdownInLoop on the spot, or as a task when a thread calls.
Disconnect == InCallback /\ Disconnecting /\ UNCHANGED queueVars

DisconnectFromThread ==
  /\ Disconnecting /\ Len(tasks) < MaxTasks
  /\ tasks' = Append(tasks, <<"shutdownInLoop", connection>>)
  /\ UNCHANGED batch

\* Faulty: handleClose is called, not queued.
ForceCloseAtOnce(fd) == HandleClose(fd) /\ UNCHANGED tasks

\* Faulty: shutdown, which waits for the peer, in place of forceClose.
ForceCloseQuietly(fd) ==
  /\ connState' = [connState EXCEPT ![fd] = "kDisconnecting"]
  /\ tasks' = Append(tasks, <<"shutdownInLoop", fd>>)
  /\ UNCHANGED watched

ForceClose(fd) ==
  /\ connState' = [connState EXCEPT ![fd] = "kDisconnecting"]
  /\ tasks' = Append(tasks, <<"handleClose", fd>>)
  /\ UNCHANGED watched

\* No user keeps a pointer to a Connection in use, and disconnect() has not
\* been called, or its effect is complete.
MayDestroy == \/ Finished(connection)
              \/ IsConnected(connection) /\ connection \notin copies

\* ~Client, when its connector is idle.
Destroy ==
  /\ InCallback /\ Quiet /\ ~destroyed
  /\ Careful => MayDestroy
  /\ destroyed' = TRUE
  /\ IF IsConnected(connection) /\ connection \notin copies
       THEN ForceClose(connection)
       ELSE UNCHANGED <<connState, watched, tasks>>
  /\ connection' = NoFd
  /\ UNCHANGED copies /\ DropUnreferenced
  /\ UNCHANGED <<memberVars, timers, events, open, loopVars, batch, userPc, gaveUp, readable>>

\* A user drops a ConnectionPtr that getConnection() or a callback has given.
DropCopy(fd) ==
  /\ fd \in copies /\ copies' = copies \ {fd}
  /\ Careful => Finished(fd) \/ connection = fd
  /\ UNCHANGED <<connection, tasks>> /\ DropUnreferenced
  /\ UNCHANGED <<memberVars, timers, events, open, loopVars, batch, userPc, gaveUp,
                 connState, watched, readable, destroyed>>

MayConnect == ~destroyed /\ (Careful => Finished(connection))
-----------------------------------------------------------------------------
ConnectorStep == \/ Connecting \/ ConnectFails \/ ConnectGivesUp \/ Retry \/ HandleWrite
                 \/ RetryTimer \/ RunTask \/ EndTasks
                 \/ RunTasks /\ readable = {}

PollAll == Poll /\ readable' \in SUBSET watched
           /\ UNCHANGED <<connection, connState, watched, copies, destroyed>>

LoopStep == \/ ConnectorStep /\ UNCHANGED clientVars
            \/ PollAll \/ HandedOver \/ RunConnTask
            \/ \E fd \in Fd : HandleRead(fd)

ConnectorCall == \/ MayConnect /\ Start
                 \/ ~destroyed /\ Stop
                 \/ \E u \in Threads : \/ MayConnect /\ StartFromThread(u)
                                       \/ ~destroyed /\ StopFromThread(u)
                                       \/ QueueCall(u)

UserStep == \/ ConnectorCall /\ UNCHANGED clientVars
            \/ Disconnect \/ DisconnectFromThread \/ Destroy
            \/ \E fd \in Fd : DropCopy(fd)

ClientNext == LoopStep \/ UserStep

\* The loop and a thread inside a call keep running, and timers expire.
TimerExpires == PollAll /\ due' > 0
Fairness == /\ WF_allVars(LoopStep) /\ SF_allVars(TimerExpires)
            /\ \A u \in Threads : WF_allVars(QueueCall(u) /\ UNCHANGED clientVars)

ClientSpec == ClientInit /\ [][ClientNext]_allVars
FairSpec == ClientSpec /\ Fairness
-----------------------------------------------------------------------------
(***************************************************************************)
(* Properties.                                                             *)
(***************************************************************************)
\* The states are those of the declarations, and a descriptor is a
\* Connection's as long as somebody holds the Connection.
TypeOK ==
  /\ ConnectorTypeOK
  /\ tasks \in Seq((CallName \X {NoFd}) \cup ({"handleClose", "shutdownInLoop"} \X Fd))
  /\ connection \in Fd \cup {NoFd} /\ copies \subseteq Fd
  /\ watched \subseteq Fd /\ readable \subseteq Fd /\ destroyed \in BOOLEAN
  /\ connState \in [Fd -> {"kConnected", "kDisconnecting", "kDisconnected"}]
  /\ handed = {fd \in Fd : Referenced(fd)}

\* The poll table holds a raw pointer to the handler inside a Connection.  As
\* long as it can be called, because the descriptor is polled or select has
\* just reported it, the Connection is alive: the task forceClose queues
\* holds it until its events are off, whatever is read before.
NoDanglingConnection == watched \cup readable \subseteq handed

\* After ~Client the loop stops polling the connection it had, and nobody but
\* a user keeps one.
ConnectionsReleased == destroyed ~> watched = {} /\ handed \subseteq copies
=============================================================================
