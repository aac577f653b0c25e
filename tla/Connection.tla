----------------------------- MODULE Connection -----------------------------
(***************************************************************************)
(* One accepted connection of a Server (reactor/Connection, Server), from  *)
(* newConnection to its last reference: the loop that serves it, the loop  *)
(* of the Server, the peer, and the code that holds a ConnectionPtr and    *)
(* calls send, shutdown and forceClose.                                    *)
(*                                                                         *)
(* The loop is that of Eventloop, reduced to its phases and the order of   *)
(* its tasks (SerialExecutor); the poll table is that of FdTable for this  *)
(* connection's descriptor.  The descriptor is closed by ~Connection, so   *)
(* no other connection uses its number while a reference remains.          *)
(***************************************************************************)
EXTENDS FdTable, Naturals, Sequences

CONSTANTS User,            \* holders of a ConnectionPtr other than the server
          LoopUsers,       \* those whose code runs on the connection's own loop
          ThreadUsers,     \* those whose code runs on other threads
          ThreadOps,       \* what it calls there: "send", "shutdown", "forceClose"
          LoopOps,         \* what it calls on the loop
          CallbackOps,     \* what the connection's callbacks call
          Data,            \* the messages sent, each once
          NoData,
          Large,           \* those whose tail outputBuffer_ may refuse
          Filling,         \* those whose tail may fill the blocks of outputBuffer_
          NulPart,         \* the parts of messages that begin with a NUL byte
          ConnFd, Handler, \* the descriptor, and eventHandler_
          WritingGarbage,  \* what writing_, which nothing initialises, may hold
          MaxInbound       \* bound on the messages of the peer that wait unread

ASSUME UserAssumption == LoopUsers \cup ThreadUsers \subseteq User /\ WritingGarbage \subseteq BOOLEAN
ASSUME DataAssumption == NoData \notin Data /\ MaxInbound \in Nat /\ Large \cup Filling \subseteq Data
ASSUME TableAssumption ==
  /\ NoEntry # NullEntry
  /\ {NoEntry, NullEntry} \cap [handler : {Handler}, interest : SUBSET {"kRead", "kWrite"}] = {}

VARIABLES
  sameLoop,  \* the Server's loop is the connection's (no pool threads)
  state,     \* state_
  writing,   \* writing_
  output,    \* outputBuffer_, the parts of messages
  filled,    \* its readableSize_ is its buflen_
  events,    \* the poll table at ConnFd
  flags,     \* the events reported for eventHandler_ and not handled
  pc,        \* where the connection's loop is
  tasks,     \* its tasks_
  taskings,  \* runTasks' vector, the running task first
  serverTasks, \* calls of removeConnectionInLoop queued on the Server's loop
  inMap,     \* connections_ holds the connection
  holders,   \* the users that hold it
  userPc,    \* the call a user is inside of, after its test of state_
  inbound,   \* messages of the peer still unread
  peerOpen,  \* the peer has not closed
  fin,       \* shutdownWrite was called
  wire,      \* what write() has accepted of the messages, in order
  stray,     \* write() has accepted bytes that nobody sent
  unsent,    \* history: messages not yet passed to send
  accepted   \* history: what sendInLoop has written or outputBuffer_ taken, in order

loopVars == <<pc, flags, taskings>>
queueVars == <<tasks, serverTasks>>
connVars == <<state, writing, output, events>>
netVars == <<inbound, peerOpen>>
outVars == <<fin, wire, stray, filled, accepted>>
ownerVars == <<inMap, holders>>
vars == <<sameLoop, loopVars, queueVars, connVars, netVars, outVars, ownerVars, userPc, unsent>>

Read == "kRead"
Write == "kWrite"

\* newConnection has stored the connection and called runInLoop(completeConnect).
Init ==
  /\ sameLoop \in BOOLEAN
  /\ state = "kConnecting" /\ writing \in WritingGarbage /\ output = <<>>
  /\ events = [fd \in {ConnFd} |-> NoEntry] /\ flags = {}
  /\ pc = IF sameLoop THEN "complete" ELSE "poll"
  /\ tasks = IF sameLoop THEN <<>> ELSE << <<"complete", NoData>> >>
  /\ taskings = <<>> /\ serverTasks = 0
  /\ inMap = TRUE /\ holders = {} /\ userPc = [u \in User |-> "idle"]
  /\ inbound = 0 /\ peerOpen = TRUE
  /\ fin = FALSE /\ wire = <<>> /\ stray = FALSE /\ unsent = Data /\ accepted = <<>>
  /\ filled = TRUE  \* no block and no byte

Queue(op) == tasks' = Append(tasks, <<op, NoData>>)

\* Somebody holds a reference, so that ~Connection has not run.
Alive == \/ inMap \/ holders # {} \/ serverTasks > 0
         \/ tasks # <<>> \/ taskings # <<>>
-----------------------------------------------------------------------------
(***************************************************************************)
(* The operations that run on the connection's loop.                       *)
(***************************************************************************)
Parts(m) == << <<m, 1>>, <<m, 2>> >>
Front(s, n) == SubSeq(s, 1, n)
Rest(s, n) == SubSeq(s, n + 1, Len(s))

\* The results of write(): how many parts the kernel took, 0 for EAGAIN.
\* After shutdownWrite, or when the peer is gone, write may fail for good.
MayTake(s) == IF fin THEN {} ELSE 0..Len(s)
MayFault == fin \/ ~peerOpen

\* outputBuffer_.write, of which sendInLoop ignores the result: the rest of the
\* message is taken, or all of it refused and lost.
BufferTail(m, n) ==
  \/ /\ output' = output \o Rest(Parts(m), n)
     /\ accepted' = accepted \o Parts(m)
     /\ filled' \in BOOLEAN /\ (filled' => m \in Filling)
  \/ /\ m \in Large
     /\ accepted' = accepted \o Front(Parts(m), n)
     /\ UNCHANGED <<output, filled>>

\* write() takes n parts of the message, and the buffer the others.
SendParts(m, n) ==
  /\ wire' = wire \o Front(Parts(m), n)
  /\ IF n = Len(Parts(m))
       THEN /\ accepted' = accepted \o Parts(m)
            /\ Queue("writeComplete")
            /\ UNCHANGED <<writing, output, filled, events>>
       ELSE /\ BufferTail(m, n)
            /\ writing' = TRUE
            /\ events' = AfterSetEvent(events, ConnFd, Write)
            /\ UNCHANGED tasks
  /\ UNCHANGED <<state, stray>>

\* Faulty: data is written although older data waits in the output buffer.
SendInLoopOvertaking(m) ==
  \/ /\ state = "kDisconnected" \/ MayFault
     /\ UNCHANGED <<connVars, tasks, wire, stray, filled, accepted>>
  \/ /\ state # "kDisconnected"
     /\ \E n \in MayTake(Parts(m)) : SendParts(m, n)

\* sendInLoop.  While older data waits, or writing_ is set, the message is
\* dropped without a report.
SendInLoop(m) ==
  \/ /\ state = "kDisconnected" \/ writing \/ output # <<>> \/ MayFault
     /\ UNCHANGED <<connVars, tasks, wire, stray, filled, accepted>>
  \/ /\ state # "kDisconnected" /\ ~writing /\ output = <<>>
     /\ \E n \in MayTake(Parts(m)) : SendParts(m, n)

\* Faulty: the socket is shut down at once.
ShutdownAtOnce == fin' = TRUE

\* shutdownInLoop: what is still buffered is sent first.
ShutdownInLoop == fin' = (fin \/ ~writing)

\* Faulty: the poll table keeps the descriptor.
RemoveConnectionOnly == inMap' = FALSE /\ UNCHANGED tasks

\* removeConnectionInLoop, on the Server's loop.
RemoveConnectionInLoop == inMap' = FALSE /\ Queue("destroy")

RemoveConnection ==
  IF sameLoop THEN RemoveConnectionInLoop /\ UNCHANGED serverTasks
              ELSE serverTasks' = serverTasks + 1 /\ UNCHANGED <<inMap, tasks>>

\* Faulty: the Server is not told.
HandleCloseUnreported ==
  /\ state' = IF state = "kDisconnecting" THEN "kDisconnected" ELSE state
  /\ events' = AfterDeleteAllEvent(events, ConnFd)
  /\ UNCHANGED <<inMap, queueVars>>

\* handleClose.  The state moves on only from kDisconnecting.
HandleClose ==
  /\ state' = IF state = "kDisconnecting" THEN "kDisconnected" ELSE state
  /\ events' = AfterDeleteAllEvent(events, ConnFd)
  /\ RemoveConnection
-----------------------------------------------------------------------------
(***************************************************************************)
(* The connection's loop: select, the handler, and the tasks.              *)
(***************************************************************************)
\* select follows every entry of the table: there must be no null one.  The
\* descriptor is reported as readable whenever there is something to read.
PollWait ==
  /\ pc = "poll" /\ NullEntries(events) = {}
  /\ \E R \in SUBSET Interest(events, ConnFd) :
       /\ Read \in R <=> Read \in Interest(events, ConnFd) /\ (inbound > 0 \/ ~peerOpen)
       /\ flags' = R
  /\ pc' = "events"
  /\ UNCHANGED <<sameLoop, taskings, queueVars, connVars, netVars, outVars, ownerVars, userPc, unsent>>

EnterHandler ==
  /\ pc = "events" /\ flags # {}
  /\ pc' = "handler"
  /\ UNCHANGED <<sameLoop, flags, taskings, queueVars, connVars, netVars, outVars, ownerVars, userPc, unsent>>

\* readv has bytes for messageCallback_; or there is no more, or no room in the
\* input buffer, and handleRead closes the connection.
ReadReturns ==
  \/ /\ inbound > 0
     /\ inbound' = inbound - 1 /\ pc' = "callback"
     /\ UNCHANGED <<state, events, inMap, queueVars>>
  \/ /\ inbound > 0 \/ ~peerOpen
     /\ HandleClose
     /\ UNCHANGED <<pc, inbound>>

\* readv fails (EINTR, a reset by the peer), and readFd ends without a return
\* statement: handleRead finds a count, a zero, or an error with any errno.
ReadFails ==
  /\ \/ pc' = "callback" /\ UNCHANGED <<state, events, inMap, queueVars>>
     \/ HandleClose /\ UNCHANGED pc
     \/ UNCHANGED <<pc, state, events, inMap, queueVars>>
  /\ UNCHANGED inbound

HandleRead ==
  /\ pc = "handler" /\ Read \in flags
  /\ flags' = flags \ {Read}
  /\ ReadReturns \/ ReadFails
  /\ UNCHANGED <<sameLoop, taskings, writing, output, peerOpen, outVars, holders, userPc, unsent>>

\* handleWrite passes the output buffer to write() as a C string, which ends
\* at the first NUL byte; without one, the string of a filled buffer runs on
\* into what lies behind.  write() takes n parts, and bytes from behind.
Wrote(n, behind) ==
  /\ n > 0 \/ behind
  /\ \A i \in 1..n : output[i] \notin NulPart
  /\ behind => filled /\ n = Len(output)
  /\ wire' = wire \o Front(output, n) /\ stray' = (stray \/ behind)
  /\ output' = Rest(output, n) /\ filled' = (filled /\ output = <<>>)

OutputWritten == /\ writing' = FALSE
                 /\ events' = AfterDeleteEvent(events, ConnFd, Write)
                 /\ Queue("writeComplete")

\* Faulty: the last part leaves the buffer and a pending shutdown is forgotten.
HandleWriteNoShutdown ==
  /\ pc = "handler" /\ Write \in flags /\ Read \notin flags
  /\ flags' = {}
  /\ \/ UNCHANGED <<connVars, tasks, wire, stray, filled>>
     \/ /\ writing
        /\ \E n \in MayTake(output), behind \in BOOLEAN :
             /\ Wrote(n, behind)
             /\ IF n = Len(output) THEN OutputWritten ELSE UNCHANGED <<writing, events, tasks>>
        /\ UNCHANGED state
  /\ UNCHANGED <<sameLoop, pc, taskings, serverTasks, netVars, fin, accepted, ownerVars, userPc, unsent>>

\* handleWrite: the kernel takes some of the output buffer, or nothing.
HandleWrite ==
  /\ pc = "handler" /\ Write \in flags /\ Read \notin flags
  /\ flags' = {}
  /\ \/ UNCHANGED <<connVars, tasks, wire, stray, filled, fin>>
     \/ /\ writing
        /\ \E n \in MayTake(output), behind \in BOOLEAN :
             /\ Wrote(n, behind)
             /\ IF n = Len(output)
                  THEN OutputWritten /\ fin' = (fin \/ state = "kDisconnecting")
                  ELSE UNCHANGED <<writing, events, tasks, fin>>
        /\ UNCHANGED state
  /\ UNCHANGED <<sameLoop, pc, taskings, serverTasks, netVars, accepted, ownerVars, userPc, unsent>>

EndHandler ==
  /\ pc = "handler" /\ flags = {}
  /\ pc' = "events"
  /\ UNCHANGED <<sameLoop, flags, taskings, queueVars, connVars, netVars, outVars, ownerVars, userPc, unsent>>

SwapTasks ==
  /\ pc = "events" /\ flags = {}
  /\ taskings' = tasks /\ tasks' = <<>>
  /\ pc' = "tasks"
  /\ UNCHANGED <<sameLoop, flags, serverTasks, connVars, netVars, outVars, ownerVars, userPc, unsent>>

EndTasks ==
  /\ pc = "tasks" /\ taskings = <<>>
  /\ pc' = "poll"
  /\ UNCHANGED <<sameLoop, flags, taskings, queueVars, connVars, netVars, outVars, ownerVars, userPc, unsent>>

AtTask(op) == pc = "tasks" /\ taskings # <<>> /\ Head(taskings)[1] = op

\* completeConnect and a write-complete notification call back user code.
StartCompleteTask ==
  /\ AtTask("complete")
  /\ pc' = "complete"
  /\ UNCHANGED <<sameLoop, flags, taskings, queueVars, connVars, netVars, outVars, ownerVars, userPc, unsent>>

CompleteConnect ==
  /\ pc = "complete"
  /\ events' = AfterSetEvent(AfterAddFd(events, ConnFd, Handler), ConnFd, Read)
  /\ state' = "kConnected"
  /\ pc' = "callback"
  /\ UNCHANGED <<sameLoop, flags, taskings, queueVars, writing, output, netVars, outVars, ownerVars, userPc, unsent>>

WriteComplete ==
  /\ AtTask("writeComplete")
  /\ pc' = "callback"
  /\ UNCHANGED <<sameLoop, flags, taskings, queueVars, connVars, netVars, outVars, ownerVars, userPc, unsent>>

RunOtherTask ==
  /\ \/ /\ AtTask("send") /\ SendInLoop(Head(taskings)[2])
        /\ UNCHANGED <<serverTasks, fin, inMap>>
     \/ /\ AtTask("shutdown") /\ ShutdownInLoop
        /\ UNCHANGED <<queueVars, connVars, wire, stray, filled, accepted, inMap>>
     \/ /\ AtTask("close") /\ HandleClose
        /\ UNCHANGED <<writing, output, outVars>>
     \/ /\ AtTask("destroy") /\ events' = AfterDeleteFd(events, ConnFd)
        /\ UNCHANGED <<queueVars, state, writing, output, outVars, inMap>>
  /\ taskings' = Tail(taskings)
  /\ UNCHANGED <<sameLoop, pc, flags, netVars, holders, userPc, unsent>>

\* A callback returns into the task, into handleEvents, or, from Acceptor, to
\* the walk over the handlers.
EndCallback ==
  /\ pc = "callback"
  /\ IF taskings # <<>>
       THEN taskings' = Tail(taskings) /\ pc' = "tasks"
       ELSE UNCHANGED taskings /\ pc' = IF flags = {} THEN "events" ELSE "handler"
  /\ UNCHANGED <<sameLoop, flags, queueVars, connVars, netVars, outVars, ownerVars, userPc, unsent>>
-----------------------------------------------------------------------------
(***************************************************************************)
(* send, shutdown and forceClose.                                          *)
(***************************************************************************)
\* Messages differ only in their names: which one is next makes no difference.
NextMessage == CHOOSE m \in unsent : TRUE
TakeMessage == unsent # {} /\ unsent' = unsent \ {NextMessage}

SendNow == TakeMessage /\ SendInLoop(NextMessage) /\ UNCHANGED <<serverTasks, fin>>

ShutdownNow == /\ state = "kConnected" /\ state' = "kDisconnecting"
               /\ ShutdownInLoop
               /\ UNCHANGED <<writing, output, events, queueVars, wire, stray, filled, accepted, unsent>>

ForceCloseNow == /\ state = "kConnected" /\ state' = "kDisconnecting"
                 /\ Queue("close")
                 /\ UNCHANGED <<writing, output, events, serverTasks, outVars, unsent>>

CallFromLoop(ops) ==
  /\ \/ "send" \in ops /\ SendNow
     \/ "shutdown" \in ops /\ ShutdownNow
     \/ "forceClose" \in ops /\ ForceCloseNow
  /\ UNCHANGED <<sameLoop, loopVars, netVars, ownerVars, userPc>>

\* The connection's own callbacks, and other code on its loop: handlers and
\* timers that run before or after it in the same walk.
CallFromCallback == pc = "callback" /\ CallFromLoop(CallbackOps)
CallFromLoopUser == /\ pc = "events" /\ holders \cap LoopUsers # {}
                    /\ CallFromLoop(LoopOps)

Threads == holders \cap ThreadUsers

SendFromThread(u) ==
  /\ u \in Threads /\ userPc[u] = "idle" /\ "send" \in ThreadOps
  /\ TakeMessage
  /\ tasks' = Append(tasks, <<"send", NextMessage>>)
  /\ UNCHANGED <<sameLoop, loopVars, serverTasks, connVars, netVars, outVars, ownerVars, userPc>>

\* Another thread tests state_, and only then sets it and queues the call.
TestState(u, op) ==
  /\ u \in Threads /\ userPc[u] = "idle" /\ op \in ThreadOps \cap {"shutdown", "forceClose"}
  /\ state = "kConnected"
  /\ userPc' = [userPc EXCEPT ![u] = op]
  /\ UNCHANGED <<sameLoop, loopVars, queueVars, connVars, netVars, outVars, ownerVars, unsent>>

SetStateAndQueue(u) ==
  /\ userPc[u] # "idle"
  /\ state' = "kDisconnecting"
  /\ Queue(IF userPc[u] = "shutdown" THEN "shutdown" ELSE "close")
  /\ userPc' = [userPc EXCEPT ![u] = "idle"]
  /\ UNCHANGED <<sameLoop, loopVars, serverTasks, writing, output, events, netVars, outVars, ownerVars, unsent>>

\* A callback passes its ConnectionPtr on; the user drops it in the end.
TakeReference(u) ==
  /\ pc = "callback" /\ u \notin holders
  /\ holders' = holders \cup {u}
  /\ UNCHANGED <<sameLoop, loopVars, queueVars, connVars, netVars, outVars, inMap, userPc, unsent>>

DropReference(u) ==
  /\ u \in holders /\ userPc[u] = "idle"
  /\ holders' = holders \ {u}
  /\ UNCHANGED <<sameLoop, loopVars, queueVars, connVars, netVars, outVars, inMap, userPc, unsent>>
-----------------------------------------------------------------------------
(***************************************************************************)
(* The Server's loop, when it is another one, and the peer.                *)
(***************************************************************************)
ServerRemoves ==
  /\ serverTasks > 0
  /\ serverTasks' = serverTasks - 1
  /\ RemoveConnectionInLoop
  /\ UNCHANGED <<sameLoop, loopVars, connVars, netVars, outVars, holders, userPc, unsent>>

PeerSends ==
  /\ peerOpen /\ inbound < MaxInbound
  /\ inbound' = inbound + 1
  /\ UNCHANGED <<sameLoop, loopVars, queueVars, connVars, peerOpen, outVars, ownerVars, userPc, unsent>>

PeerCloses ==
  /\ peerOpen
  /\ peerOpen' = FALSE
  /\ UNCHANGED <<sameLoop, loopVars, queueVars, connVars, inbound, outVars, ownerVars, userPc, unsent>>
-----------------------------------------------------------------------------
LoopStep == \/ PollWait \/ EnterHandler \/ HandleRead \/ HandleWrite \/ EndHandler
            \/ SwapTasks \/ EndTasks \/ StartCompleteTask \/ CompleteConnect
            \/ WriteComplete \/ RunOtherTask \/ EndCallback

UserStep == \/ CallFromCallback \/ CallFromLoopUser
            \/ \E u \in User : \/ SendFromThread(u) \/ SetStateAndQueue(u)
                               \/ TestState(u, "shutdown") \/ TestState(u, "forceClose")
                               \/ TakeReference(u) \/ DropReference(u)

Next == LoopStep \/ UserStep \/ ServerRemoves \/ PeerSends \/ PeerCloses

\* Both loops keep running and callbacks return.  readv does not fail for ever.
\* While the peer reads, the socket becomes writable again and takes some of
\* what is written.
KernelTakesData == /\ PollWait /\ Write \in flags'
ReadProgress == HandleRead /\ <<inbound, queueVars>>' # <<inbound, queueVars>>
WriteProgress == HandleWrite /\ wire' # wire
Fairness == /\ WF_vars(LoopStep) /\ WF_vars(ServerRemoves)
            /\ SF_vars(KernelTakesData) /\ SF_vars(WriteProgress) /\ SF_vars(ReadProgress)

Spec == Init /\ [][Next]_vars
FairSpec == Spec /\ Fairness
-----------------------------------------------------------------------------
(***************************************************************************)
(* Properties.                                                             *)
(***************************************************************************)
Part == Data \X {1, 2}
Task == ({"send"} \X Data) \cup ({"complete", "shutdown", "close", "destroy", "writeComplete"} \X {NoData})

TypeOK ==
  /\ sameLoop \in BOOLEAN /\ writing \in BOOLEAN /\ inMap \in BOOLEAN
  /\ peerOpen \in BOOLEAN /\ fin \in BOOLEAN /\ stray \in BOOLEAN /\ filled \in BOOLEAN
  /\ state \in {"kConnecting", "kConnected", "kDisconnecting", "kDisconnected"}
  /\ output \in Seq(Part) /\ wire \in Seq(Part) /\ accepted \in Seq(Part)
  /\ events \in [{ConnFd} -> [handler : {Handler}, interest : SUBSET {Read, Write}]
                               \cup {NoEntry, NullEntry}]
  /\ flags \subseteq {Read, Write}
  /\ pc \in {"poll", "events", "handler", "callback", "complete", "tasks"}
  /\ pc \in {"poll", "tasks"} => flags = {}
  /\ taskings # <<>> => pc \in {"tasks", "callback", "complete"}
  /\ tasks \in Seq(Task) /\ taskings \in Seq(Task) /\ serverTasks \in Nat
  /\ holders \subseteq User /\ userPc \in [User -> {"idle", "shutdown", "forceClose"}]
  /\ inbound \in 0..MaxInbound
  /\ unsent \subseteq Data

\* The raw pointers of the poll table and of handleEvents lead to a live
\* connection: connectDestroyed is what removes it, in a task that holds a
\* reference, "because destroying it inside the handler would fail"
\* (Connection.h:104-107).
NoDanglingHandler ==
  /\ HasEvent(events, ConnFd) => Alive
  /\ pc \in {"handler", "callback"} => Alive

\* An operation on a descriptor that is not registered reports that it "does
\* not exist" and fails (PollSelect.cpp:69, :84, :101), so the table select
\* walks over holds no null entry.
NoNullEntry == pc = "poll" => NullEntries(events) = {}

\* What write() and outputBuffer_.write took of the messages reaches the socket
\* in that order, once, and what has not reached it waits in the output buffer:
\* neither a refused tail nor bytes from behind the buffer shift the rest.
SentInOrder == wire \o output = accepted

\* The write side is shut down only when everything taken is written.
FinAfterData == fin => wire = accepted

\* A closed peer takes the connection out of the poll table and out of the
\* Server's map, although reads fail in between.
ClosedConnectionRemoved == ~peerOpen ~> ~inMap /\ ~HasEvent(events, ConnFd)

\* writing_ is set, and handleWrite has nothing to write: writing_ was never
\* initialised, or the tail was refused, or a NUL byte is next.
Stalled == writing /\ (output = <<>> \/ output[1] \in NulPart)

\* shutdown() ends in a FIN, after the data before it, unless the peer closes
\* or the output stalls.
ShutdownCompletes == state = "kDisconnecting" ~> fin \/ ~inMap \/ Stalled
=============================================================================
