--------------------------- MODULE ClientConnector --------------------------
(***************************************************************************)
(* One ClientConnector (reactor/ClientConnector.h, ClientConnector.cpp):   *)
(* the attempts to connect, the retry timer, and start() and stop() called *)
(* on its loop or by other threads.  Client composes it with the Client it *)
(* belongs to, which says what becomes of the sockets it hands over.       *)
(*                                                                         *)
(* The loop is reduced to its phases; tasks holds the queued calls in      *)
(* order, each with the descriptor of the connection it is for, or NoFd,   *)
(* and batch of them belong to the current runTasks.  connect_ is read and *)
(* written without a lock, so a function of the connector that reads it    *)
(* twice takes several steps (inside).                                     *)
(*                                                                         *)
(* Callers keep one rule, which nothing in the code enforces: an attempt   *)
(* is started only when nothing is left of the one before (Quiet).         *)
(***************************************************************************)
EXTENDS FdTable, Naturals, Sequences

CONSTANTS Fd,            \* descriptor numbers, used again after close
          NoFd,
          Handler,       \* addresses of EventHandler objects
          NoHandler,
          Threads,       \* threads other than the loop's
          InitRetryDelay, MaxRetryDelay,
          MaxTasks       \* bound on the calls queued at a time

ASSUME FdAssumption == NoFd \notin Fd /\ NoHandler \notin Handler
ASSUME DelayAssumption == /\ InitRetryDelay \in Nat \ {0} /\ MaxRetryDelay \in Nat
                          /\ InitRetryDelay <= MaxRetryDelay
ASSUME EntryAssumption ==
  /\ NoEntry # NullEntry
  /\ {NoEntry, NullEntry} \cap [handler : Handler, interest : SUBSET {"kWrite"}] = {}

VARIABLES
  connect,   \* connect_
  state,     \* state_
  sockfd,    \* sockfd_
  handler,   \* the object handler_ owns: the only EventHandler alive
  delay,     \* retryDelayMs_
  timers,    \* retry timers that have not fired
  due,       \* those of them that the loop handles in this iteration
  events,    \* the connector's part of the poll table
  open,      \* descriptors that connect() has opened and nobody has closed
  handed,    \* descriptors of the Connections made of those handed over
  pc,        \* where the loop is: "poll", "events" or "tasks"
  inside,    \* which function of the connector it is in, before a read of connect_
  reported,  \* the handler select has reported, not yet called
  tasks,     \* queued calls
  batch,     \* how many of them this runTasks still executes
  userPc,    \* the call each thread is inside of
  gaveUp     \* history: the last attempt failed for a reason that is not retried

memberVars == <<connect, state, sockfd, handler, delay>>
socketVars == <<events, open, handed>>
loopVars == <<pc, inside, reported, due>>
queueVars == <<tasks, batch>>
vars == <<memberVars, timers, socketVars, loopVars, queueVars, userPc, gaveUp>>

Init ==
  /\ connect = FALSE /\ state = "kDisconnected" /\ sockfd = NoFd
  /\ handler = NoHandler /\ delay = InitRetryDelay /\ timers = 0
  /\ events = [fd \in Fd |-> NoEntry] /\ open = {} /\ handed = {}
  /\ pc = "poll" /\ inside = "none" /\ reported = NoHandler /\ due = 0
  /\ tasks = <<>> /\ batch = 0
  /\ userPc = [u \in Threads |-> "idle"] /\ gaveUp = FALSE

Call(op) == <<op, NoFd>>
-----------------------------------------------------------------------------
(***************************************************************************)
(* Connecting.                                                             *)
(***************************************************************************)
\* startInLoop: connect() follows if connect_ is set.
StartInLoop(set) == inside' = IF set THEN "connect" ELSE "none"

\* socket() and connect(2) give EINPROGRESS, and connecting() registers a new
\* handler; the one handler_ owned is deleted.
Connecting ==
  /\ inside = "connect" /\ inside' = "none"
  /\ \E fd \in Fd \ (open \cup handed), h \in Handler \ {handler} :
       /\ sockfd' = fd /\ open' = open \cup {fd}
       /\ handler' = h
       /\ events' = AfterSetEvent(AfterAddFd(events, fd, h), fd, "kWrite")
  /\ state' = "kConnecting"
  /\ UNCHANGED <<connect, delay, timers, handed, pc, reported, due, queueVars, userPc, gaveUp>>

\* ECONNREFUSED and the like: retry() closes the socket ...
ConnectFails ==
  /\ inside = "connect" /\ inside' = "retry"
  /\ sockfd' \in Fd \ (open \cup handed)
  /\ state' = "kDisconnected"
  /\ UNCHANGED <<connect, handler, delay, timers, socketVars, pc, reported, due, queueVars, userPc, gaveUp>>

\* ... and any other error ends the matter; state_ stays as it was.
ConnectGivesUp ==
  /\ inside = "connect" /\ inside' = "none"
  /\ sockfd' \in Fd \ (open \cup handed)
  /\ gaveUp' = TRUE
  /\ UNCHANGED <<connect, state, handler, delay, timers, socketVars, pc, reported, due, queueVars, userPc>>

\* Faulty: at the maximal delay the connector stops trying.
RetryUpToMax ==
  /\ inside = "retry" /\ inside' = "none"
  /\ IF connect /\ 2 * delay <= MaxRetryDelay THEN timers' = timers + 1 /\ delay' = 2 * delay
                                              ELSE UNCHANGED <<timers, delay>>
  /\ UNCHANGED <<connect, state, sockfd, handler, socketVars, pc, reported, due, queueVars, userPc, gaveUp>>

\* The rest of retry(), after it closed the socket and set kDisconnected.
Retry ==
  /\ inside = "retry" /\ inside' = "none"
  /\ IF connect
       THEN /\ timers' = timers + 1
            /\ delay' = IF 2 * delay < MaxRetryDelay THEN 2 * delay ELSE MaxRetryDelay
       ELSE UNCHANGED <<timers, delay>>
  /\ UNCHANGED <<connect, state, sockfd, handler, socketVars, pc, reported, due, queueVars, userPc, gaveUp>>

\* Faulty: handler_ is reset on the spot, not by a task.
RemoveAndResetAtOnce(rest) ==
  /\ events' = AfterDeleteFd(events, sockfd)
  /\ handler' = NoHandler
  /\ tasks' = rest

\* The queue being rest: resetChannel, a task, deletes the handler later.
RemoveAndResetChannel(rest) ==
  /\ events' = AfterDeleteFd(events, sockfd)
  /\ tasks' = Append(rest, Call("resetChannel"))
  /\ UNCHANGED handler

\* handleWrite: SO_ERROR decides between retry() and a connection.
HandleWrite ==
  /\ pc = "events" /\ inside = "none" /\ reported # NoHandler
  /\ IF state = "kConnecting"
       THEN /\ RemoveAndResetChannel(tasks)
            /\ \/ state' = "kDisconnected" /\ open' = open \ {sockfd} /\ inside' = "retry"
               \/ state' = "kConnected" /\ inside' = "connected" /\ UNCHANGED open
            /\ UNCHANGED reported
       ELSE /\ reported' = NoHandler
            /\ UNCHANGED <<state, events, open, handler, inside, tasks>>
  /\ UNCHANGED <<connect, sockfd, delay, timers, handed, pc, due, batch, userPc, gaveUp>>

\* Faulty: a socket that nobody wants any more is left open.
HandOverOrForget ==
  /\ inside = "connected" /\ inside' = "none"
  /\ open' = IF connect THEN open \ {sockfd} ELSE open
  /\ reported' = NoHandler
  /\ UNCHANGED <<memberVars, timers, events, pc, due, queueVars, userPc, gaveUp>>

\* The rest of handleWrite: newConnectionCallback_, whose effect is Client's
\* (handed'), or close.
HandOver ==
  /\ inside = "connected" /\ inside' = "none"
  /\ open' = open \ {sockfd}
  /\ reported' = NoHandler
  /\ UNCHANGED <<memberVars, timers, events, pc, due, queueVars, userPc, gaveUp>>

\* Faulty: the attempt goes on.
StopInLoopLate(rest) == tasks' = rest /\ UNCHANGED <<state, open, events, handler>>

StopInLoop(rest) ==
  IF state = "kConnecting"
    THEN /\ state' = "kDisconnected"
         /\ RemoveAndResetChannel(rest)
         /\ open' = open \ {sockfd}
    ELSE tasks' = rest /\ UNCHANGED <<state, open, events, handler>>
-----------------------------------------------------------------------------
(***************************************************************************)
(* The loop.                                                               *)
(***************************************************************************)
Outside == inside = "none"

\* select reports the writable socket, or not, and the expired timers.  A
\* retry timer that is set in this iteration is not among them: it waits half
\* a second at least, and the older timerfd is handled before the socket.
Poll ==
  /\ pc = "poll" /\ pc' = "events"
  /\ due' \in 0..timers
  /\ reported' \in {NoHandler} \cup {events[fd].handler : fd \in {f \in Fd : Interest(events, f) # {}}}
  /\ UNCHANGED <<memberVars, timers, socketVars, inside, queueVars, userPc, gaveUp>>

RetryTimer ==
  /\ pc = "events" /\ Outside /\ due > 0
  /\ timers' = timers - 1 /\ due' = due - 1
  /\ StartInLoop(connect)
  /\ UNCHANGED <<memberVars, socketVars, pc, reported, queueVars, userPc, gaveUp>>

RunTasks ==
  /\ pc = "events" /\ Outside /\ reported = NoHandler /\ due = 0
  /\ pc' = "tasks" /\ batch' = Len(tasks)
  /\ UNCHANGED <<memberVars, timers, socketVars, inside, reported, due, tasks, userPc, gaveUp>>

RunTask ==
  /\ pc = "tasks" /\ Outside /\ batch > 0
  /\ batch' = batch - 1
  /\ \/ /\ Head(tasks) = Call("startInLoop") /\ tasks' = Tail(tasks)
        /\ StartInLoop(connect)
        /\ UNCHANGED <<state, open, events, handler>>
     \/ /\ Head(tasks) = Call("stopInLoop") /\ StopInLoop(Tail(tasks))
        /\ UNCHANGED inside
     \/ /\ Head(tasks) = Call("resetChannel") /\ tasks' = Tail(tasks)
        /\ handler' = NoHandler
        /\ UNCHANGED <<state, open, events, inside>>
  /\ UNCHANGED <<connect, sockfd, delay, timers, handed, pc, reported, due, userPc, gaveUp>>

EndTasks ==
  /\ pc = "tasks" /\ Outside /\ batch = 0
  /\ pc' = "poll"
  /\ UNCHANGED <<memberVars, timers, socketVars, inside, reported, due, queueVars, userPc, gaveUp>>
-----------------------------------------------------------------------------
(***************************************************************************)
(* The callers.                                                            *)
(***************************************************************************)
\* Nothing is left of an earlier attempt, and nobody else is calling.
Quiet == /\ state # "kConnecting" /\ handler = NoHandler /\ timers = 0
         /\ tasks = <<>> /\ Outside /\ \A u \in Threads : userPc[u] = "idle"

InCallback == pc \in {"events", "tasks"} /\ Outside

Start == /\ InCallback /\ Quiet
         /\ connect' = TRUE /\ gaveUp' = FALSE
         /\ StartInLoop(TRUE)
         /\ UNCHANGED <<state, sockfd, handler, delay, timers, socketVars, pc, reported, due, queueVars, userPc>>

Stop == /\ InCallback /\ Len(tasks) < MaxTasks
        /\ connect' = FALSE
        /\ tasks' = Append(tasks, Call("stopInLoop"))
        /\ UNCHANGED <<state, sockfd, handler, delay, timers, socketVars, loopVars, batch, userPc, gaveUp>>

\* A thread assigns connect_, and then queues the call.
StartFromThread(u) ==
  /\ Quiet
  /\ connect' = TRUE /\ gaveUp' = FALSE
  /\ userPc' = [userPc EXCEPT ![u] = "startInLoop"]
  /\ UNCHANGED <<state, sockfd, handler, delay, timers, socketVars, loopVars, queueVars>>

StopFromThread(u) ==
  /\ userPc[u] = "idle" /\ Len(tasks) < MaxTasks
  /\ connect' = FALSE
  /\ userPc' = [userPc EXCEPT ![u] = "stopInLoop"]
  /\ UNCHANGED <<state, sockfd, handler, delay, timers, socketVars, loopVars, queueVars, gaveUp>>

QueueCall(u) ==
  /\ userPc[u] # "idle"
  /\ tasks' = Append(tasks, Call(userPc[u]))
  /\ userPc' = [userPc EXCEPT ![u] = "idle"]
  /\ UNCHANGED <<memberVars, timers, socketVars, loopVars, batch, gaveUp>>
-----------------------------------------------------------------------------
(***************************************************************************)
(* Properties.                                                             *)
(***************************************************************************)
CallName == {"startInLoop", "stopInLoop", "resetChannel"}

ConnectorTypeOK ==
  /\ connect \in BOOLEAN /\ gaveUp \in BOOLEAN
  /\ state \in {"kDisconnected", "kConnecting", "kConnected"}
  /\ sockfd \in Fd \cup {NoFd} /\ open \subseteq Fd /\ handed \subseteq Fd
  /\ handler \in Handler \cup {NoHandler} /\ reported \in Handler \cup {NoHandler}
  /\ delay \in InitRetryDelay..MaxRetryDelay /\ timers \in Nat /\ due \in 0..timers
  /\ events \in [Fd -> [handler : Handler, interest : {{"kWrite"}}] \cup {NoEntry, NullEntry}]
  /\ pc \in {"poll", "events", "tasks"}
  /\ inside \in {"none", "connect", "retry", "connected"}
  /\ batch \in 0..Len(tasks)
  /\ userPc \in [Threads -> CallName \cup {"idle"}]

\* The raw pointers in the poll table and the one that select has reported
\* lead to the handler that handler_ still owns, also while it is running:
\* it is deleted by a task, after its descriptor (removeAndResetChannel).
NoDanglingHandler ==
  /\ \A fd \in Registered(events) : events[fd].handler = handler
  /\ reported # NoHandler => reported = handler

\* A socket that connect() opened is polled while it is connecting, and then
\* closed or handed over, once: sockfd_ never names a socket closed before
\* when it is closed, and no socket is left open or in the poll table.
OneSocketAtATime ==
  /\ open = IF state = "kConnecting" \/ inside = "connected" THEN {sockfd} ELSE {}
  /\ Registered(events) = IF state = "kConnecting" THEN {sockfd} ELSE {}
  /\ NullEntries(events) = {} /\ open \cap handed = {}

\* While a connection is wanted and the attempt has not failed for good,
\* there is one, or something is under way that will try again: a socket in
\* the poll table, a retry timer, or a call on its way to the loop.
AttemptNotForgotten ==
  connect /\ ~gaveUp =>
    \/ state \in {"kConnecting", "kConnected"} \/ timers > 0 \/ inside # "none"
    \/ \E i \in 1..Len(tasks) : tasks[i] = Call("startInLoop")
    \/ \E u \in Threads : userPc[u] = "startInLoop"

\* After stop() no socket, no handler and no timer stay behind, unless
\* another start() follows.
StopTakesEffect == ~connect ~> connect \/ (open = {} /\ handler = NoHandler /\ timers = 0)
=============================================================================
