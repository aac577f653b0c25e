----------------------------- MODULE PollSelect -----------------------------
(***************************************************************************)
(* PollSelect and EventHandler under one Eventloop (reactor/PollSelect.*,  *)
(* EventHandler.*, Eventloop.h): which descriptors select examines, and    *)
(* whose raw EventHandler pointers the loop dispatches.                    *)
(*                                                                         *)
(* The clients are the owners of handlers.  They run on the loop's thread, *)
(* in callbacks and in tasks.  A ClientConnector deletes its descriptor    *)
(* once and gives the socket away.  A Connection of a Server keeps its     *)
(* descriptor until it is destroyed; connectDestroyed may run twice, and a *)
(* send may come after it (Connection.tla).  A Connection of a Client is   *)
(* never unregistered: its entry stays, and the number that ~Connection    *)
(* closes is added again over it.  A Handler value is one object: it is    *)
(* created once and never comes back after its release.                    *)
(***************************************************************************)
EXTENDS FdTable, Integers, FiniteSets

CONSTANTS Fd,             \* descriptor numbers
          Handler,        \* EventHandler objects
          EventType,      \* the events select reports
          TimerHandler, TimerFd,    \* registered by the constructor ...
          WakeupHandler, WakeupFd,  \* ... of Eventloop, with kRead
          Read,           \* kRead
          Owner,          \* the kinds of owners: "connector", "server", "client"
          NoFd, NoHandler,
          Garbage,        \* what maxfd_, which nothing initialises, may hold
          MaxInt          \* the largest int

ASSUME FdAssumption ==
  /\ IsFiniteSet(Fd) /\ Fd \subseteq 0..(MaxInt - 1) /\ NoFd \notin Fd
  /\ MaxInt \in Nat /\ Garbage \subseteq -(MaxInt + 1)..MaxInt
ASSUME ConstructorAssumption ==
  /\ {TimerFd, WakeupFd} \subseteq Fd /\ TimerFd # WakeupFd
  /\ {TimerHandler, WakeupHandler} \subseteq Handler /\ TimerHandler # WakeupHandler
  /\ NoHandler \notin Handler /\ Read \in EventType /\ NoEntry # NullEntry
  /\ Owner \subseteq {"connector", "server", "client"}
ASSUME EntryAssumption ==
  {NoEntry, NullEntry} \cap [handler : Handler, interest : SUBSET EventType] = {}

VARIABLES
  events,    \* events_
  maxfd,     \* maxfd_
  flags,     \* read_, write_, error_ of every handler
  srevents,  \* srevents_, without those handled: <<descriptor, handler>> pairs
  current,   \* the handler inside handleEvents()
  pc,        \* where the loop is: "wait", "events" or "tasks"
  life,      \* whether a handler is not yet created, alive or released
  owner,     \* what owns a handler
  fdOf,      \* the descriptor that the owner has open
  stale      \* history: handlers flagged by a select that failed

pollVars == <<events, maxfd>>
loopVars == <<srevents, current, pc>>
clientVars == <<life, owner, fdOf>>
vars == <<pollVars, flags, stale, loopVars, clientVars>>

Larger(a, b) == IF a > b THEN a ELSE b

\* Eventloop's constructor has run.
Init ==
  /\ events = [fd \in Fd |-> IF fd \in {TimerFd, WakeupFd}
                               THEN [handler |-> IF fd = TimerFd THEN TimerHandler ELSE WakeupHandler,
                                     interest |-> {Read}]
                               ELSE NoEntry]
  /\ \E g \in Garbage : maxfd = Larger(Larger(g, TimerFd), WakeupFd)
  /\ flags = [h \in Handler |-> {}] /\ stale = {}
  /\ srevents = {} /\ current = NoHandler /\ pc = "wait"
  /\ life = [h \in Handler |-> IF h \in {TimerHandler, WakeupHandler} THEN "alive" ELSE "unborn"]
  /\ owner = [h \in Handler |-> "loop"]
  /\ fdOf = [h \in Handler |-> CASE h = TimerHandler -> TimerFd
                                 [] h = WakeupHandler -> WakeupFd
                                 [] OTHER -> NoFd]
-----------------------------------------------------------------------------
(***************************************************************************)
(* Eventloop::addFd, setEvent, deleteEvent, deleteAllEvent and deleteFd.   *)
(***************************************************************************)
AddFd(fd, h, type) ==
  /\ events' = AfterSetEvent(AfterAddFd(events, fd, h), fd, type)
  /\ maxfd' = Larger(fd, maxfd)

SetInterest(table) == events' = table /\ UNCHANGED maxfd

\* Faulty: maxfd_ steps down whichever descriptor goes.
DeleteFdAlwaysStepsDown(fd) ==
  /\ events' = AfterDeleteFd(events, fd)
  /\ maxfd' = IF HasEvent(events, fd) THEN maxfd - 1 ELSE maxfd

\* Faulty: the entry stays.
DeleteFdKeepEntry(fd) ==
  /\ maxfd' = IF HasEvent(events, fd) /\ maxfd = fd THEN maxfd - 1 ELSE maxfd
  /\ UNCHANGED events

DeleteFd(fd) ==
  /\ events' = AfterDeleteFd(events, fd)
  /\ maxfd' = IF HasEvent(events, fd) /\ maxfd = fd THEN maxfd - 1 ELSE maxfd
-----------------------------------------------------------------------------
(***************************************************************************)
(* The owners of handlers.                                                 *)
(***************************************************************************)
InClientCode == current # NoHandler \/ pc = "tasks"

\* The loop's own two handlers stay as the constructor registered them.
Clients == Handler \ {TimerHandler, WakeupHandler}

\* completeConnect and ClientConnector::connecting.  The number is no other
\* owner's, but the table may have an entry for it, which is replaced.
Register(h, fd, type) ==
  /\ InClientCode /\ life[h] = "unborn"
  /\ \A g \in Handler : fdOf[g] # fd
  /\ AddFd(fd, h, type)
  /\ life' = [life EXCEPT ![h] = "alive"]
  /\ \E kind \in Owner : owner' = [owner EXCEPT ![h] = kind]
  /\ fdOf' = [fdOf EXCEPT ![h] = fd]
  /\ UNCHANGED <<flags, stale, loopVars>>

\* Also a send or a handleClose after connectDestroyed.
ChangeEvents(h, table) ==
  /\ InClientCode /\ fdOf[h] # NoFd
  /\ SetInterest(table)
  /\ UNCHANGED <<flags, stale, loopVars, clientVars>>

EnableEvent(h, type)  == ChangeEvents(h, AfterSetEvent(events, fdOf[h], type))
DisableEvent(h, type) == ChangeEvents(h, AfterDeleteEvent(events, fdOf[h], type))
DisableAll(h)         == ChangeEvents(h, AfterDeleteAllEvent(events, fdOf[h]))

\* removeAndResetChannel, after which the socket is handed over or closed, and
\* connectDestroyed, whether or not it has run before.
Unregister(h) ==
  /\ InClientCode /\ owner[h] \in {"connector", "server"} /\ fdOf[h] # NoFd
  /\ DeleteFd(fdOf[h])
  /\ fdOf' = [fdOf EXCEPT ![h] = IF owner[h] = "connector" THEN NoFd ELSE @]
  /\ UNCHANGED <<flags, stale, loopVars, life, owner>>

\* The owner is over: the connector has handed its socket over, the Server's
\* connection is destroyed, the Client's has run handleClose.
Over(h) ==
  /\ life[h] = "alive"
  /\ \/ owner[h] = "connector" /\ fdOf[h] = NoFd
     \/ owner[h] = "server" /\ ~HasEvent(events, fdOf[h])
     \/ owner[h] = "client" /\ Interest(events, fdOf[h]) = {}

Released(h) ==
  /\ life' = [life EXCEPT ![h] = "released"]
  /\ fdOf' = [fdOf EXCEPT ![h] = NoFd]
  /\ UNCHANGED <<pollVars, flags, stale, loopVars, owner>>

\* Faulty: the handler goes as soon as its owner is over.
ReleaseAnywhere(h) == InClientCode /\ Over(h) /\ Released(h)

\* The task that drops the last reference to the owner, and resetChannel: the
\* rule of Connection.h:104-107.
Release(h) == pc = "tasks" /\ Over(h) /\ Released(h)
-----------------------------------------------------------------------------
(***************************************************************************)
(* One iteration of the loop.                                              *)
(***************************************************************************)
\* The descriptors of which select examines the interest that was asked for.
Examined == {p \in Fd \X EventType : p[2] \in Interest(events, p[1]) /\ p[1] <= maxfd}

\* Which handlers wait() flags, and with what, from the sets select leaves.
Flagged(R) == [h \in Handler |-> flags[h] \cup {p[2] : p \in {q \in R : events[q[1]].handler = h}}]

\* wait() follows every entry, so there must be no null one; nfds, which is
\* maxfd_ + 1, must not overflow.  select counts ready descriptors, or none
\* after the timeout.
WaitSucceeds ==
  /\ pc = "wait" /\ maxfd < MaxInt /\ NullEntries(events) = {}
  /\ \E R \in SUBSET Examined :
       /\ flags' = Flagged(R)
       /\ srevents' = {<<p[1], events[p[1]].handler>> : p \in R}
       /\ pc' = IF R = {} THEN "tasks" ELSE "events"
  /\ UNCHANGED <<pollVars, stale, current, clientVars>>

\* select fails (a signal, a bad nfds) and leaves the sets as they were: every
\* interest looks ready.  loop() ignores the list; the flags remain.
WaitFails ==
  /\ pc = "wait" /\ NullEntries(events) = {}
  /\ flags' = Flagged({p \in Fd \X EventType : p[2] \in Interest(events, p[1])})
  /\ stale' = stale \cup {h \in Handler : fdOf[h] # NoFd}
  /\ pc' = "tasks"
  /\ UNCHANGED <<pollVars, srevents, current, clientVars>>

\* The loop walks srevents_, which is in the order of the descriptors.
HandleEvents ==
  /\ pc = "events" /\ current = NoHandler
  /\ \E p \in srevents : /\ \A q \in srevents : p[1] <= q[1]
                         /\ current' = p[2]
                         /\ srevents' = srevents \ {p}
  /\ UNCHANGED <<pollVars, flags, stale, pc, clientVars>>

\* Faulty: the flags stay.
KeepEvent ==
  /\ current # NoHandler
  /\ stale' = stale \ {current}
  /\ current' = NoHandler
  /\ UNCHANGED <<pollVars, flags, srevents, pc, clientVars>>

\* The callbacks have returned; the handler clears its flags.
ClearEvent ==
  /\ current # NoHandler
  /\ flags' = [flags EXCEPT ![current] = {}]
  /\ stale' = stale \ {current}
  /\ current' = NoHandler
  /\ UNCHANGED <<pollVars, srevents, pc, clientVars>>

RunTasks == /\ pc = "events" /\ srevents = {} /\ current = NoHandler
            /\ pc' = "tasks"
            /\ UNCHANGED <<pollVars, flags, stale, srevents, current, clientVars>>

EndIteration == /\ pc = "tasks"
                /\ pc' = "wait"
                /\ UNCHANGED <<pollVars, flags, stale, srevents, current, clientVars>>
-----------------------------------------------------------------------------
ClientStep == \E h \in Clients :
                \/ \E fd \in Fd, type \in EventType : Register(h, fd, type)
                \/ \E type \in EventType : EnableEvent(h, type) \/ DisableEvent(h, type)
                \/ DisableAll(h) \/ Unregister(h) \/ Release(h)

Next == \/ WaitSucceeds \/ WaitFails \/ HandleEvents \/ ClearEvent \/ RunTasks \/ EndIteration
        \/ ClientStep

Spec == Init /\ [][Next]_vars
-----------------------------------------------------------------------------
(***************************************************************************)
(* Properties.                                                             *)
(***************************************************************************)
TypeOK ==
  /\ events \in [Fd -> [handler : Handler, interest : SUBSET EventType] \cup {NoEntry, NullEntry}]
  /\ maxfd \in Int
  /\ flags \in [Handler -> SUBSET EventType] /\ stale \subseteq Handler
  /\ srevents \subseteq Fd \X Handler
  /\ current \in Handler \cup {NoHandler}
  /\ pc \in {"wait", "events", "tasks"}
  /\ pc # "events" => srevents = {} /\ current = NoHandler
  /\ life \in [Handler -> {"unborn", "alive", "released"}]
  /\ owner \in [Handler -> Owner \cup {"loop"}]
  /\ fdOf \in [Handler -> Fd \cup {NoFd}]

\* What the destroyed connection of a Client leaves in the table.
LeftBehind(fd) == LET h == events[fd].handler
                  IN owner[h] = "client" /\ life[h] = "released" /\ Interest(events, fd) = {}

\* The table and its clients agree: an entry belongs to the owner that has the
\* descriptor open, or is one left behind that asks for no event; and every
\* owner that has not called deleteFd has its entry, under numbers used again.
TableMatchesClients ==
  /\ \A fd \in Registered(events) : fdOf[events[fd].handler] = fd \/ LeftBehind(fd)
  /\ \A h \in Handler : fdOf[h] # NoFd =>
       IF HasEvent(events, fdOf[h]) THEN events[fdOf[h]].handler = h ELSE owner[h] = "server"

\* Every raw pointer that the loop will follow, in an entry of events_ that
\* asks for an event, in what is left of srevents_, or in the handler it is
\* inside of, leads to a live handler.
NoDanglingHandler ==
  /\ \A fd \in Fd : Interest(events, fd) # {} => life[events[fd].handler] = "alive"
  /\ \A p \in srevents : life[p[2]] = "alive"
  /\ current # NoHandler => life[current] = "alive"

\* select examines every registered descriptor: the stepwise maxfd_ never
\* falls below one, in whatever order descriptors come and go.
MaxFdCovers == \A fd \in Registered(events) : fd <= maxfd

\* A callback runs only for an event that the current wait reported, or that
\* a failed select pretended: flags do not outlive the handling of a report.
FlagsFollowReports ==
  \A h \in Handler : flags[h] # {} => \/ h = current
                                      \/ \E p \in srevents : p[2] = h
                                      \/ h \in stale
=============================================================================
