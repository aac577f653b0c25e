--------------------------- MODULE PollSelectProofs -------------------------
(***************************************************************************)
(* Theorems about PollSelect, for any descriptors, handlers and any value  *)
(* that the uninitialised maxfd_ may hold.                                 *)
(***************************************************************************)
EXTENDS PollSelect, TLAPS

USE FdAssumption, ConstructorAssumption, EntryAssumption
    DEF FdAssumption, ConstructorAssumption, EntryAssumption

\* The facts about the table that the steps need, for one descriptor changed.
LEMMA TableAfterAdd ==
  ASSUME TypeOK, NEW fd \in Fd, NEW h \in Handler, NEW type \in EventType
  PROVE  AfterSetEvent(AfterAddFd(events, fd, h), fd, type)
           = [events EXCEPT ![fd] = [handler |-> h, interest |-> {type}]]
<1> DEFINE e == FdEvent(h)
           added == AfterAddFd(events, fd, h)
<1>1. e \in [handler : Handler, interest : SUBSET EventType] /\ e.interest = {} /\ e.handler = h
  BY DEF FdEvent
<1>2. added = [events EXCEPT ![fd] = e] /\ added[fd] = e
  BY DEF AfterAddFd, TypeOK
<1> HIDE DEF e, added
<1>3. HasEvent(added, fd) /\ Interest(added, fd) = {}
  BY <1>1, <1>2 DEF HasEvent, Interest
<1>4. AfterSetEvent(added, fd, type)
        = [added EXCEPT ![fd] = [handler |-> h, interest |-> {type}]]
  BY <1>1, <1>2, <1>3 DEF AfterSetEvent, WithInterest
<1> QED
  BY <1>2, <1>4 DEF added, TypeOK

LEMMA TableAfterInterest ==
  ASSUME TypeOK, NEW fd \in Fd, HasEvent(events, fd), NEW S \in SUBSET EventType
  PROVE  WithInterest(events, fd, S)
           = [events EXCEPT ![fd] = [handler |-> events[fd].handler, interest |-> S]]
BY DEF WithInterest, HasEvent, TypeOK

-----------------------------------------------------------------------------
\* The owner of an open descriptor has not released its handler.
ClientsAlive == \A h \in Handler : fdOf[h] # NoFd => life[h] = "alive"

\* A number is open in one owner at a time.
OneOwner == \A g, h \in Handler : fdOf[g] # NoFd /\ fdOf[g] = fdOf[h] => g = h

PollInv == TypeOK /\ TableMatchesClients /\ ClientsAlive /\ OneOwner /\ NoDanglingHandler /\ MaxFdCovers

\* An entry that asks for an event is not one left behind: its owner is alive.
LEMMA InterestAlive ==
  ASSUME TypeOK, TableMatchesClients, ClientsAlive, NEW fd \in Fd, Interest(events, fd) # {}
  PROVE  events[fd].handler \in Handler /\ fdOf[events[fd].handler] = fd /\ life[events[fd].handler] = "alive"
<1>1. HasEvent(events, fd) /\ fd \in Registered(events)
  BY DEF Interest, Registered, TypeOK
<1>2. events[fd].handler \in Handler
  BY <1>1 DEF HasEvent, TypeOK
<1>3. fdOf[events[fd].handler] = fd
  BY <1>1 DEF TableMatchesClients, LeftBehind
<1> QED
  BY <1>2, <1>3, FdAssumption DEF ClientsAlive

LEMMA InterestAliveNext ==
  ASSUME TypeOK', TableMatchesClients', ClientsAlive'
  PROVE  \A fd \in Fd : Interest(events', fd) # {} => life'[events'[fd].handler] = "alive"
<1> SUFFICES ASSUME NEW fd \in Fd, Interest(events', fd) # {}
             PROVE  life'[events'[fd].handler] = "alive"
  OBVIOUS
<1>1. HasEvent(events', fd) /\ fd \in Registered(events')
  BY DEF Interest, Registered, TypeOK
<1>2. events'[fd].handler \in Handler
  BY <1>1 DEF HasEvent, TypeOK
<1>3. fdOf'[events'[fd].handler] = fd
  BY <1>1 DEF TableMatchesClients, LeftBehind
<1> QED
  BY <1>2, <1>3, FdAssumption DEF ClientsAlive

LEMMA PollInit == Init => PollInv
<1> SUFFICES ASSUME Init PROVE PollInv
  OBVIOUS
<1> DEFINE e(fd) == [handler |-> IF fd = TimerFd THEN TimerHandler ELSE WakeupHandler,
                     interest |-> {Read}]
<1>1. \A fd \in Fd : events[fd] = IF fd \in {TimerFd, WakeupFd} THEN e(fd) ELSE NoEntry
  BY DEF Init
<1>2. \A fd \in {TimerFd, WakeupFd} :
         /\ e(fd) \in [handler : Handler, interest : SUBSET EventType]
         /\ e(fd).handler = IF fd = TimerFd THEN TimerHandler ELSE WakeupHandler
  OBVIOUS
<1> HIDE DEF e
<1>3. /\ \A fd \in {TimerFd, WakeupFd} :
            /\ events[fd] \in [handler : Handler, interest : SUBSET EventType]
            /\ events[fd].handler = IF fd = TimerFd THEN TimerHandler ELSE WakeupHandler
            /\ HasEvent(events, fd) /\ events[fd] # NullEntry
      /\ \A fd \in Fd \ {TimerFd, WakeupFd} : ~HasEvent(events, fd) /\ events[fd] # NullEntry
  BY <1>1, <1>2 DEF HasEvent
<1>4. events \in [Fd -> [handler : Handler, interest : SUBSET EventType] \cup {NoEntry, NullEntry}]
  BY <1>1, <1>3 DEF Init
<1>5. maxfd \in Int /\ TimerFd <= maxfd /\ WakeupFd <= maxfd
  BY DEF Init, Larger
<1>6. TypeOK
  BY <1>4, <1>5 DEF Init, TypeOK
<1>7. /\ fdOf[TimerHandler] = TimerFd /\ fdOf[WakeupHandler] = WakeupFd
      /\ \A h \in Clients : fdOf[h] = NoFd
  BY DEF Init, Clients
<1>8. TableMatchesClients
  BY <1>3, <1>7, <1>4 DEF TableMatchesClients, Registered, Clients
<1>8a. life[TimerHandler] = "alive" /\ life[WakeupHandler] = "alive"
  BY DEF Init
<1>9. ClientsAlive /\ OneOwner
  BY <1>7, <1>8a DEF ClientsAlive, OneOwner, Clients
<1>10. NoDanglingHandler
  BY <1>6, <1>8, <1>9, InterestAlive DEF Init, NoDanglingHandler
<1>11. MaxFdCovers
  BY <1>3, <1>4, <1>5 DEF MaxFdCovers, Registered
<1> QED
  BY <1>6, <1>8, <1>9, <1>10, <1>11 DEF PollInv

LEMMA RegisterStep ==
  ASSUME PollInv, NEW h \in Clients, NEW fd \in Fd, NEW type \in EventType, Register(h, fd, type)
  PROVE  PollInv'
<1> DEFINE e == [handler |-> h, interest |-> {type}]
<1>1. h \in Handler /\ TypeOK
  BY DEF Clients, PollInv
<1>2. events' = [events EXCEPT ![fd] = e]
  BY <1>1, TableAfterAdd DEF Register, AddFd
<1>3. e \in [handler : Handler, interest : SUBSET EventType] /\ e.handler = h
  BY <1>1
<1> HIDE DEF e
<1>4. events'[fd] = e /\ \A g \in Fd \ {fd} : events'[g] = events[g]
  BY <1>1, <1>2 DEF TypeOK
<1>5. TypeOK'
  BY <1>1, <1>2, <1>3 DEF TypeOK, Register, AddFd, Larger, loopVars
<1>6. DOMAIN events = Fd /\ DOMAIN events' = Fd
  BY <1>1, <1>5 DEF TypeOK
<1>7. fdOf[h] = NoFd /\ life[h] = "unborn"
  BY <1>1 DEF PollInv, ClientsAlive, Register
<1>8. /\ \A g \in Handler \ {h} : /\ fdOf'[g] = fdOf[g] /\ fdOf[g] # fd
                                  /\ life'[g] = life[g] /\ owner'[g] = owner[g]
      /\ fdOf'[h] = fd /\ life'[h] = "alive"
  BY <1>1 DEF TypeOK, Register
<1>9. \A g \in Fd : HasEvent(events, g) => events[g].handler \in Handler
  BY <1>1 DEF TypeOK, HasEvent
<1>10. TableMatchesClients'
  <2>1. HasEvent(events', fd) /\ \A g \in Fd \ {fd} : HasEvent(events', g) <=> HasEvent(events, g)
    BY <1>3, <1>4 DEF HasEvent
  <2>2. ASSUME NEW g \in Fd, HasEvent(events', g)
        PROVE  fdOf'[events'[g].handler] = g \/ LeftBehind(g)'
    <3>1. CASE g = fd
      BY <3>1, <1>3, <1>4, <1>8
    <3>2. CASE g # fd
      <4> DEFINE k == events[g].handler
      <4>1. k \in Handler /\ HasEvent(events, g) /\ events'[g] = events[g] /\ g \in Registered(events)
        BY <3>2, <2>1, <2>2, <1>4, <1>6, <1>9 DEF Registered
      <4>2. fdOf[k] = g \/ LeftBehind(g)
        BY <4>1 DEF PollInv, TableMatchesClients
      <4>3. k # h
        BY <4>1, <4>2, <1>7, FdAssumption DEF LeftBehind
      <4>4. Interest(events', g) = Interest(events, g)
        BY <4>1, <2>1, <3>2 DEF Interest
      <4> QED
        BY <4>1, <4>2, <4>3, <4>4, <1>8 DEF LeftBehind
    <3> QED
      BY <3>1, <3>2
  <2>3. ASSUME NEW g \in Handler, fdOf'[g] # NoFd
        PROVE  IF HasEvent(events', fdOf'[g]) THEN events'[fdOf'[g]].handler = g ELSE owner'[g] = "server"
    <3>1. CASE g = h
      BY <3>1, <2>1, <1>3, <1>4, <1>8
    <3>2. CASE g # h
      <4>1. fdOf'[g] = fdOf[g] /\ fdOf[g] # fd /\ fdOf[g] \in Fd /\ owner'[g] = owner[g]
        BY <3>2, <2>3, <1>1, <1>8 DEF TypeOK
      <4> QED
        BY <4>1, <2>1, <2>3, <1>4 DEF PollInv, TableMatchesClients
    <3> QED
      BY <3>1, <3>2
  <2> QED
    BY <2>2, <2>3, <1>6 DEF TableMatchesClients, Registered
<1>11. ClientsAlive' /\ OneOwner'
  BY <1>8 DEF PollInv, ClientsAlive, OneOwner
<1>12. NoDanglingHandler'
  <2>1. \A g \in Fd : Interest(events', g) # {} => life'[events'[g].handler] = "alive"
    BY <1>5, <1>10, <1>11, InterestAliveNext
  <2>2. \A p \in srevents' : life'[p[2]] = "alive"
    BY <1>1, <1>7, <1>8 DEF PollInv, NoDanglingHandler, Register, loopVars, TypeOK
  <2>3. current' # NoHandler => life'[current'] = "alive"
    BY <1>1, <1>7, <1>8 DEF PollInv, NoDanglingHandler, Register, loopVars, TypeOK
  <2> QED
    BY <2>1, <2>2, <2>3 DEF NoDanglingHandler
<1>13. MaxFdCovers'
  <2>1. ASSUME NEW g \in Registered(events') PROVE g \in Fd /\ (g # fd => g <= maxfd)
    BY <2>1, <1>4, <1>6 DEF PollInv, MaxFdCovers, Registered, HasEvent
  <2>2. maxfd' = (IF fd > maxfd THEN fd ELSE maxfd) /\ maxfd \in Int /\ Fd \subseteq Int
    BY <1>1 DEF Register, AddFd, Larger, TypeOK
  <2>3. ASSUME NEW g \in Registered(events') PROVE g <= maxfd'
    <3>1. g \in Int /\ fd \in Int /\ (g # fd => g <= maxfd)
      BY <2>1, <2>2
    <3> QED
      BY ONLY <3>1, <2>2
  <2> QED
    BY <2>3 DEF MaxFdCovers
<1> QED
  BY <1>5, <1>10, <1>11, <1>12, <1>13 DEF PollInv

LEMMA InterestStep ==
  ASSUME PollInv, NEW h \in Clients,
         \/ \E type \in EventType : EnableEvent(h, type) \/ DisableEvent(h, type)
         \/ DisableAll(h)
  PROVE  PollInv'
<1> DEFINE fd == fdOf[h]
           e(S) == [handler |-> events[fd].handler, interest |-> S]
<1>1. h \in Handler /\ TypeOK
  BY DEF Clients, PollInv
<1>2. fd \in Fd /\ fd # NoFd
  BY <1>1 DEF EnableEvent, DisableEvent, DisableAll, ChangeEvents, TypeOK
<1>3. Interest(events, fd) \in SUBSET EventType
  BY <1>1, <1>2 DEF Interest, HasEvent, TypeOK
<1>4. PICK S \in SUBSET EventType : events' = WithInterest(events, fd, S)
  BY <1>3 DEF EnableEvent, DisableEvent, DisableAll, ChangeEvents, SetInterest,
              AfterSetEvent, AfterDeleteEvent, AfterDeleteAllEvent
<1>5. UNCHANGED <<maxfd, flags, stale, loopVars, clientVars>>
  BY DEF EnableEvent, DisableEvent, DisableAll, ChangeEvents, SetInterest
<1>6. HasEvent(events, fd) => events[fd].handler = h
  BY <1>1, <1>2 DEF PollInv, TableMatchesClients
<1>7. /\ HasEvent(events', fd) <=> HasEvent(events, fd)
      /\ HasEvent(events, fd) => events'[fd] = e(S) /\ e(S).handler = h
      /\ \A g \in Fd \ {fd} : events'[g] = events[g]
      /\ events' \in [Fd -> [handler : Handler, interest : SUBSET EventType] \cup {NoEntry, NullEntry}]
  <2>1. CASE HasEvent(events, fd)
    <3>1. e(S) \in [handler : Handler, interest : SUBSET EventType] /\ e(S).handler = h
      BY <2>1, <1>6, <1>1
    <3> HIDE DEF fd
    <3>2. events' = [events EXCEPT ![fd] = e(S)]
      BY <2>1, <1>1, <1>2, <1>4, TableAfterInterest
    <3> HIDE DEF e
    <3> QED
      BY <2>1, <3>1, <3>2, <1>1, <1>2 DEF TypeOK, HasEvent
  <2>2. CASE ~HasEvent(events, fd)
    <3> HIDE DEF fd
    <3>1. events' = [events EXCEPT ![fd] = NullEntry]
      BY <2>2, <1>4 DEF WithInterest
    <3> QED
      BY <2>2, <3>1, <1>1, <1>2 DEF TypeOK, HasEvent
  <2> QED
    BY <2>1, <2>2
<1>8. TypeOK'
  BY <1>1, <1>5, <1>7 DEF TypeOK, loopVars, clientVars
<1>9. DOMAIN events = Fd /\ DOMAIN events' = Fd
  BY <1>1, <1>8 DEF TypeOK
<1>10. /\ \A g \in Fd : HasEvent(events', g) <=> HasEvent(events, g)
       /\ \A g \in Fd : HasEvent(events, g) => events'[g].handler = events[g].handler
       /\ \A g \in Fd \ {fd} : Interest(events', g) = Interest(events, g)
  BY <1>2, <1>6, <1>7 DEF HasEvent, Interest
<1>11. TableMatchesClients'
  <2>1. ASSUME NEW g \in Registered(events') PROVE fdOf'[events'[g].handler] = g \/ LeftBehind(g)'
    <3>1. g \in Fd /\ g \in Registered(events) /\ events'[g].handler = events[g].handler
      BY <2>1, <1>9, <1>10 DEF Registered
    <3>2. CASE g = fd
      BY <3>1, <3>2, <1>5, <1>6 DEF Registered, clientVars
    <3>3. CASE g # fd
      BY <3>1, <3>3, <1>5, <1>10 DEF PollInv, TableMatchesClients, LeftBehind, clientVars
    <3> QED
      BY <3>2, <3>3
  <2>2. ASSUME NEW g \in Handler, fdOf'[g] # NoFd
        PROVE  IF HasEvent(events', fdOf'[g]) THEN events'[fdOf'[g]].handler = g ELSE owner'[g] = "server"
    <3>1. fdOf'[g] = fdOf[g] /\ owner'[g] = owner[g] /\ fdOf[g] \in Fd
      BY <2>2, <1>1, <1>5 DEF clientVars, TypeOK
    <3>2. IF HasEvent(events, fdOf[g]) THEN events[fdOf[g]].handler = g ELSE owner[g] = "server"
      BY <2>2, <3>1 DEF PollInv, TableMatchesClients
    <3> QED
      BY <3>1, <3>2, <1>10
  <2> QED
    BY <2>1, <2>2 DEF TableMatchesClients
<1>12. ClientsAlive' /\ OneOwner'
  BY <1>5 DEF PollInv, ClientsAlive, OneOwner, clientVars
<1>13. NoDanglingHandler'
  <2>1. \A g \in Fd : Interest(events', g) # {} => life'[events'[g].handler] = "alive"
    BY <1>8, <1>11, <1>12, InterestAliveNext
  <2> QED
    BY <2>1, <1>5 DEF PollInv, NoDanglingHandler, clientVars, loopVars
<1>14. MaxFdCovers'
  BY <1>5, <1>9, <1>10 DEF PollInv, MaxFdCovers, Registered
<1> QED
  BY <1>8, <1>11, <1>12, <1>13, <1>14 DEF PollInv

LEMMA UnregisterStep ==
  ASSUME PollInv, NEW h \in Clients, Unregister(h)
  PROVE  PollInv'
<1> DEFINE fd == fdOf[h]
<1>1. h \in Handler /\ TypeOK
  BY DEF Clients, PollInv
<1>2. fd \in Fd /\ fd # NoFd
  BY <1>1 DEF Unregister, TypeOK
<1>3. \E none \in {NoEntry, NullEntry} : events' = [events EXCEPT ![fd] = none]
  BY DEF Unregister, DeleteFd, AfterDeleteFd
<1>4. /\ maxfd' = IF HasEvent(events, fd) /\ maxfd = fd THEN maxfd - 1 ELSE maxfd
      /\ fdOf' = [fdOf EXCEPT ![h] = IF owner[h] = "connector" THEN NoFd ELSE @]
      /\ owner[h] # "connector" => owner[h] = "server"
      /\ UNCHANGED <<flags, stale, loopVars, life, owner>>
  BY DEF Unregister, DeleteFd
<1> HIDE DEF fd
<1>5. ~HasEvent(events', fd) /\ \A g \in Fd \ {fd} : events'[g] = events[g]
  BY <1>1, <1>2, <1>3 DEF TypeOK, HasEvent
<1>6. TypeOK'
  <2>1. events' \in [Fd -> [handler : Handler, interest : SUBSET EventType] \cup {NoEntry, NullEntry}]
    BY <1>1, <1>3 DEF TypeOK
  <2>2. maxfd' \in Int
    BY <1>1, <1>2, <1>4 DEF TypeOK
  <2>3. fdOf' \in [Handler -> Fd \cup {NoFd}]
    BY <1>1, <1>4 DEF TypeOK
  <2> QED
    BY <2>1, <2>2, <2>3, <1>1, <1>4 DEF TypeOK, loopVars
<1>7. DOMAIN events = Fd /\ DOMAIN events' = Fd
  BY <1>1, <1>6 DEF TypeOK
<1>8. /\ \A g \in Handler \ {h} : fdOf'[g] = fdOf[g] /\ (fdOf[g] # NoFd => fdOf[g] # fd)
      /\ fdOf'[h] \in {NoFd, fd} /\ (fdOf'[h] # NoFd => owner[h] = "server")
  BY <1>1, <1>4 DEF PollInv, OneOwner, TypeOK, fd
<1>9. TableMatchesClients'
  <2>1. ASSUME NEW g \in Registered(events') PROVE fdOf'[events'[g].handler] = g \/ LeftBehind(g)'
    <3> DEFINE k == events[g].handler
    <3>1. g \in Fd /\ g # fd /\ events'[g] = events[g] /\ g \in Registered(events) /\ HasEvent(events, g)
      BY <2>1, <1>5, <1>7 DEF Registered, HasEvent
    <3>2. k \in Handler /\ (fdOf[k] = g \/ LeftBehind(g))
      BY <3>1, <1>1 DEF PollInv, TableMatchesClients, TypeOK, HasEvent
    <3>3. Interest(events', g) = Interest(events, g)
      BY <3>1 DEF Interest, HasEvent
    <3>4. fdOf[k] = g => k # h
      BY <3>1 DEF fd
    <3> QED
      BY <3>1, <3>2, <3>3, <3>4, <1>4, <1>8 DEF LeftBehind
  <2>2. ASSUME NEW g \in Handler, fdOf'[g] # NoFd
        PROVE  IF HasEvent(events', fdOf'[g]) THEN events'[fdOf'[g]].handler = g ELSE owner'[g] = "server"
    <3>1. CASE g = h
      BY <3>1, <2>2, <1>4, <1>5, <1>8
    <3>2. CASE g # h
      <4>1. fdOf'[g] = fdOf[g] /\ fdOf[g] # fd /\ fdOf[g] \in Fd
        BY <3>2, <2>2, <1>8, <1>1 DEF TypeOK
      <4>2. HasEvent(events', fdOf[g]) <=> HasEvent(events, fdOf[g])
        BY <4>1, <1>5 DEF HasEvent
      <4>3. IF HasEvent(events, fdOf[g]) THEN events[fdOf[g]].handler = g ELSE owner[g] = "server"
        BY <4>1, <2>2 DEF PollInv, TableMatchesClients
      <4>4. events'[fdOf[g]] = events[fdOf[g]] /\ owner'[g] = owner[g]
        BY <4>1, <1>4, <1>5
      <4> QED
        BY <4>1, <4>2, <4>3, <4>4
    <3> QED
      BY <3>1, <3>2
  <2> QED
    BY <2>1, <2>2 DEF TableMatchesClients
<1>10. ClientsAlive' /\ OneOwner'
  BY <1>1, <1>2, <1>4, <1>8 DEF PollInv, ClientsAlive, OneOwner, fd
<1>11. NoDanglingHandler'
  <2>1. \A g \in Fd : Interest(events', g) # {} => life'[events'[g].handler] = "alive"
    BY <1>6, <1>9, <1>10, InterestAliveNext
  <2> QED
    BY <2>1, <1>4 DEF PollInv, NoDanglingHandler, loopVars
<1>12. MaxFdCovers'
  <2>1. ASSUME NEW g \in Registered(events') PROVE g <= maxfd /\ g # fd /\ g \in Fd
    BY <2>1, <1>5, <1>7 DEF PollInv, MaxFdCovers, Registered, HasEvent
  <2>2. Fd \subseteq Int /\ maxfd \in Int /\ fd \in Fd
    BY <1>1, <1>2 DEF TypeOK
  <2>3. ASSUME NEW g \in Registered(events') PROVE g <= maxfd'
    <3>1. g \in Int /\ fd \in Int /\ g <= maxfd /\ g # fd
      BY <2>1, <2>2
    <3>2. maxfd' = maxfd \/ (maxfd = fd /\ maxfd' = maxfd - 1)
      BY <1>4
    <3> QED
      BY ONLY <2>2, <3>1, <3>2
  <2> QED
    BY <2>3 DEF MaxFdCovers
<1> QED
  BY <1>6, <1>9, <1>10, <1>11, <1>12 DEF PollInv

LEMMA ReleaseStep ==
  ASSUME PollInv, NEW h \in Clients, Release(h)
  PROVE  PollInv'
<1>1. h \in Handler /\ TypeOK
  BY DEF Clients, PollInv
<1>2. /\ life[h] = "alive"
      /\ fdOf[h] \in Fd /\ HasEvent(events, fdOf[h]) => owner[h] = "client" /\ Interest(events, fdOf[h]) = {}
      /\ current = NoHandler /\ srevents = {}
  BY <1>1, FdAssumption DEF Release, Over, TypeOK
<1>3. /\ life' = [life EXCEPT ![h] = "released"]
      /\ fdOf' = [fdOf EXCEPT ![h] = NoFd]
      /\ UNCHANGED <<pollVars, flags, stale, loopVars, owner>>
  BY DEF Release, Released
<1>4. TypeOK'
  BY <1>1, <1>3 DEF TypeOK, pollVars, loopVars
<1>5. \A g \in Handler \ {h} : fdOf'[g] = fdOf[g] /\ life'[g] = life[g]
  BY <1>1, <1>3 DEF TypeOK
<1>6. fdOf'[h] = NoFd /\ life'[h] = "released"
  BY <1>1, <1>3 DEF TypeOK
<1>7. TableMatchesClients'
  <2>1. ASSUME NEW g \in Registered(events) PROVE fdOf'[events[g].handler] = g \/ LeftBehind(g)'
    <3> DEFINE k == events[g].handler
    <3>1. g \in Fd /\ HasEvent(events, g) /\ k \in Handler /\ (fdOf[k] = g \/ LeftBehind(g))
      BY <1>1 DEF PollInv, TableMatchesClients, TypeOK, Registered, HasEvent
    <3>2. CASE k = h
      <4>1. fdOf[h] = g
        BY <3>1, <3>2, <1>2 DEF LeftBehind
      <4> QED
        BY <4>1, <3>1, <3>2, <1>2, <1>3, <1>6 DEF LeftBehind, pollVars
    <3>3. CASE k # h
      BY <3>1, <3>3, <1>3, <1>5 DEF LeftBehind, pollVars
    <3> QED
      BY <3>2, <3>3
  <2>2. ASSUME NEW g \in Handler, fdOf'[g] # NoFd
        PROVE  IF HasEvent(events, fdOf'[g]) THEN events[fdOf'[g]].handler = g ELSE owner[g] = "server"
    BY <2>2, <1>5, <1>6 DEF PollInv, TableMatchesClients
  <2> QED
    BY <2>1, <2>2, <1>3 DEF TableMatchesClients, pollVars
<1>8. ClientsAlive' /\ OneOwner'
  BY <1>5, <1>6 DEF PollInv, ClientsAlive, OneOwner
<1>9. NoDanglingHandler'
  <2>1. \A g \in Fd : Interest(events', g) # {} => life'[events'[g].handler] = "alive"
    BY <1>4, <1>7, <1>8, InterestAliveNext
  <2> QED
    BY <2>1, <1>2, <1>3 DEF NoDanglingHandler, loopVars
<1>10. MaxFdCovers'
  BY <1>3 DEF PollInv, MaxFdCovers, pollVars
<1> QED
  BY <1>4, <1>7, <1>8, <1>9, <1>10 DEF PollInv

LEMMA PollStep == PollInv /\ [Next]_vars => PollInv'
<1> SUFFICES ASSUME PollInv, [Next]_vars PROVE PollInv'
  OBVIOUS
<1> USE DEF PollInv, TypeOK, TableMatchesClients, ClientsAlive, OneOwner, NoDanglingHandler, MaxFdCovers,
            LeftBehind
<1>1. CASE WaitSucceeds
  <2>1. PICK R \in SUBSET Examined :
             /\ flags' = Flagged(R)
             /\ srevents' = {<<p[1], events[p[1]].handler>> : p \in R}
             /\ pc' = IF R = {} THEN "tasks" ELSE "events"
    BY <1>1 DEF WaitSucceeds
  <2>2. \A p \in R : p[1] \in Fd /\ p[2] \in EventType /\ Interest(events, p[1]) # {}
    BY DEF Examined
  <2>3. \A p \in R : events[p[1]].handler \in Handler /\ life[events[p[1]].handler] = "alive"
    BY <2>2, InterestAlive
  <2>4. flags' \in [Handler -> SUBSET EventType]
    BY <2>1, <2>2 DEF Flagged
  <2>5. \A q \in srevents' : q \in Fd \X Handler /\ life[q[2]] = "alive"
    BY <2>1, <2>2, <2>3
  <2> QED
    BY <1>1, <2>1, <2>4, <2>5 DEF WaitSucceeds, pollVars, clientVars
<1>2. CASE WaitFails
  <2>1. flags' \in [Handler -> SUBSET EventType]
    BY <1>2 DEF WaitFails, Flagged
  <2> QED
    BY <1>2, <2>1 DEF WaitFails, pollVars, clientVars
<1>3. CASE HandleEvents
  BY <1>3 DEF HandleEvents, pollVars, clientVars
<1>4. CASE ClearEvent
  BY <1>4 DEF ClearEvent, pollVars, clientVars
<1>5. CASE RunTasks
  BY <1>5 DEF RunTasks, pollVars, clientVars
<1>6. CASE EndIteration
  BY <1>6 DEF EndIteration, pollVars, clientVars
<1>8. CASE UNCHANGED vars
  BY <1>8 DEF vars, pollVars, loopVars, clientVars
<1> QED
  BY <1>1, <1>2, <1>3, <1>4, <1>5, <1>6, <1>8, RegisterStep, InterestStep, UnregisterStep, ReleaseStep
     DEF Next, ClientStep

\* The inductive invariant behind the theorems of this module.
LEMMA PollInvariant == Spec => []PollInv
BY PollInit, PollStep, PTL DEF Spec

\* The state stays within its types, whatever select reports.
THEOREM TypeCorrect == Spec => []TypeOK
BY PollInvariant, PTL DEF PollInv

\* Raw handler pointers never dangle while owners release handlers in tasks only.
THEOREM HandlersNeverDangle == Spec => []NoDanglingHandler
BY PollInvariant, PTL DEF PollInv

\* The table and the owners of its handlers agree, with entries left behind,
\* numbers used again and descriptors deleted twice.
THEOREM TableAgreesWithClients == Spec => []TableMatchesClients
BY PollInvariant, PTL DEF PollInv

\* maxfd_, stepping down by at most one at a time, always covers the table.
THEOREM MaxFdAlwaysCovers == Spec => []MaxFdCovers
BY PollInvariant, PTL DEF PollInv
-----------------------------------------------------------------------------
\* What wait() adds to the flags of a handler comes from its entry.
LEMMA FlaggedFrom ==
  ASSUME PollInv, NEW R, R \subseteq Fd \X EventType, NEW h \in Handler, Flagged(R)[h] # {}
  PROVE  flags[h] # {} \/ \E q \in R : events[q[1]].handler = h
BY DEF Flagged

LEMMA FlagsStep == PollInv /\ FlagsFollowReports /\ [Next]_vars => FlagsFollowReports'
<1> SUFFICES ASSUME PollInv, FlagsFollowReports, [Next]_vars, NEW h \in Handler, flags'[h] # {}
             PROVE  h = current' \/ (\E p \in srevents' : p[2] = h) \/ h \in stale'
  BY DEF FlagsFollowReports
<1> DEFINE Goal == h = current' \/ (\E p \in srevents' : p[2] = h) \/ h \in stale'
<1> USE DEF PollInv
<1>1. flags[h] # {} => h = current \/ (\E p \in srevents : p[2] = h) \/ h \in stale
  BY DEF FlagsFollowReports
<1>2. pc = "wait" => srevents = {} /\ current = NoHandler
  BY DEF TypeOK
<1>3. CASE WaitSucceeds
  <2>1. PICK R \in SUBSET Examined : /\ flags' = Flagged(R) /\ stale' = stale
                                     /\ srevents' = {<<p[1], events[p[1]].handler>> : p \in R}
    BY <1>3 DEF WaitSucceeds
  <2>2. flags[h] # {} \/ \E q \in R : events[q[1]].handler = h
    BY <2>1, FlaggedFrom DEF Examined
  <2>3. CASE flags[h] # {}
    BY <1>1, <1>2, <1>3, <2>1, <2>3 DEF WaitSucceeds
  <2>4. ASSUME NEW q \in R, events[q[1]].handler = h PROVE Goal
    <3>1. <<q[1], events[q[1]].handler>> \in srevents'
      BY <2>1
    <3> QED
      BY <2>4, <3>1
  <2> QED
    BY <2>2, <2>3, <2>4
<1>4. CASE WaitFails
  <2> DEFINE R == {p \in Fd \X EventType : p[2] \in Interest(events, p[1])}
  <2>1. flags' = Flagged(R) /\ stale' = stale \cup {g \in Handler : fdOf[g] # NoFd} /\ pc = "wait"
    BY <1>4 DEF WaitFails
  <2>2. \A q \in R : q[1] \in Fd /\ Interest(events, q[1]) # {}
    OBVIOUS
  <2>3. flags[h] # {} \/ \E q \in R : events[q[1]].handler = h
    BY <2>1, FlaggedFrom
  <2>4. CASE flags[h] # {}
    BY <1>1, <1>2, <2>1, <2>4
  <2>5. ASSUME NEW q \in R, events[q[1]].handler = h PROVE Goal
    <3>1. fdOf[h] = q[1] /\ q[1] \in Fd
      BY <2>2, <2>5, InterestAlive
    <3>2. fdOf[h] # NoFd
      BY <3>1, FdAssumption
    <3> QED
      BY <2>1, <3>2
  <2> QED
    BY <2>3, <2>4, <2>5
<1>5. CASE HandleEvents
  BY <1>1, <1>5 DEF HandleEvents
<1>6. CASE ClearEvent
  BY <1>1, <1>6 DEF ClearEvent, TypeOK
<1>7. CASE UNCHANGED <<flags, stale, srevents, current>>
  BY <1>1, <1>7
<1> QED
  BY <1>3, <1>4, <1>5, <1>6, <1>7
  DEF Next, ClientStep, RunTasks, EndIteration, Register, EnableEvent, DisableEvent, DisableAll,
      ChangeEvents, Unregister, Release, Released, vars, loopVars

\* EventHandler.cpp: a callback runs for an event of the current wait, or for
\* one that a failed select pretended, and for no other.
THEOREM FlagsAlwaysFollowReports == Spec => []FlagsFollowReports
<1>1. Init => FlagsFollowReports
  BY DEF Init, FlagsFollowReports
<1> QED
  BY <1>1, FlagsStep, PollInvariant, PTL DEF Spec
=============================================================================
