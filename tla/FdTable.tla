------------------------------- MODULE FdTable ------------------------------
(***************************************************************************)
(* Poll::events_ (reactor/Poll.h, PollSelect.cpp), the map from descriptor *)
(* to std::unique_ptr<FdEvent>, as a total function on Fd.  A descriptor   *)
(* without a key maps to NoEntry.  One whose key is present with a null    *)
(* pointer maps to NullEntry: operator[] inserts it when setEvent,         *)
(* deleteEvent or deleteFd are called for a key that is not there.         *)
(***************************************************************************)
CONSTANTS NoEntry, NullEntry

FdEvent(h) == [handler |-> h, interest |-> {}]

HasEvent(ev, fd) == ev[fd] \notin {NoEntry, NullEntry}
Registered(ev) == {fd \in DOMAIN ev : HasEvent(ev, fd)}
NullEntries(ev) == {fd \in DOMAIN ev : ev[fd] = NullEntry}

AfterAddFd(ev, fd, h) == [ev EXCEPT ![fd] = FdEvent(h)]

\* setEvent and deleteEvent: the interest of a registered descriptor becomes S.
WithInterest(ev, fd, S) ==
  [ev EXCEPT ![fd] = IF HasEvent(ev, fd) THEN [handler |-> ev[fd].handler, interest |-> S]
                               ELSE NullEntry]

Interest(ev, fd) == IF HasEvent(ev, fd) THEN ev[fd].interest ELSE {}

AfterSetEvent(ev, fd, type) == WithInterest(ev, fd, Interest(ev, fd) \cup {type})
AfterDeleteEvent(ev, fd, type) == WithInterest(ev, fd, Interest(ev, fd) \ {type})
AfterDeleteAllEvent(ev, fd) == WithInterest(ev, fd, {})

\* A registered descriptor is erased.  For any other one "fd不存在" is shown,
\* and the lookup has inserted a null entry.
AfterDeleteFd(ev, fd) == [ev EXCEPT ![fd] = IF HasEvent(ev, fd) THEN NoEntry ELSE NullEntry]
=============================================================================
