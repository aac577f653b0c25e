--------------------------- MODULE ConnectionProofs ---------------------------
(***************************************************************************)
(* Proofs about Connection, for any users, messages and calls: the types,  *)
(* what becomes of the data, and who keeps the connection for the raw      *)
(* pointer in the poll table.                                              *)
(***************************************************************************)
EXTENDS Connection, SequenceTheorems, TLAPS

Entry == [handler : {Handler}, interest : SUBSET {Read, Write}]
Table == [{ConnFd} -> Entry \cup {NoEntry, NullEntry}]

\* The operations of the poll table, on the one descriptor.
LEMMA TableOps ==
  ASSUME NEW T \in Table, NEW t \in {Read, Write}
  PROVE  /\ AfterSetEvent(T, ConnFd, t) \in Table
         /\ HasEvent(AfterSetEvent(T, ConnFd, t), ConnFd) <=> HasEvent(T, ConnFd)
         /\ AfterDeleteEvent(T, ConnFd, t) \in Table
         /\ HasEvent(AfterDeleteEvent(T, ConnFd, t), ConnFd) <=> HasEvent(T, ConnFd)
<1>1. ASSUME NEW S \in SUBSET {Read, Write}
      PROVE  /\ WithInterest(T, ConnFd, S) \in Table
             /\ HasEvent(WithInterest(T, ConnFd, S), ConnFd) <=> HasEvent(T, ConnFd)
  <2>1. CASE HasEvent(T, ConnFd)
    <3> DEFINE e == [handler |-> T[ConnFd].handler, interest |-> S]
    <3>1. T[ConnFd] \in Entry
      BY <2>1 DEF Table, HasEvent
    <3>2. e \in Entry
      BY <3>1 DEF Entry
    <3>3. WithInterest(T, ConnFd, S) = [T EXCEPT ![ConnFd] = e]
      BY <2>1 DEF WithInterest
    <3>4. e \notin {NoEntry, NullEntry}
      BY <3>2, TableAssumption DEF Entry, Read, Write
    <3> HIDE DEF e
    <3> QED
      BY <2>1, <3>2, <3>3, <3>4 DEF Table, HasEvent
  <2>2. CASE ~HasEvent(T, ConnFd)
    BY <2>2 DEF WithInterest, HasEvent, Table
  <2> QED
    BY <2>1, <2>2
<1>2. Interest(T, ConnFd) \in SUBSET {Read, Write}
  BY DEF Interest, HasEvent, Table, Entry
<1> QED
  BY <1>1, <1>2 DEF AfterSetEvent, AfterDeleteEvent

LEMMA TableEnds ==
  ASSUME NEW T \in Table
  PROVE  /\ AfterDeleteAllEvent(T, ConnFd) \in Table
         /\ HasEvent(AfterDeleteAllEvent(T, ConnFd), ConnFd) <=> HasEvent(T, ConnFd)
         /\ AfterDeleteFd(T, ConnFd) \in Table /\ ~HasEvent(AfterDeleteFd(T, ConnFd), ConnFd)
<1>1. /\ AfterDeleteAllEvent(T, ConnFd) \in Table
      /\ HasEvent(AfterDeleteAllEvent(T, ConnFd), ConnFd) <=> HasEvent(T, ConnFd)
  <2>1. CASE HasEvent(T, ConnFd)
    <3> DEFINE e == [handler |-> T[ConnFd].handler, interest |-> {}]
    <3>1. T[ConnFd] \in Entry
      BY <2>1 DEF Table, HasEvent
    <3>2. e \in Entry
      BY <3>1 DEF Entry
    <3>3. AfterDeleteAllEvent(T, ConnFd) = [T EXCEPT ![ConnFd] = e]
      BY <2>1 DEF WithInterest, AfterDeleteAllEvent
    <3>4. e \notin {NoEntry, NullEntry}
      BY <3>2, TableAssumption DEF Entry, Read, Write
    <3> HIDE DEF e
    <3> QED
      BY <2>1, <3>2, <3>3, <3>4 DEF Table, HasEvent
  <2>2. CASE ~HasEvent(T, ConnFd)
    BY <2>2 DEF WithInterest, AfterDeleteAllEvent, HasEvent, Table
  <2> QED
    BY <2>1, <2>2
<1>2. AfterDeleteFd(T, ConnFd) \in Table /\ ~HasEvent(AfterDeleteFd(T, ConnFd), ConnFd)
  BY DEF AfterDeleteFd, HasEvent, Table
<1> QED
  BY <1>1, <1>2

LEMMA TableAdded ==
  ASSUME NEW T \in Table
  PROVE  /\ AfterSetEvent(AfterAddFd(T, ConnFd, Handler), ConnFd, Read) \in Table
         /\ HasEvent(AfterSetEvent(AfterAddFd(T, ConnFd, Handler), ConnFd, Read), ConnFd)
<1> DEFINE e == FdEvent(Handler)
           U == AfterAddFd(T, ConnFd, Handler)
<1>1. e \in Entry
  BY DEF FdEvent, Entry
<1>2. e \notin {NoEntry, NullEntry}
  BY <1>1, TableAssumption DEF Entry, Read, Write
<1>3. U = [T EXCEPT ![ConnFd] = e]
  BY DEF AfterAddFd
<1> HIDE DEF e, U
<1>4. U \in Table /\ HasEvent(U, ConnFd)
  BY <1>1, <1>2, <1>3 DEF Table, HasEvent
<1>5. /\ AfterSetEvent(U, ConnFd, Read) \in Table
      /\ HasEvent(AfterSetEvent(U, ConnFd, Read), ConnFd)
  BY <1>4, TableOps
<1> QED
  BY <1>5 DEF U

\* write() takes a first part of a sequence; the rest follows it.
LEMMA FrontAndRest ==
  ASSUME NEW S, NEW s \in Seq(S), NEW n \in 0..Len(s)
  PROVE  /\ Front(s, n) \in Seq(S) /\ Rest(s, n) \in Seq(S)
         /\ Front(s, n) \o Rest(s, n) = s
         /\ n = Len(s) => Rest(s, n) = <<>>
         /\ n # Len(s) => Rest(s, n) # <<>>
<1>1. Len(s) \in Nat /\ \A i \in 1..Len(s) : s[i] \in S
  BY LenProperties, ElementOfSeq
<1>2. Front(s, n) \in Seq(S)
  BY <1>1, SubSeqProperties DEF Front
<1>3. /\ Rest(s, n) \in Seq(S)
      /\ Len(Rest(s, n)) = IF n + 1 <= Len(s) THEN Len(s) - (n + 1) + 1 ELSE 0
  BY <1>1, SubSeqProperties DEF Rest
<1>4. SubSeq(s, 1, n) \o SubSeq(s, n + 1, Len(s)) = SubSeq(s, 1, Len(s))
  <2>1. /\ 1 \in 1..Len(s) + 1 /\ n \in 1 - 1..Len(s) /\ Len(s) \in n..Len(s)
    BY <1>1
  <2> QED
    BY <2>1, ConcatAdjacentSubSeq
<1>5. Front(s, n) \o Rest(s, n) = s
  BY <1>4, SubSeqFull DEF Front, Rest
<1>6. n = Len(s) => Rest(s, n) = <<>>
  BY <1>1, SubSeqEmpty DEF Rest
<1>7. n # Len(s) => Rest(s, n) # <<>>
  BY <1>1, <1>3, EmptySeq
<1> QED
  BY <1>2, <1>3, <1>5, <1>6, <1>7

LEMMA PartsTyped == \A m \in Data : Parts(m) \in Seq(Part) /\ Len(Parts(m)) = 2
<1> TAKE m \in Data
<1> DEFINE p == <<m, 1>>
           q == <<m, 2>>
<1>1. p \in Part /\ q \in Part
  BY DEF Part
<1> HIDE DEF p, q
<1>2. <<p, q>> \in Seq(Part) /\ Len(<<p, q>>) = 2
  BY <1>1
<1> QED
  BY <1>2 DEF Parts, p, q

\* A task at the end of the queue, or gone from its head.
LEMMA Queued ==
  ASSUME NEW q \in Seq(Task), NEW t \in Task
  PROVE  /\ Append(q, t) \in Seq(Task) /\ Append(q, t) # <<>>
         /\ \A i \in 1..Len(Append(q, t)) : Append(q, t)[i] = t \/ (i \in 1..Len(q) /\ Append(q, t)[i] = q[i])
         /\ \A i \in 1..Len(q) : i \in 1..Len(Append(q, t)) /\ Append(q, t)[i] = q[i]
         /\ Len(q) + 1 \in 1..Len(Append(q, t)) /\ Append(q, t)[Len(q) + 1] = t
         /\ Append(q, t)[1] = t \/ (q # <<>> /\ Append(q, t)[1] = q[1])
<1>1. Len(q) \in Nat
  BY LenProperties
<1> HIDE DEF Task
<1> QED
  BY <1>1, AppendProperties, EmptySeq

LEMMA Dequeued ==
  ASSUME NEW q \in Seq(Task), q # <<>>
  PROVE  /\ Head(q) = q[1] /\ Head(q) \in Task /\ Tail(q) \in Seq(Task) /\ Len(q) \in Nat \ {0}
         /\ \A i \in 1..Len(Tail(q)) : i + 1 \in 1..Len(q) /\ Tail(q)[i] = q[i + 1]
         /\ \A i \in 1..Len(q) : i # 1 => i - 1 \in 1..Len(Tail(q)) /\ Tail(q)[i - 1] = q[i]
<1>1. Len(q) \in Nat \ {0} /\ Head(q) = q[1]
  BY EmptySeq
<1>2. /\ Head(q) \in Task /\ Tail(q) \in Seq(Task) /\ Len(Tail(q)) = Len(q) - 1
      /\ \A i \in 1..Len(Tail(q)) : Tail(q)[i] = q[i + 1]
  BY HeadTailProperties
<1> HIDE DEF Task
<1> QED
  BY <1>1, <1>2
-----------------------------------------------------------------------------
(***************************************************************************)
(* What the parts of the actions do, as far as the proofs need it.         *)
(***************************************************************************)
\* A task of this kind is in the queue; "complete" can only be its first.
Holds(q, op) == \E i \in 1..Len(q) : q[i][1] = op
CompleteFirst(q) == \A i \in 1..Len(q) : q[i][1] = "complete" => i = 1

LEMMA HoldsQueued ==
  ASSUME NEW q \in Seq(Task), NEW t \in Task, NEW op
  PROVE  /\ Holds(Append(q, t), op) <=> Holds(q, op) \/ t[1] = op
         /\ CompleteFirst(q) /\ t[1] # "complete" => CompleteFirst(Append(q, t))
<1> HIDE DEF Task
<1> QED
  BY Queued DEF Holds, CompleteFirst

LEMMA HoldsDequeued ==
  ASSUME NEW q \in Seq(Task), q # <<>>, NEW op
  PROVE  /\ Holds(Tail(q), op) => Holds(q, op)
         /\ Holds(q, op) => Holds(Tail(q), op) \/ Head(q)[1] = op
         /\ CompleteFirst(q) => ~Holds(Tail(q), "complete")
         /\ Holds(q, Head(q)[1])
<1> HIDE DEF Task
<1>1. Holds(q, op) => Holds(Tail(q), op) \/ Head(q)[1] = op
  BY Dequeued DEF Holds
<1>2. CompleteFirst(q) => ~Holds(Tail(q), "complete")
  BY Dequeued DEF Holds, CompleteFirst
<1>3. Holds(Tail(q), op) => Holds(q, op)
  BY Dequeued DEF Holds
<1>4. Holds(q, Head(q)[1])
  BY Dequeued DEF Holds
<1> QED
  BY <1>1, <1>2, <1>3, <1>4

LEMMA HoldsNone == \A op : ~Holds(<<>>, op)
BY DEF Holds

\* At most one task of these kinds is queued.
Queues(ops) == \/ tasks' = tasks
               \/ \E t \in Task : t[1] \in ops /\ tasks' = Append(tasks, t)

LEMMA QueueQueues ==
  ASSUME NEW op \in {"complete", "shutdown", "close", "destroy", "writeComplete"}, Queue(op)
  PROVE  Queues({op})
<1>1. <<op, NoData>> \in Task /\ <<op, NoData>>[1] = op
  BY DEF Task
<1> QED
  BY <1>1 DEF Queue, Queues

LEMMA QueuesTyped ==
  ASSUME tasks \in Seq(Task), NEW ops, Queues(ops)
  PROVE  /\ tasks' \in Seq(Task)
         /\ \A op : (Holds(tasks, op) => Holds(tasks', op)) /\ (Holds(tasks', op) => Holds(tasks, op) \/ op \in ops)
         /\ CompleteFirst(tasks) /\ "complete" \notin ops => CompleteFirst(tasks')
         /\ tasks # <<>> => tasks' # <<>>
<1>1. CASE tasks' = tasks
  BY <1>1
<1>2. CASE tasks' # tasks
  <2>1. PICK t \in Task : t[1] \in ops /\ tasks' = Append(tasks, t)
    BY <1>2 DEF Queues
  <2> HIDE DEF Task
  <2>2. tasks' \in Seq(Task) /\ tasks' # <<>>
    BY <2>1, Queued
  <2>3. \A op : Holds(tasks', op) <=> Holds(tasks, op) \/ t[1] = op
    BY <2>1, HoldsQueued
  <2>4. CompleteFirst(tasks) /\ t[1] # "complete" => CompleteFirst(tasks')
    BY <2>1, HoldsQueued
  <2> QED
    BY <2>1, <2>2, <2>3, <2>4
<1> QED
  BY <1>1, <1>2

\* The poll table keeps its entry, or its lack of one.
KeepsEntry == events' \in Table /\ (HasEvent(events', ConnFd) <=> HasEvent(events, ConnFd))

\* What is written and buffered stays in order, and writing_ tells of it.
DataInv ==
  /\ SentInOrder
  /\ output # <<>> => writing
  /\ fin => output = <<>>

\* The kernel takes n parts of the sequence s.
LEMMA Written ==
  ASSUME TypeOK, NEW s \in Seq(Part), NEW n \in 0..Len(s)
  PROVE  /\ Front(s, n) \in Seq(Part) /\ Rest(s, n) \in Seq(Part)
         /\ wire \o Front(s, n) \in Seq(Part)
         /\ (wire \o Front(s, n)) \o Rest(s, n) = wire \o s
         /\ n = Len(s) <=> Rest(s, n) = <<>>
<1>1. wire \in Seq(Part)
  BY DEF TypeOK
<1> HIDE DEF Part
<1>2. /\ Front(s, n) \in Seq(Part) /\ Rest(s, n) \in Seq(Part) /\ Front(s, n) \o Rest(s, n) = s
      /\ n = Len(s) <=> Rest(s, n) = <<>>
  BY FrontAndRest
<1>3. wire \o Front(s, n) \in Seq(Part)
  BY <1>1, <1>2
<1>4. (wire \o Front(s, n)) \o Rest(s, n) = wire \o (Front(s, n) \o Rest(s, n))
  <2> DEFINE f == Front(s, n)
             r == Rest(s, n)
  <2>1. f \in Seq(Part) /\ r \in Seq(Part)
    BY <1>2
  <2> HIDE DEF f, r
  <2>2. (wire \o f) \o r = wire \o (f \o r)
    BY <1>1, <2>1, ConcatAssociative
  <2> QED
    BY <2>2 DEF f, r
<1> QED
  BY <1>2, <1>3, <1>4

\* The tail of a message that write() took in part: buffered, or lost.
LEMMA TailBuffered ==
  ASSUME TypeOK, NEW m \in Data, NEW n \in 0..Len(Parts(m)), BufferTail(m, n), output = <<>>,
         wire' = wire \o Front(Parts(m), n)
  PROVE  /\ output' \in Seq(Part) /\ accepted' \in Seq(Part) /\ filled' \in BOOLEAN
         /\ SentInOrder => SentInOrder'
<1> DEFINE p == Parts(m)
<1>1. p \in Seq(Part) /\ wire \in Seq(Part) /\ accepted \in Seq(Part) /\ filled \in BOOLEAN
  BY PartsTyped DEF TypeOK
<1>2. \/ output' = output \o Rest(p, n) /\ accepted' = accepted \o p /\ filled' \in BOOLEAN
      \/ accepted' = accepted \o Front(p, n) /\ UNCHANGED <<output, filled>>
  BY DEF BufferTail
<1>3. n \in 0..Len(p) /\ wire' = wire \o Front(p, n)
  OBVIOUS
<1> HIDE DEF p, Part
<1>4. /\ Front(p, n) \in Seq(Part) /\ Rest(p, n) \in Seq(Part)
      /\ wire' \in Seq(Part) /\ wire' \o Rest(p, n) = wire \o p
  <2> HIDE DEF Rest, Front
  <2> QED
    BY <1>1, <1>3, Written
<1>5. SentInOrder => wire = accepted
  BY <1>1, ConcatEmptySeq DEF SentInOrder
<1> HIDE DEF Rest, Front
<1>6. CASE output' = output \o Rest(p, n) /\ accepted' = accepted \o p /\ filled' \in BOOLEAN
  <2>1. output' = Rest(p, n)
    BY <1>4, <1>6, ConcatEmptySeq
  <2>2. accepted' \in Seq(Part)
    BY <1>1, <1>6
  <2> QED
    BY <1>4, <1>5, <1>6, <2>1, <2>2 DEF SentInOrder
<1>7. CASE accepted' = accepted \o Front(p, n) /\ UNCHANGED <<output, filled>>
  <2>1. accepted' \in Seq(Part)
    BY <1>1, <1>4, <1>7
  <2>2. output' = <<>> /\ wire' \o output' = wire'
    BY <1>4, <1>7, ConcatEmptySeq
  <2> QED
    BY <1>1, <1>3, <1>4, <1>5, <1>7, <2>1, <2>2 DEF SentInOrder
<1> QED
  BY <1>2, <1>6, <1>7

LEMMA SendInLoopEffects ==
  ASSUME TypeOK, NEW m \in Data, SendInLoop(m), fin' = fin
  PROVE  /\ state' = state /\ KeepsEntry /\ Queues({"writeComplete"})
         /\ writing' \in BOOLEAN /\ stray' \in BOOLEAN /\ filled' \in BOOLEAN
         /\ output' \in Seq(Part) /\ wire' \in Seq(Part) /\ accepted' \in Seq(Part)
         /\ DataInv => DataInv'
<1>1. CASE UNCHANGED <<connVars, tasks, wire, stray, filled, accepted>>
  BY <1>1 DEF TypeOK, KeepsEntry, Queues, Table, Entry, connVars, DataInv, SentInOrder
<1>2. CASE ~UNCHANGED <<connVars, tasks, wire, stray, filled, accepted>>
  <2> DEFINE p == Parts(m)
  <2>1. output = <<>> /\ ~writing /\ \E n \in MayTake(p) : SendParts(m, n)
    BY <1>2 DEF SendInLoop
  <2>2. /\ p \in Seq(Part) /\ wire \in Seq(Part) /\ accepted \in Seq(Part) /\ events \in Table
        /\ writing \in BOOLEAN /\ stray \in BOOLEAN /\ filled \in BOOLEAN /\ output \in Seq(Part)
    BY PartsTyped DEF TypeOK, Table, Entry
  <2>3. PICK n \in MayTake(p) : SendParts(m, n)
    BY <2>1
  <2>4. n \in 0..Len(p) /\ ~fin
    BY DEF MayTake
  <2>5. /\ wire' = wire \o Front(p, n) /\ UNCHANGED <<state, stray>>
        /\ \/ /\ n = Len(p) /\ accepted' = accepted \o p
              /\ Queue("writeComplete") /\ UNCHANGED <<writing, output, filled, events>>
           \/ /\ n # Len(p) /\ BufferTail(m, n)
              /\ writing' = TRUE /\ events' = AfterSetEvent(events, ConnFd, Write) /\ UNCHANGED tasks
    BY <2>3 DEF SendParts
  <2> HIDE DEF p
  <2>6. /\ wire' \in Seq(Part) /\ (n = Len(p) => wire' = wire \o p)
    <3>1. /\ Rest(p, n) \in Seq(Part) /\ wire' \in Seq(Part)
          /\ wire' \o Rest(p, n) = wire \o p
          /\ n = Len(p) <=> Rest(p, n) = <<>>
      <4> HIDE DEF Part, Rest, Front
      <4> QED
        BY <2>2, <2>4, <2>5, Written
    <3> HIDE DEF Part, Rest
    <3> QED
      BY <3>1, ConcatEmptySeq
  <2>7. CASE n = Len(p)
    <3>1. Queues({"writeComplete"}) /\ UNCHANGED <<writing, output, filled, events>> /\ accepted' = accepted \o p
      BY <2>5, <2>7, QueueQueues
    <3>2. accepted' \in Seq(Part)
      <4> HIDE DEF Part
      <4> QED
        BY <2>2, <3>1
    <3>3. ASSUME DataInv PROVE DataInv'
      <4>1. wire = accepted
        <5> HIDE DEF Part
        <5> QED
          BY <2>1, <2>2, <3>3, ConcatEmptySeq DEF DataInv, SentInOrder
      <4>2. wire' \o output' = accepted'
        <5>1. wire' = accepted' /\ output' = <<>>
          BY <2>1, <2>6, <2>7, <3>1, <4>1
        <5> HIDE DEF Part
        <5> QED
          BY <2>6, <5>1, ConcatEmptySeq
      <4> QED
        BY <2>1, <2>4, <3>1, <4>2 DEF DataInv, SentInOrder
    <3> QED
      BY <2>2, <2>5, <2>6, <3>1, <3>2, <3>3 DEF KeepsEntry
  <2>8. CASE n # Len(p)
    <3>1. /\ BufferTail(m, n) /\ writing' = TRUE
          /\ events' = AfterSetEvent(events, ConnFd, Write) /\ UNCHANGED tasks
      BY <2>5, <2>8
    <3>2. /\ output' \in Seq(Part) /\ accepted' \in Seq(Part) /\ filled' \in BOOLEAN
          /\ SentInOrder => SentInOrder'
      BY <2>1, <2>4, <2>5, <3>1, TailBuffered DEF p
    <3>3. KeepsEntry
      BY <2>2, <3>1, TableOps DEF KeepsEntry, Write
    <3> QED
      BY <2>2, <2>4, <2>5, <2>6, <3>1, <3>2, <3>3 DEF DataInv, Queues
  <2> QED
    BY <2>7, <2>8
<1> QED
  BY <1>1, <1>2

LEMMA HandleWriteEffects ==
  ASSUME TypeOK, HandleWrite
  PROVE  /\ state' = state /\ KeepsEntry /\ Queues({"writeComplete"})
         /\ writing' \in BOOLEAN /\ fin' \in BOOLEAN /\ stray' \in BOOLEAN /\ filled' \in BOOLEAN
         /\ output' \in Seq(Part) /\ wire' \in Seq(Part) /\ accepted' \in Seq(Part)
         /\ DataInv => DataInv'
<1> accepted' = accepted
  BY DEF HandleWrite
<1>1. CASE UNCHANGED <<connVars, tasks, wire, stray, filled, fin>>
  BY <1>1 DEF TypeOK, KeepsEntry, Queues, Table, Entry, connVars, DataInv, SentInOrder
<1>2. CASE ~UNCHANGED <<connVars, tasks, wire, stray, filled, fin>>
  <2>1. writing /\ state' = state
    BY <1>2 DEF HandleWrite
  <2>2. /\ output \in Seq(Part) /\ accepted \in Seq(Part) /\ events \in Table /\ fin \in BOOLEAN
        /\ stray \in BOOLEAN /\ filled \in BOOLEAN
    BY DEF TypeOK, Table, Entry
  <2>3. PICK n \in MayTake(output), behind \in BOOLEAN :
             /\ Wrote(n, behind)
             /\ IF n = Len(output)
                  THEN OutputWritten /\ fin' = (fin \/ state = "kDisconnecting")
                  ELSE UNCHANGED <<writing, events, tasks, fin>>
    BY <1>2 DEF HandleWrite
  <2>a. /\ wire' = wire \o Front(output, n) /\ output' = Rest(output, n)
        /\ stray' \in BOOLEAN /\ filled' \in BOOLEAN
    BY <2>2, <2>3 DEF Wrote
  <2>b. n = Len(output) => /\ writing' = FALSE /\ Queue("writeComplete")
                           /\ events' = AfterDeleteEvent(events, ConnFd, Write)
    BY <2>3 DEF OutputWritten
  <2>4. n \in 0..Len(output) /\ ~fin
    BY DEF MayTake
  <2>5. /\ Front(output, n) \in Seq(Part) /\ Rest(output, n) \in Seq(Part)
        /\ wire \o Front(output, n) \in Seq(Part)
        /\ (wire \o Front(output, n)) \o Rest(output, n) = wire \o output
        /\ n = Len(output) <=> Rest(output, n) = <<>>
    <3> HIDE DEF Part
    <3> QED
      BY <2>2, <2>4, Written
  <2>6. KeepsEntry /\ writing' \in BOOLEAN /\ Queues({"writeComplete"}) /\ fin' \in BOOLEAN
    <3>1. CASE n = Len(output)
      <4>1. Queues({"writeComplete"})
        BY <2>b, <3>1, QueueQueues
      <4>2. KeepsEntry
        BY <2>2, <2>b, <3>1, TableOps DEF KeepsEntry, Write
      <4>3. writing' \in BOOLEAN /\ fin' \in BOOLEAN
        BY <2>2, <2>3, <2>b, <3>1
      <4> QED
        BY <4>1, <4>2, <4>3
    <3>2. CASE n # Len(output)
      BY <2>1, <2>2, <2>3, <3>2 DEF KeepsEntry, Queues
    <3> QED
      BY <3>1, <3>2
  <2>7. ASSUME DataInv PROVE DataInv'
    <3>1. wire' \o output' = accepted'
      BY <2>a, <2>5, <2>7 DEF DataInv, SentInOrder
    <3>2. output' # <<>> => writing'
      BY <2>1, <2>3, <2>a, <2>5
    <3>3. fin' => output' = <<>>
      BY <2>3, <2>4, <2>a, <2>5
    <3> QED
      BY <3>1, <3>2, <3>3 DEF DataInv, SentInOrder
  <2> QED
    BY <2>1, <2>2, <2>a, <2>5, <2>6, <2>7
<1> QED
  BY <1>1, <1>2

\* handleClose: the table keeps the descriptor, without interest, and a task
\* is on its way that will delete it.
Removes == \/ /\ tasks' = Append(tasks, <<"destroy", NoData>>)
              /\ inMap' = FALSE /\ serverTasks' = serverTasks
           \/ UNCHANGED <<inMap, tasks>> /\ serverTasks' = serverTasks + 1

LEMMA HandleCloseEffects ==
  ASSUME TypeOK, HandleClose
  PROVE  /\ state' \in {state, "kDisconnected"} /\ (state' = "kConnecting" <=> state = "kConnecting")
         /\ KeepsEntry /\ Removes
         /\ Queues({"destroy"}) /\ serverTasks' \in Nat /\ inMap' \in BOOLEAN
<1>1. state' \in {state, "kDisconnected"} /\ (state' = "kConnecting" <=> state = "kConnecting")
  BY DEF HandleClose, TypeOK
<1>2. KeepsEntry
  <2>1. events \in Table
    BY DEF TypeOK, Table, Entry
  <2> QED
    BY <2>1, TableEnds DEF HandleClose, KeepsEntry
<1>3. Removes
  BY DEF HandleClose, RemoveConnection, RemoveConnectionInLoop, Queue, Removes
<1>4. Queues({"destroy"})
  BY QueueQueues DEF HandleClose, RemoveConnection, RemoveConnectionInLoop, Queues
<1>5. serverTasks' \in Nat /\ inMap' \in BOOLEAN
  <2>1. serverTasks \in Nat /\ inMap \in BOOLEAN
    BY DEF TypeOK
  <2>2. serverTasks' \in {serverTasks, serverTasks + 1}
    BY <1>3, Zenon DEF Removes
  <2>3. inMap' = FALSE \/ inMap' = inMap
    BY <1>3, Zenon DEF Removes
  <2>4. serverTasks' \in Nat
    BY <2>1, <2>2
  <2>5. inMap' \in BOOLEAN
    BY <2>1, <2>3, Zenon
  <2> QED
    BY <2>4, <2>5
<1> QED
  BY <1>1, <1>2, <1>3, <1>4, <1>5
-----------------------------------------------------------------------------
(***************************************************************************)
(* The types.  While tasks run nothing reported is left to handle.         *)
(***************************************************************************)
TypeInv == TypeOK /\ (taskings # <<>> => flags = {})

LEMMA InitTypes == Init => TypeInv
<1> SUFFICES ASSUME Init PROVE TypeInv
  OBVIOUS
<1>1. writing \in BOOLEAN
  BY UserAssumption DEF Init
<1>2. tasks \in Seq(Task)
  <2>1. <<"complete", NoData>> \in Task
    BY DEF Task
  <2> HIDE DEF Task
  <2> QED
    BY <2>1 DEF Init
<1>3. /\ output \in Seq(Part) /\ wire \in Seq(Part) /\ accepted \in Seq(Part) /\ taskings \in Seq(Task)
      /\ taskings = <<>>
  BY DEF Init
<1>4. events \in Table
  BY DEF Init, Table
<1>5. /\ pc \in {"poll", "events", "handler", "callback", "complete", "tasks"} /\ flags = {}
      /\ holders \subseteq User /\ unsent \subseteq Data /\ userPc \in [User -> {"idle", "shutdown", "forceClose"}]
      /\ state \in {"kConnecting", "kConnected", "kDisconnecting", "kDisconnected"}
  BY DEF Init
<1>6. serverTasks \in Nat /\ inbound \in 0..MaxInbound
  BY DataAssumption DEF Init
<1>7. /\ sameLoop \in BOOLEAN /\ inMap \in BOOLEAN /\ peerOpen \in BOOLEAN /\ fin \in BOOLEAN
      /\ stray \in BOOLEAN /\ filled \in BOOLEAN
  BY DEF Init
<1> QED
  BY <1>1, <1>2, <1>3, <1>4, <1>5, <1>6, <1>7, Zenon DEF TypeInv, TypeOK, Table, Entry

\* TypeOK in parts that the actions leave alone or not.
LoopTypes ==
  /\ flags \subseteq {Read, Write}
  /\ pc \in {"poll", "events", "handler", "callback", "complete", "tasks"}
  /\ pc \in {"poll", "tasks"} => flags = {}
  /\ taskings # <<>> => pc \in {"tasks", "callback", "complete"} /\ flags = {}
  /\ taskings \in Seq(Task)
QueueTypes == tasks \in Seq(Task) /\ serverTasks \in Nat /\ inMap \in BOOLEAN
ConnTypes ==
  /\ writing \in BOOLEAN /\ fin \in BOOLEAN /\ stray \in BOOLEAN /\ filled \in BOOLEAN
  /\ state \in {"kConnecting", "kConnected", "kDisconnecting", "kDisconnected"}
  /\ output \in Seq(Part) /\ wire \in Seq(Part) /\ accepted \in Seq(Part)
  /\ events \in Table
UserTypes ==
  /\ sameLoop \in BOOLEAN /\ holders \subseteq User
  /\ userPc \in [User -> {"idle", "shutdown", "forceClose"}] /\ unsent \subseteq Data
PeerTypes ==
  /\ inbound \in 0..MaxInbound /\ peerOpen \in BOOLEAN

LEMMA TypeParts == TypeInv <=> LoopTypes /\ QueueTypes /\ ConnTypes /\ UserTypes /\ PeerTypes
BY Zenon DEF TypeInv, TypeOK, LoopTypes, QueueTypes, ConnTypes, UserTypes, PeerTypes, Table, Entry

LEMMA MessageTyped == ASSUME TypeInv, TakeMessage
                      PROVE  NextMessage \in Data /\ unsent' \subseteq Data
BY DEF TypeInv, TypeOK, TakeMessage, NextMessage

\* What code on the connection's loop may call.
LEMMA CallTypes ==
  ASSUME TypeInv, NEW ops, CallFromLoop(ops)
  PROVE  /\ QueueTypes' /\ ConnTypes' /\ unsent' \subseteq Data
         /\ KeepsEntry /\ inMap' = inMap /\ serverTasks' = serverTasks
         /\ state' = "kConnecting" <=> state = "kConnecting"
         /\ state = "kConnecting" => Queues({"writeComplete"})
         /\ Queues({"writeComplete", "close"})
         /\ DataInv => DataInv'
<1>0. QueueTypes /\ ConnTypes /\ unsent \subseteq Data /\ TypeOK
  BY TypeParts DEF UserTypes, TypeInv
<1>1. CASE SendNow
  <2>1. NextMessage \in Data /\ unsent' \subseteq Data
    BY <1>1, MessageTyped DEF SendNow
  <2> DEFINE m == NextMessage
  <2>2. m \in Data /\ SendInLoop(m) /\ fin' = fin
    BY <1>1, <2>1 DEF SendNow
  <2> HIDE DEF m
  <2>3. /\ state' = state /\ KeepsEntry /\ Queues({"writeComplete"})
        /\ writing' \in BOOLEAN /\ stray' \in BOOLEAN /\ filled' \in BOOLEAN
        /\ output' \in Seq(Part) /\ wire' \in Seq(Part) /\ accepted' \in Seq(Part)
        /\ DataInv => DataInv'
    BY <1>0, <2>2, SendInLoopEffects
  <2>4. inMap' = inMap /\ serverTasks' = serverTasks /\ fin' = fin
    BY <1>1 DEF SendNow, CallFromLoop, ownerVars
  <2>5. tasks' \in Seq(Task) /\ Queues({"writeComplete", "close"})
    <3>1. tasks' \in Seq(Task)
      BY <1>0, <2>3, QueuesTyped DEF QueueTypes
    <3> QED
      BY <2>3, <3>1 DEF Queues
  <2>6. QueueTypes'
    BY <1>0, <2>4, <2>5 DEF QueueTypes
  <2>7. ConnTypes'
    BY <1>0, <2>3, <2>4, Zenon DEF ConnTypes, KeepsEntry
  <2> QED
    BY <2>1, <2>3, <2>4, <2>5, <2>6, <2>7
<1>2. CASE ShutdownNow
  <2>1. /\ state = "kConnected" /\ state' = "kDisconnecting" /\ fin' = (fin \/ ~writing)
        /\ UNCHANGED <<writing, output, events, tasks, serverTasks, wire, stray, filled, accepted, unsent, inMap>>
    BY <1>2 DEF ShutdownNow, ShutdownInLoop, CallFromLoop, ownerVars, queueVars
  <2>2. QueueTypes'
    BY <1>0, <2>1 DEF QueueTypes
  <2>3. ConnTypes'
    BY <1>0, <2>1 DEF ConnTypes
  <2>4. KeepsEntry
    BY <1>0, <2>1 DEF KeepsEntry, ConnTypes
  <2>5. DataInv => DataInv'
    BY <2>1 DEF DataInv, SentInOrder
  <2> QED
    BY <1>0, <2>1, <2>2, <2>3, <2>4, <2>5 DEF Queues
<1>3. CASE ForceCloseNow
  <2>1. /\ state = "kConnected" /\ state' = "kDisconnecting" /\ Queue("close")
        /\ UNCHANGED <<writing, output, events, serverTasks, fin, wire, stray, filled, accepted, unsent, inMap>>
    BY <1>3 DEF ForceCloseNow, CallFromLoop, ownerVars, outVars
  <2>2. Queues({"close"})
    BY <2>1, QueueQueues
  <2>3. tasks' \in Seq(Task) /\ Queues({"writeComplete", "close"})
    <3>1. tasks' \in Seq(Task)
      BY <1>0, <2>2, QueuesTyped DEF QueueTypes
    <3> QED
      BY <2>2, <3>1 DEF Queues
  <2>4. QueueTypes'
    BY <1>0, <2>1, <2>3 DEF QueueTypes
  <2>5. ConnTypes'
    BY <1>0, <2>1 DEF ConnTypes
  <2>6. KeepsEntry
    BY <1>0, <2>1 DEF KeepsEntry, ConnTypes
  <2>7. DataInv => DataInv'
    BY <2>1 DEF DataInv, SentInOrder
  <2> QED
    BY <1>0, <2>1, <2>3, <2>4, <2>5, <2>6, <2>7
<1> QED
  BY <1>1, <1>2, <1>3 DEF CallFromLoop

LEMMA NextTypes ==
  ASSUME TypeInv, [Next]_vars
  PROVE  TypeInv' /\ (DataInv => DataInv')
<1> DEFINE Done == /\ LoopTypes' /\ QueueTypes' /\ ConnTypes' /\ UserTypes' /\ PeerTypes'
                   /\ DataInv => DataInv'
<1> SUFFICES Done
  BY Zenon DEF TypeInv, TypeOK, LoopTypes, QueueTypes, ConnTypes, UserTypes, PeerTypes, Table, Entry
<1>0. TypeOK /\ LoopTypes /\ QueueTypes /\ ConnTypes /\ UserTypes /\ PeerTypes
  BY TypeParts DEF TypeInv
<1>1. ASSUME UNCHANGED <<queueVars, connVars, outVars, inMap>>
      PROVE  QueueTypes' /\ ConnTypes' /\ (DataInv => DataInv')
  <2>1. QueueTypes'
    BY <1>0, <1>1 DEF QueueTypes, queueVars
  <2>2. ConnTypes'
    BY <1>0, <1>1 DEF ConnTypes, connVars, outVars
  <2>3. DataInv => DataInv'
    BY <1>1 DEF DataInv, SentInOrder, connVars, outVars
  <2> QED
    BY <2>1, <2>2, <2>3
<1>2. ASSUME UNCHANGED loopVars PROVE LoopTypes'
  BY <1>0, <1>2 DEF LoopTypes, loopVars
<1>3. ASSUME UNCHANGED <<sameLoop, holders, userPc, unsent>> PROVE UserTypes'
  BY <1>0, <1>3 DEF UserTypes
<1>4. ASSUME UNCHANGED netVars PROVE PeerTypes'
  BY <1>0, <1>4 DEF PeerTypes, netVars
<1>5. CASE UNCHANGED vars
  BY <1>1, <1>2, <1>3, <1>4, <1>5 DEF vars, ownerVars
<1>6. CASE PollWait \/ EnterHandler \/ EndHandler \/ EndTasks \/ StartCompleteTask \/ WriteComplete \/ EndCallback
  <2>1. UNCHANGED <<sameLoop, queueVars, connVars, netVars, outVars, ownerVars, userPc, unsent>>
    BY <1>6 DEF PollWait, EnterHandler, EndHandler, EndTasks, StartCompleteTask, WriteComplete, EndCallback
  <2>2. LoopTypes'
    <3>1. CASE PollWait
      <4>1. flags' \subseteq {Read, Write}
        <5>1. Interest(events, ConnFd) \subseteq {Read, Write}
          BY <1>0 DEF ConnTypes, Interest, HasEvent, Table, Entry
        <5> QED
          BY <3>1, <5>1 DEF PollWait
      <4> QED
        BY <1>0, <3>1, <4>1 DEF PollWait, LoopTypes
    <3>2. CASE EnterHandler \/ EndHandler
      BY <1>0, <3>2 DEF EnterHandler, EndHandler, LoopTypes
    <3>3. CASE EndTasks \/ StartCompleteTask \/ WriteComplete
      BY <1>0, <3>3 DEF EndTasks, StartCompleteTask, WriteComplete, AtTask, LoopTypes
    <3>4. CASE EndCallback
      <4>1. CASE taskings # <<>>
        <5>1. Tail(taskings) \in Seq(Task)
          <6> HIDE DEF Task
          <6> QED
            BY <1>0, <4>1, Dequeued DEF LoopTypes
        <5> QED
          BY <1>0, <3>4, <4>1, <5>1 DEF EndCallback, LoopTypes
      <4>2. CASE taskings = <<>>
        BY <1>0, <3>4, <4>2 DEF EndCallback, LoopTypes
      <4> QED
        BY <4>1, <4>2
    <3> QED
      BY <1>6, <3>1, <3>2, <3>3, <3>4
  <2> QED
    BY <1>1, <1>3, <1>4, <2>1, <2>2 DEF ownerVars
<1>7. CASE SwapTasks
  <2>1. UNCHANGED <<sameLoop, flags, serverTasks, connVars, netVars, outVars, ownerVars, userPc, unsent>>
    BY <1>7 DEF SwapTasks
  <2>2. LoopTypes'
    BY <1>0, <1>7 DEF SwapTasks, LoopTypes, QueueTypes
  <2>3. QueueTypes'
    <3>1. tasks' = <<>>
      BY <1>7 DEF SwapTasks
    <3>2. tasks' \in Seq(Task)
      <4> HIDE DEF Task
      <4> QED
        BY <3>1
    <3> QED
      BY <1>0, <2>1, <3>2 DEF QueueTypes, ownerVars
  <2>4. ConnTypes'
    BY <1>0, <2>1 DEF ConnTypes, connVars, outVars
  <2>5. DataInv => DataInv'
    BY <2>1 DEF DataInv, SentInOrder, connVars, outVars
  <2> QED
    BY <1>3, <1>4, <2>1, <2>2, <2>3, <2>4, <2>5 DEF ownerVars
<1>8. CASE HandleRead
  <2>1. UNCHANGED <<sameLoop, taskings, writing, output, peerOpen, outVars, holders, userPc, unsent>>
    BY <1>8 DEF HandleRead
  <2>2. DataInv => DataInv'
    BY <2>1 DEF DataInv, SentInOrder, outVars
  <2>0. inbound' \in 0..MaxInbound
    BY <1>0, <1>8, DataAssumption DEF HandleRead, ReadReturns, ReadFails, PeerTypes
  <2>a. flags' \subseteq {Read, Write} /\ pc = "handler"
    BY <1>0, <1>8 DEF HandleRead, LoopTypes
  <2>3. CASE UNCHANGED <<state, events, inMap, queueVars>> /\ pc' \in {"callback", pc}
    <3>1. LoopTypes'
      BY <1>0, <2>1, <2>3, <2>a DEF LoopTypes
    <3>2. PeerTypes'
      BY <1>0, <2>1, <2>0 DEF PeerTypes
    <3> QED
      BY <1>1, <1>3, <2>1, <2>2, <2>3, <3>1, <3>2 DEF connVars
  <2>4. CASE HandleClose /\ UNCHANGED <<pc, inbound>>
    <3>1. /\ state' \in {state, "kDisconnected"} /\ KeepsEntry
          /\ Queues({"destroy"}) /\ serverTasks' \in Nat /\ inMap' \in BOOLEAN
      BY <1>0, <2>4, HandleCloseEffects
    <3>2. QueueTypes'
      BY <1>0, <3>1, QueuesTyped DEF QueueTypes
    <3>3. ConnTypes'
      BY <1>0, <2>1, <3>1 DEF ConnTypes, KeepsEntry, outVars
    <3>4. LoopTypes'
      BY <1>0, <2>1, <2>4, <2>a DEF LoopTypes
    <3> QED
      BY <1>3, <1>4, <2>1, <2>2, <2>4, <3>2, <3>3, <3>4 DEF netVars
  <2> QED
    BY <1>8, <2>3, <2>4 DEF HandleRead, ReadReturns, ReadFails
<1>9. CASE HandleWrite
  <2>1. UNCHANGED <<sameLoop, pc, taskings, serverTasks, netVars, accepted, ownerVars, userPc, unsent>> /\ flags' = {} /\ pc = "handler"
    BY <1>9 DEF HandleWrite
  <2>2. /\ state' = state /\ KeepsEntry /\ Queues({"writeComplete"})
        /\ writing' \in BOOLEAN /\ fin' \in BOOLEAN /\ stray' \in BOOLEAN /\ filled' \in BOOLEAN
        /\ output' \in Seq(Part) /\ wire' \in Seq(Part) /\ accepted' \in Seq(Part)
        /\ DataInv => DataInv'
    BY <1>0, <1>9, HandleWriteEffects
  <2>3. QueueTypes'
    BY <1>0, <2>1, <2>2, QueuesTyped DEF QueueTypes, ownerVars
  <2>4. ConnTypes'
    BY <1>0, <2>2, Zenon DEF ConnTypes, KeepsEntry
  <2>5. LoopTypes'
    BY <1>0, <2>1 DEF LoopTypes
  <2> QED
    BY <1>3, <1>4, <2>1, <2>2, <2>3, <2>4, <2>5 DEF ownerVars
<1>10. CASE CompleteConnect
  <2>1. UNCHANGED <<sameLoop, flags, taskings, queueVars, writing, output, netVars, outVars, ownerVars, userPc, unsent>>
    BY <1>10 DEF CompleteConnect
  <2>2. LoopTypes'
    BY <1>0, <1>10 DEF CompleteConnect, LoopTypes
  <2>3. events' \in Table
    BY <1>0, <1>10, TableAdded DEF CompleteConnect, ConnTypes
  <2>4. ConnTypes'
    BY <1>0, <1>10, <2>1, <2>3 DEF CompleteConnect, ConnTypes, outVars
  <2>5. QueueTypes'
    BY <1>0, <2>1 DEF QueueTypes, queueVars, ownerVars
  <2>6. DataInv => DataInv'
    BY <2>1 DEF DataInv, SentInOrder, outVars
  <2> QED
    BY <1>3, <1>4, <2>1, <2>2, <2>4, <2>5, <2>6 DEF ownerVars
<1>11. CASE RunOtherTask
  <2>0. taskings # <<>> /\ Head(taskings) \in Task /\ Tail(taskings) \in Seq(Task)
    <3>1. taskings # <<>> /\ taskings \in Seq(Task)
      BY <1>0, <1>11 DEF RunOtherTask, AtTask, LoopTypes
    <3> HIDE DEF Task
    <3> QED
      BY <3>1, Dequeued
  <2>1. /\ taskings' = Tail(taskings) /\ pc = "tasks"
        /\ UNCHANGED <<sameLoop, pc, flags, netVars, holders, userPc, unsent>>
    BY <1>11 DEF RunOtherTask, AtTask
  <2>2. LoopTypes'
    BY <1>0, <2>0, <2>1 DEF LoopTypes
  <2>3. CASE AtTask("send") /\ SendInLoop(Head(taskings)[2]) /\ UNCHANGED <<serverTasks, fin, inMap>>
    <3> DEFINE m == Head(taskings)[2]
    <3>1. m \in Data
      BY <2>0, <2>3 DEF Task, AtTask
    <3>2. SendInLoop(m) /\ fin' = fin
      BY <2>3
    <3> HIDE DEF m
    <3>3. /\ state' = state /\ KeepsEntry /\ Queues({"writeComplete"})
          /\ writing' \in BOOLEAN /\ stray' \in BOOLEAN /\ filled' \in BOOLEAN
          /\ output' \in Seq(Part) /\ wire' \in Seq(Part) /\ accepted' \in Seq(Part)
          /\ DataInv => DataInv'
      BY <1>0, <3>1, <3>2, SendInLoopEffects
    <3>4. QueueTypes'
      BY <1>0, <2>3, <3>3, QueuesTyped DEF QueueTypes
    <3>5. ConnTypes'
      BY <1>0, <3>2, <3>3, Zenon DEF ConnTypes, KeepsEntry
    <3> QED
      BY <1>3, <1>4, <2>1, <2>2, <3>3, <3>4, <3>5
  <2>4. CASE ShutdownInLoop /\ UNCHANGED <<queueVars, connVars, wire, stray, filled, accepted, inMap>>
    <3>1. QueueTypes'
      BY <1>0, <2>4 DEF QueueTypes, queueVars
    <3>2. ConnTypes'
      BY <1>0, <2>4 DEF ConnTypes, connVars, ShutdownInLoop
    <3>3. DataInv => DataInv'
      BY <2>4 DEF DataInv, SentInOrder, connVars, ShutdownInLoop
    <3> QED
      BY <1>3, <1>4, <2>1, <2>2, <3>1, <3>2, <3>3
  <2>5. CASE HandleClose /\ UNCHANGED <<writing, output, outVars>>
    <3>1. /\ state' \in {state, "kDisconnected"} /\ KeepsEntry
          /\ Queues({"destroy"}) /\ serverTasks' \in Nat /\ inMap' \in BOOLEAN
      BY <1>0, <2>5, HandleCloseEffects
    <3>2. QueueTypes'
      BY <1>0, <3>1, QueuesTyped DEF QueueTypes
    <3>3. ConnTypes'
      BY <1>0, <2>5, <3>1 DEF ConnTypes, KeepsEntry, outVars
    <3>4. DataInv => DataInv'
      BY <2>5 DEF DataInv, SentInOrder, outVars
    <3> QED
      BY <1>3, <1>4, <2>1, <2>2, <3>2, <3>3, <3>4
  <2>6. CASE /\ events' = AfterDeleteFd(events, ConnFd)
             /\ UNCHANGED <<queueVars, state, writing, output, outVars, inMap>>
    <3>1. events' \in Table
      BY <1>0, <2>6, TableEnds DEF ConnTypes
    <3>2. QueueTypes'
      BY <1>0, <2>6 DEF QueueTypes, queueVars
    <3>3. ConnTypes'
      BY <1>0, <2>6, <3>1 DEF ConnTypes, outVars
    <3>4. DataInv => DataInv'
      BY <2>6 DEF DataInv, SentInOrder, outVars
    <3> QED
      BY <1>3, <1>4, <2>1, <2>2, <3>2, <3>3, <3>4
  <2> QED
    BY <1>11, <2>3, <2>4, <2>5, <2>6 DEF RunOtherTask
<1>12. CASE CallFromCallback \/ CallFromLoopUser
  <2>1. PICK ops \in {CallbackOps, LoopOps} : CallFromLoop(ops)
    BY <1>12 DEF CallFromCallback, CallFromLoopUser
  <2>2. UNCHANGED <<sameLoop, loopVars, netVars, holders, userPc>>
    BY <2>1 DEF CallFromLoop, ownerVars
  <2>3. /\ QueueTypes' /\ ConnTypes' /\ unsent' \subseteq Data
        /\ DataInv => DataInv'
    BY <2>1, CallTypes
  <2>4. UserTypes'
    BY <1>0, <2>2, <2>3 DEF UserTypes
  <2> QED
    BY <1>2, <1>4, <2>2, <2>3, <2>4
<1>13. ASSUME NEW u \in User, SendFromThread(u)
       PROVE  Done
  <2>1. NextMessage \in Data /\ unsent' \subseteq Data
    BY <1>13, MessageTyped DEF SendFromThread
  <2>2. UNCHANGED <<sameLoop, loopVars, serverTasks, connVars, netVars, outVars, ownerVars, userPc>>
    BY <1>13 DEF SendFromThread
  <2>3. QueueTypes'
    <3> DEFINE t == <<"send", NextMessage>>
    <3>1. t \in Task
      BY <2>1 DEF Task
    <3>2. tasks' = Append(tasks, t)
      BY <1>13 DEF SendFromThread
    <3> HIDE DEF t, Task
    <3>3. tasks' \in Seq(Task)
      BY <1>0, <3>1, <3>2 DEF QueueTypes
    <3> QED
      BY <1>0, <2>2, <3>3 DEF QueueTypes, ownerVars
  <2>4. ConnTypes'
    BY <1>0, <2>2 DEF ConnTypes, connVars, outVars
  <2>5. DataInv => DataInv'
    BY <2>2 DEF DataInv, SentInOrder, connVars, outVars
  <2>6. UserTypes'
    BY <1>0, <2>1, <2>2 DEF UserTypes, ownerVars
  <2> QED
    BY <1>2, <1>4, <2>2, <2>3, <2>4, <2>5, <2>6
<1>14. ASSUME NEW u \in User, SetStateAndQueue(u)
       PROVE  Done
  <2>1. /\ state' = "kDisconnecting"
        /\ UNCHANGED <<sameLoop, loopVars, serverTasks, writing, output, events, netVars, outVars, ownerVars, unsent>>
        /\ userPc' = [userPc EXCEPT ![u] = "idle"]
    BY <1>14 DEF SetStateAndQueue
  <2>2. Queue("shutdown") \/ Queue("close")
    BY <1>14 DEF SetStateAndQueue
  <2>3. tasks' \in Seq(Task)
    BY <1>0, <2>2, QueueQueues, QueuesTyped DEF QueueTypes
  <2>4. QueueTypes'
    BY <1>0, <2>1, <2>3 DEF QueueTypes, ownerVars
  <2>5. ConnTypes'
    BY <1>0, <2>1 DEF ConnTypes, outVars
  <2>6. DataInv => DataInv'
    BY <2>1 DEF DataInv, SentInOrder, outVars
  <2>7. UserTypes'
    BY <1>0, <2>1 DEF UserTypes, ownerVars
  <2> QED
    BY <1>2, <1>4, <2>1, <2>4, <2>5, <2>6, <2>7
<1>15. ASSUME NEW u \in User, NEW op \in {"shutdown", "forceClose"}, TestState(u, op)
       PROVE  Done
  <2>1. UNCHANGED <<sameLoop, loopVars, queueVars, connVars, netVars, outVars, ownerVars, unsent>>
    BY <1>15 DEF TestState
  <2>2. UserTypes'
    BY <1>0, <1>15, <2>1 DEF UserTypes, TestState, ownerVars
  <2> QED
    BY <1>1, <1>2, <1>4, <2>1, <2>2 DEF ownerVars
<1>16. ASSUME NEW u \in User, TakeReference(u) \/ DropReference(u)
       PROVE  Done
  <2>1. UNCHANGED <<sameLoop, loopVars, queueVars, connVars, netVars, outVars, inMap, userPc, unsent>>
    BY <1>16 DEF TakeReference, DropReference
  <2>2. UserTypes'
    BY <1>0, <1>16, <2>1 DEF UserTypes, TakeReference, DropReference
  <2> QED
    BY <1>1, <1>2, <1>4, <2>1, <2>2
<1>17. CASE ServerRemoves
  <2>1. /\ serverTasks > 0 /\ serverTasks' = serverTasks - 1 /\ inMap' = FALSE /\ Queue("destroy")
        /\ UNCHANGED <<sameLoop, loopVars, connVars, netVars, outVars, holders, userPc, unsent>>
    BY <1>17 DEF ServerRemoves, RemoveConnectionInLoop
  <2>2. tasks' \in Seq(Task)
    BY <1>0, <2>1, QueueQueues, QueuesTyped DEF QueueTypes
  <2>3. serverTasks' \in Nat
    BY <1>0, <2>1 DEF QueueTypes
  <2>4. QueueTypes'
    BY <2>1, <2>2, <2>3 DEF QueueTypes
  <2>5. ConnTypes'
    BY <1>0, <2>1 DEF ConnTypes, connVars, outVars
  <2>6. DataInv => DataInv'
    BY <2>1 DEF DataInv, SentInOrder, connVars, outVars
  <2> QED
    BY <1>2, <1>3, <1>4, <2>1, <2>4, <2>5, <2>6
<1>18. CASE PeerSends \/ PeerCloses
  <2>1. UNCHANGED <<sameLoop, loopVars, queueVars, connVars, outVars, ownerVars, userPc, unsent>>
    BY <1>18 DEF PeerSends, PeerCloses
  <2>2. PeerTypes'
    <3>1. CASE PeerSends
      <4>1. inbound \in 0..MaxInbound /\ MaxInbound \in Nat
        BY <1>0, DataAssumption DEF PeerTypes
      <4>2. inbound < MaxInbound /\ inbound' = inbound + 1
        BY <3>1 DEF PeerSends
      <4>3. inbound' \in 0..MaxInbound
        BY <4>1, <4>2
      <4> QED
        BY <1>0, <3>1, <4>3 DEF PeerTypes, PeerSends
    <3>2. CASE PeerCloses
      BY <1>0, <3>2 DEF PeerTypes, PeerCloses
    <3> QED
      BY <1>18, <3>1, <3>2
  <2> QED
    BY <1>1, <1>2, <1>3, <2>1, <2>2 DEF ownerVars
<1> QED
  BY <1>5, <1>6, <1>7, <1>8, <1>9, <1>10, <1>11, <1>12, <1>13, <1>14, <1>15, <1>16, <1>17, <1>18
     DEF Next, LoopStep, UserStep

\* What is written is in order whatever the rest does.
LEMMA InitData == Init => DataInv
<1> SUFFICES ASSUME Init PROVE DataInv
  OBVIOUS
<1>1. output = <<>> /\ wire = <<>> /\ accepted = <<>> /\ fin = FALSE
  BY DEF Init
<1>2. wire \o output = <<>>
  BY <1>1
<1> QED
  BY <1>1, <1>2 DEF DataInv, SentInOrder

\* The types of Connection, for any users, calls, messages and garbage.
THEOREM TypeCorrect == Spec => []TypeOK
<1>1. TypeInv /\ [Next]_vars => TypeInv'
  BY NextTypes
<1>2. TypeInv => TypeOK
  BY DEF TypeInv
<1> QED
  BY InitTypes, <1>1, <1>2, PTL DEF Spec

\* sendInLoop, handleWrite and shutdownInLoop: what write() and the output
\* buffer took reaches the socket in that order, once, or waits in the buffer,
\* although the buffer may refuse the tail of a message, a NUL byte may stop
\* handleWrite, and handleWrite may write on behind the buffer's blocks.
THEOREM AlwaysSentInOrder == Spec => []SentInOrder
<1>1. TypeInv /\ DataInv /\ [Next]_vars => (TypeInv /\ DataInv)'
  BY NextTypes
<1>2. DataInv => SentInOrder
  BY DEF DataInv
<1> QED
  BY InitTypes, InitData, <1>1, <1>2, PTL DEF Spec

\* The FIN follows everything that write() and the output buffer took:
\* writing_ is set for as long as something waits, and shutdownInLoop trusts
\* it.
THEOREM FinAlwaysAfterData == Spec => []FinAfterData
<1>1. TypeInv /\ DataInv /\ [Next]_vars => (TypeInv /\ DataInv)'
  BY NextTypes
<1>2. TypeInv /\ DataInv => FinAfterData
  <2> SUFFICES ASSUME TypeInv, DataInv, fin PROVE wire = accepted
    BY DEF FinAfterData
  <2>1. wire \in Seq(Part) /\ output = <<>> /\ wire \o output = accepted
    BY DEF TypeInv, TypeOK, DataInv, SentInOrder
  <2> HIDE DEF Part
  <2> QED
    BY <2>1, ConcatEmptySeq
<1> QED
  BY InitTypes, InitData, <1>1, <1>2, PTL DEF Spec
-----------------------------------------------------------------------------
(***************************************************************************)
(* Who keeps the connection for the raw pointer in the poll table: the     *)
(* Server's map, then the call queued on the Server's loop, then the task  *)
(* that deletes the descriptor.  The descriptor is added once, while the   *)
(* map holds the connection.                                               *)
(***************************************************************************)
Polled == HasEvent(events, ConnFd)

\* A handler or a callback runs for a registered descriptor or inside a task,
\* and that task is not connectDestroyed.
InsideHeld ==
  /\ pc = "handler" \/ flags # {} => Polled
  /\ pc = "callback" => Polled \/ taskings # <<>>
  /\ pc \in {"complete", "callback"} /\ taskings # <<>> => Head(taskings)[1] # "destroy"

\* Before completeConnect nobody has been told of the connection.
WhileConnecting ==
  state = "kConnecting" =>
    /\ inMap /\ serverTasks = 0 /\ ~Polled
    /\ \A u \in User : userPc[u] = "idle"
    /\ ~Holds(tasks, "close") /\ ~Holds(taskings, "close")

\* completeConnect runs once.
ConnectsOnce ==
  /\ CompleteFirst(tasks) /\ CompleteFirst(taskings)
  /\ Holds(tasks, "complete") => pc \in {"poll", "events"} /\ state = "kConnecting"
  /\ Holds(taskings, "complete") /\ pc = "tasks" => state = "kConnecting"
  /\ pc = "complete" => state = "kConnecting"

StillReferenced ==
  Polled => inMap \/ serverTasks > 0 \/ Holds(tasks, "destroy") \/ Holds(taskings, "destroy")

LifeInv == InsideHeld /\ WhileConnecting /\ ConnectsOnce /\ StillReferenced

LEMMA InitLife == Init => LifeInv
<1> SUFFICES ASSUME Init PROVE LifeInv
  OBVIOUS
<1>1. ~Polled
  BY DEF Init, Polled, HasEvent
<1>2. /\ pc \in {"poll", "complete"} /\ flags = {} /\ state = "kConnecting" /\ inMap /\ serverTasks = 0
      /\ taskings = <<>> /\ \A u \in User : userPc[u] = "idle"
  BY DEF Init
<1>3. CompleteFirst(taskings) /\ ~Holds(taskings, "complete") /\ ~Holds(taskings, "close")
  BY <1>2 DEF CompleteFirst, Holds
<1>4. /\ CompleteFirst(tasks) /\ ~Holds(tasks, "close")
      /\ Holds(tasks, "complete") => pc = "poll"
  BY DEF Init, CompleteFirst, Holds
<1> QED
  BY <1>1, <1>2, <1>3, <1>4 DEF LifeInv, InsideHeld, WhileConnecting, ConnectsOnce, StillReferenced

\* A call on the loop's thread, or a step that leaves the connection alone.
LEMMA CallLife ==
  ASSUME TypeInv, LifeInv, KeepsEntry, UNCHANGED <<loopVars, inMap, serverTasks>>,
         state' = "kConnecting" <=> state = "kConnecting",
         state = "kConnecting" => Queues({"writeComplete", "send"}) /\ userPc' = userPc,
         NEW ops \in {{"writeComplete", "close"}, {"send"}, {"shutdown", "close"}}, Queues(ops)
  PROVE  LifeInv'
<1>1. /\ tasks \in Seq(Task) /\ "complete" \notin ops
      /\ pc' = pc /\ flags' = flags /\ taskings' = taskings
      /\ Polled' <=> Polled
  BY DEF TypeInv, TypeOK, loopVars, KeepsEntry, Polled
<1>2. /\ \A op : (Holds(tasks, op) => Holds(tasks', op)) /\ (Holds(tasks', op) => Holds(tasks, op) \/ op \in ops)
      /\ CompleteFirst(tasks) => CompleteFirst(tasks')
  <2> HIDE DEF Task
  <2> QED
    BY <1>1, QueuesTyped
<1>3. InsideHeld'
  BY <1>1 DEF LifeInv, InsideHeld
<1>4. WhileConnecting'
  <2> SUFFICES ASSUME state' = "kConnecting" PROVE ~Holds(tasks', "close")
    BY <1>1 DEF LifeInv, WhileConnecting
  <2>1. Queues({"writeComplete", "send"}) /\ ~Holds(tasks, "close")
    BY DEF LifeInv, WhileConnecting
  <2>2. Holds(tasks', "close") => Holds(tasks, "close") \/ "close" \in {"writeComplete", "send"}
    <3> HIDE DEF Task
    <3> QED
      BY <1>1, <2>1, QueuesTyped
  <2> QED
    BY <2>1, <2>2
<1>5. ConnectsOnce'
  BY <1>1, <1>2 DEF LifeInv, ConnectsOnce
<1>6. StillReferenced'
  BY <1>1, <1>2 DEF LifeInv, StillReferenced
<1> QED
  BY <1>3, <1>4, <1>5, <1>6 DEF LifeInv

\* handleClose: the reference passes from the map to the queue.
LEMMA CloseLife ==
  ASSUME TypeInv, LifeInv, HandleClose, state # "kConnecting"
  PROVE  /\ state' # "kConnecting" /\ (Polled' <=> Polled)
         /\ Polled' => inMap' \/ serverTasks' > 0 \/ Holds(tasks', "destroy")
         /\ CompleteFirst(tasks') /\ ~Holds(tasks', "complete")
<1>1. KeepsEntry /\ Removes /\ Queues({"destroy"}) /\ (state' = "kConnecting" <=> state = "kConnecting")
  BY HandleCloseEffects DEF TypeInv
<1>2. tasks \in Seq(Task) /\ serverTasks \in Nat
  BY DEF TypeInv, TypeOK
<1>3. CompleteFirst(tasks') /\ ~Holds(tasks', "complete")
  <2> HIDE DEF Task
  <2>1. CompleteFirst(tasks) /\ ~Holds(tasks, "complete")
    BY DEF LifeInv, ConnectsOnce
  <2> QED
    BY <1>1, <1>2, <2>1, QueuesTyped
<1>4. serverTasks' > 0 \/ Holds(tasks', "destroy")
  <2>1. CASE serverTasks' = serverTasks + 1
    BY <1>2, <2>1
  <2>2. CASE tasks' = Append(tasks, <<"destroy", NoData>>)
    <3> DEFINE t == <<"destroy", NoData>>
    <3>1. t \in Task /\ t[1] = "destroy" /\ tasks' = Append(tasks, t)
      BY <2>2 DEF Task
    <3> HIDE DEF t, Task
    <3> QED
      BY <1>2, <3>1, HoldsQueued
  <2> QED
    BY <1>1, <2>1, <2>2 DEF Removes
<1> QED
  BY <1>1, <1>3, <1>4 DEF KeepsEntry, Polled

LEMMA NextLife ==
  ASSUME TypeInv, LifeInv, [Next]_vars
  PROVE  LifeInv'
<1>0. /\ tasks \in Seq(Task) /\ taskings \in Seq(Task) /\ serverTasks \in Nat /\ events \in Table
      /\ taskings # <<>> => flags = {} /\ pc \in {"tasks", "callback", "complete"}
      /\ pc \in {"poll", "tasks"} => flags = {}
  BY DEF TypeInv, TypeOK, Table, Entry
<1>1. ASSUME UNCHANGED <<loopVars, inMap, serverTasks, connVars, tasks, userPc>> PROVE LifeInv'
  <2>1. Queues({"send"}) /\ Queues({"writeComplete", "send"})
    BY <1>1 DEF Queues
  <2>2. KeepsEntry
    BY <1>0, <1>1 DEF KeepsEntry, connVars
  <2>3. state' = state
    BY <1>1 DEF connVars
  <2> QED
    BY <1>1, <2>1, <2>2, <2>3, CallLife
<1>2. ASSUME ~Holds(tasks, "complete"), state # "kConnecting", pc # "complete",
             UNCHANGED <<state, taskings, inMap, serverTasks, tasks>>, KeepsEntry, pc' \notin {"complete", "tasks"},
             InsideHeld'
      PROVE  LifeInv'
  <2>1. (Polled' <=> Polled)
    BY <1>2 DEF KeepsEntry, Polled
  <2>2. WhileConnecting' /\ ConnectsOnce' /\ StillReferenced'
    BY <1>2, <2>1 DEF LifeInv, WhileConnecting, ConnectsOnce, StillReferenced
  <2> QED
    BY <1>2, <2>2 DEF LifeInv
<1>3. CASE UNCHANGED vars
  BY <1>1, <1>3 DEF vars, queueVars, ownerVars
<1>4. CASE PollWait \/ EnterHandler \/ EndHandler \/ EndTasks
  <2>1. UNCHANGED <<sameLoop, taskings, queueVars, connVars, netVars, outVars, ownerVars, userPc, unsent>>
    BY <1>4 DEF PollWait, EnterHandler, EndHandler, EndTasks
  <2>2. Polled' <=> Polled
    BY <2>1 DEF connVars, Polled
  <2>3. InsideHeld'
    <3>1. CASE PollWait
      <4>1. pc' = "events" /\ flags' \subseteq Interest(events, ConnFd)
        BY <3>1 DEF PollWait
      <4> QED
        BY <2>2, <4>1 DEF InsideHeld, Interest, Polled
    <3>2. CASE EnterHandler
      BY <2>2, <3>2 DEF EnterHandler, InsideHeld, LifeInv
    <3>3. CASE EndHandler
      BY <2>2, <3>3 DEF EndHandler, InsideHeld, LifeInv
    <3>4. CASE EndTasks
      BY <2>2, <3>4, <1>0 DEF EndTasks, InsideHeld, LifeInv
    <3> QED
      BY <1>4, <3>1, <3>2, <3>3, <3>4
  <2>4. WhileConnecting' /\ StillReferenced'
    BY <2>1, <2>2 DEF LifeInv, WhileConnecting, StillReferenced, connVars, queueVars, ownerVars
  <2>5. ConnectsOnce'
    <3>1. Holds(tasks, "complete") => pc' \in {"poll", "events"} /\ state = "kConnecting"
      <4>1. ASSUME Holds(tasks, "complete") PROVE ~EnterHandler
        BY <4>1 DEF LifeInv, ConnectsOnce, WhileConnecting, InsideHeld, EnterHandler
      <4> QED
        BY <1>4, <4>1 DEF LifeInv, ConnectsOnce, PollWait, EndHandler, EndTasks
    <3>2. pc' \notin {"complete", "tasks"}
      BY <1>4 DEF PollWait, EnterHandler, EndHandler, EndTasks
    <3> QED
      BY <2>1, <3>1, <3>2 DEF LifeInv, ConnectsOnce, connVars, queueVars
  <2> QED
    BY <2>3, <2>4, <2>5 DEF LifeInv
<1>5. CASE StartCompleteTask \/ WriteComplete
  <2>1. /\ UNCHANGED <<flags, taskings, queueVars, connVars, inMap, userPc>>
        /\ pc = "tasks" /\ taskings # <<>> /\ flags = {}
    BY <1>0, <1>5 DEF StartCompleteTask, WriteComplete, AtTask, ownerVars
  <2>2. Polled' <=> Polled
    BY <2>1 DEF connVars, Polled
  <2>3. InsideHeld'
    BY <1>5, <2>1, <2>2 DEF InsideHeld, StartCompleteTask, WriteComplete, AtTask
  <2>4. WhileConnecting' /\ StillReferenced'
    BY <2>1, <2>2 DEF LifeInv, WhileConnecting, StillReferenced, connVars, queueVars
  <2>5. ConnectsOnce'
    <3>1. StartCompleteTask => Holds(taskings, "complete")
      <4> HIDE DEF Task
      <4>1. Holds(taskings, Head(taskings)[1])
        BY <1>0, <2>1, HoldsDequeued
      <4> QED
        BY <4>1 DEF StartCompleteTask, AtTask
    <3>2. pc' \in {"complete", "callback"} /\ (pc' = "complete" => StartCompleteTask)
      BY <1>5 DEF StartCompleteTask, WriteComplete
    <3> QED
      BY <2>1, <3>1, <3>2 DEF LifeInv, ConnectsOnce, connVars, queueVars
  <2> QED
    BY <2>3, <2>4, <2>5 DEF LifeInv
<1>6. CASE CompleteConnect
  <2>1. /\ UNCHANGED <<flags, taskings, queueVars, inMap, userPc>> /\ pc = "complete"
        /\ pc' = "callback" /\ state' = "kConnected"
    BY <1>6 DEF CompleteConnect, ownerVars
  <2>2. Polled'
    BY <1>0, <1>6, TableAdded DEF CompleteConnect, Polled
  <2>3. state = "kConnecting"
    BY <2>1 DEF LifeInv, ConnectsOnce
  <2>4. inMap
    BY <2>3 DEF LifeInv, WhileConnecting
  <2>5. InsideHeld' /\ WhileConnecting' /\ ConnectsOnce' /\ StillReferenced'
    BY <2>1, <2>2, <2>4 DEF LifeInv, InsideHeld, WhileConnecting, ConnectsOnce, StillReferenced, queueVars
  <2> QED
    BY <2>5 DEF LifeInv
<1>7. CASE EndCallback
  <2>1. /\ UNCHANGED <<flags, queueVars, connVars, inMap, userPc>> /\ pc = "callback"
        /\ IF taskings # <<>>
             THEN taskings' = Tail(taskings) /\ pc' = "tasks"
             ELSE UNCHANGED taskings /\ pc' = IF flags = {} THEN "events" ELSE "handler"
    BY <1>7 DEF EndCallback, ownerVars
  <2>2. Polled' <=> Polled
    BY <2>1 DEF connVars, Polled
  <2>3. CASE taskings = <<>>
    <3>1. taskings' = taskings /\ pc' \in {"events", "handler"} /\ (pc' = "handler" => flags # {})
      BY <2>1, <2>3
    <3>2. InsideHeld'
      BY <2>1, <2>2, <3>1 DEF LifeInv, InsideHeld
    <3>3. WhileConnecting' /\ StillReferenced' /\ ConnectsOnce'
      BY <2>1, <2>2, <3>1 DEF LifeInv, WhileConnecting, StillReferenced, ConnectsOnce, connVars, queueVars
    <3> QED
      BY <3>2, <3>3 DEF LifeInv
  <2>4. CASE taskings # <<>>
    <3>1. taskings' = Tail(taskings) /\ pc' = "tasks" /\ flags = {}
      BY <1>0, <2>1, <2>4
    <3>2. /\ Holds(taskings, "destroy") => Holds(taskings', "destroy")
          /\ Holds(taskings', "close") => Holds(taskings, "close")
          /\ ~Holds(taskings', "complete")
      <4>1. Head(taskings)[1] # "destroy" /\ CompleteFirst(taskings)
        BY <2>1, <2>4 DEF LifeInv, InsideHeld, ConnectsOnce
      <4> HIDE DEF Task
      <4> QED
        BY <1>0, <2>4, <3>1, <4>1, HoldsDequeued
    <3>3. InsideHeld'
      BY <2>1, <2>2, <3>1 DEF LifeInv, InsideHeld
    <3>4. WhileConnecting' /\ StillReferenced'
      BY <2>1, <2>2, <3>2 DEF LifeInv, WhileConnecting, StillReferenced, connVars, queueVars
    <3>5. ConnectsOnce'
      <4>1. CompleteFirst(taskings')
        BY <3>2 DEF CompleteFirst, Holds
      <4> QED
        BY <2>1, <3>1, <3>2, <4>1 DEF LifeInv, ConnectsOnce, connVars, queueVars
    <3> QED
      BY <3>3, <3>4, <3>5 DEF LifeInv
  <2> QED
    BY <2>3, <2>4
<1>8. CASE SwapTasks
  <2>1. /\ UNCHANGED <<flags, serverTasks, connVars, inMap, userPc>> /\ taskings' = tasks /\ tasks' = <<>>
        /\ pc = "events" /\ pc' = "tasks" /\ flags = {}
    BY <1>8 DEF SwapTasks, ownerVars
  <2>2. Polled' <=> Polled
    BY <2>1 DEF connVars, Polled
  <2>3. taskings = <<>> /\ \A op : ~Holds(taskings, op)
    BY <1>0, <2>1, HoldsNone
  <2>4. \A op : ~Holds(tasks', op) /\ (Holds(taskings', op) <=> Holds(tasks, op))
    BY <2>1, HoldsNone
  <2>5. CompleteFirst(tasks') /\ (CompleteFirst(tasks) => CompleteFirst(taskings'))
    BY <2>1 DEF CompleteFirst
  <2>6. InsideHeld'
    BY <2>1, <2>2 DEF LifeInv, InsideHeld
  <2>7. WhileConnecting' /\ StillReferenced'
    BY <2>1, <2>2, <2>3, <2>4 DEF LifeInv, WhileConnecting, StillReferenced, connVars
  <2>8. ConnectsOnce'
    BY <2>1, <2>4, <2>5 DEF LifeInv, ConnectsOnce, connVars
  <2> QED
    BY <2>6, <2>7, <2>8 DEF LifeInv
<1>9. CASE HandleRead
  <2>1. /\ UNCHANGED <<taskings, userPc>> /\ pc = "handler" /\ flags' \subseteq flags
        /\ Polled /\ state # "kConnecting" /\ taskings = <<>>
    BY <1>0, <1>9 DEF HandleRead, LifeInv, InsideHeld, WhileConnecting
  <2>2. CASE pc' \in {"callback", pc} /\ UNCHANGED <<state, events, inMap, queueVars>>
    <3>1. KeepsEntry /\ InsideHeld'
      BY <1>0, <2>1, <2>2 DEF KeepsEntry, InsideHeld, Polled
    <3>2. ~Holds(tasks, "complete")
      BY <2>1 DEF LifeInv, ConnectsOnce
    <3> QED
      BY <1>2, <2>1, <2>2, <3>1, <3>2 DEF queueVars
  <2>3. CASE HandleClose /\ UNCHANGED pc
    <3>1. /\ state' # "kConnecting" /\ (Polled' <=> Polled)
          /\ Polled' => inMap' \/ serverTasks' > 0 \/ Holds(tasks', "destroy")
          /\ CompleteFirst(tasks') /\ ~Holds(tasks', "complete")
      BY <2>1, <2>3, CloseLife
    <3>2. InsideHeld'
      BY <2>1, <2>3, <3>1 DEF InsideHeld
    <3>3. WhileConnecting' /\ StillReferenced'
      BY <3>1 DEF WhileConnecting, StillReferenced
    <3>4. ConnectsOnce'
      BY <2>1, <2>3, <3>1 DEF LifeInv, ConnectsOnce
    <3> QED
      BY <3>2, <3>3, <3>4 DEF LifeInv
  <2> QED
    BY <1>9, <2>2, <2>3 DEF HandleRead, ReadReturns, ReadFails
<1>10. CASE HandleWrite
  <2>1. UNCHANGED <<taskings, pc, serverTasks, inMap, userPc>> /\ flags' = {} /\ pc = "handler"
    BY <1>10 DEF HandleWrite, ownerVars
  <2>2. state' = state /\ KeepsEntry /\ Queues({"writeComplete"})
    BY <1>10, HandleWriteEffects DEF TypeInv
  <2>3. Polled /\ Polled' /\ state # "kConnecting" /\ taskings = <<>>
    BY <1>0, <2>1, <2>2 DEF LifeInv, InsideHeld, WhileConnecting, KeepsEntry, Polled
  <2>4. /\ \A op : (Holds(tasks, op) => Holds(tasks', op)) /\ (Holds(tasks', op) => Holds(tasks, op) \/ op \in {"writeComplete"})
        /\ CompleteFirst(tasks) => CompleteFirst(tasks')
    <3> HIDE DEF Task
    <3> QED
      BY <1>0, <2>2, QueuesTyped
  <2>5. InsideHeld'
    BY <2>1, <2>3 DEF InsideHeld
  <2>6. WhileConnecting' /\ StillReferenced' /\ ConnectsOnce'
    BY <2>1, <2>2, <2>3, <2>4 DEF LifeInv, WhileConnecting, StillReferenced, ConnectsOnce
  <2> QED
    BY <2>5, <2>6 DEF LifeInv
<1>11. CASE RunOtherTask
  <2>1. /\ taskings' = Tail(taskings) /\ taskings # <<>> /\ pc = "tasks" /\ pc' = pc /\ flags' = flags /\ flags = {}
        /\ userPc' = userPc
    BY <1>0, <1>11 DEF RunOtherTask, AtTask
  <2>2. InsideHeld'
    BY <2>1 DEF InsideHeld
  <2>3. /\ \A op : Holds(taskings', op) => Holds(taskings, op)
        /\ ~AtTask("destroy") /\ Holds(taskings, "destroy") => Holds(taskings', "destroy")
        /\ CompleteFirst(taskings') /\ ~Holds(taskings', "complete")
        /\ AtTask("close") => Holds(taskings, "close")
    <3>1. CompleteFirst(taskings)
      BY DEF LifeInv, ConnectsOnce
    <3> HIDE DEF Task
    <3>2. /\ \A op : Holds(taskings', op) => Holds(taskings, op)
          /\ Holds(taskings, "destroy") => Holds(taskings', "destroy") \/ Head(taskings)[1] = "destroy"
          /\ ~Holds(taskings', "complete") /\ Holds(taskings, Head(taskings)[1])
      BY <1>0, <2>1, <3>1, HoldsDequeued
    <3>3. CompleteFirst(taskings')
      BY <3>2 DEF CompleteFirst, Holds
    <3> QED
      BY <2>1, <3>2, <3>3 DEF AtTask
  <2>4. ASSUME UNCHANGED <<state, serverTasks, inMap>>, KeepsEntry, Queues({"writeComplete"}), ~AtTask("destroy")
        PROVE  LifeInv'
    <3>1. Polled' <=> Polled
      BY <2>4 DEF KeepsEntry, Polled
    <3>2. /\ \A op : (Holds(tasks, op) => Holds(tasks', op)) /\ (Holds(tasks', op) => Holds(tasks, op) \/ op \in {"writeComplete"})
          /\ CompleteFirst(tasks) => CompleteFirst(tasks')
      <4> HIDE DEF Task
      <4> QED
        BY <1>0, <2>4, QueuesTyped
    <3>3. WhileConnecting'
      BY <2>1, <2>3, <2>4, <3>1, <3>2 DEF LifeInv, WhileConnecting
    <3>4. ConnectsOnce'
      BY <2>1, <2>3, <2>4, <3>2 DEF LifeInv, ConnectsOnce
    <3>5. StillReferenced'
      BY <2>3, <2>4, <3>1, <3>2 DEF LifeInv, StillReferenced
    <3> QED
      BY <2>2, <3>3, <3>4, <3>5 DEF LifeInv
  <2>5. CASE AtTask("send") /\ SendInLoop(Head(taskings)[2]) /\ UNCHANGED <<serverTasks, fin, inMap>>
    <3> DEFINE m == Head(taskings)[2]
    <3>1. m \in Data
      <4>1. Head(taskings) \in Task
        <5> HIDE DEF Task
        <5> QED
          BY <1>0, <2>1, Dequeued
      <4> QED
        BY <2>5, <4>1 DEF Task, AtTask
    <3>2. SendInLoop(m) /\ fin' = fin
      BY <2>5
    <3> HIDE DEF m
    <3>3. state' = state /\ KeepsEntry /\ Queues({"writeComplete"})
      BY <3>1, <3>2, SendInLoopEffects DEF TypeInv
    <3> QED
      BY <2>4, <2>5, <3>3 DEF AtTask
  <2>6. CASE AtTask("shutdown") /\ UNCHANGED <<queueVars, connVars, inMap>>
    <3>1. KeepsEntry /\ Queues({"writeComplete"})
      BY <1>0, <2>6 DEF KeepsEntry, Queues, connVars, queueVars
    <3> QED
      BY <2>4, <2>6, <3>1 DEF connVars, queueVars, AtTask
  <2>7. CASE AtTask("close") /\ HandleClose
    <3>1. state # "kConnecting"
      BY <2>3, <2>7 DEF LifeInv, WhileConnecting
    <3>2. /\ state' # "kConnecting" /\ (Polled' <=> Polled)
          /\ Polled' => inMap' \/ serverTasks' > 0 \/ Holds(tasks', "destroy")
          /\ CompleteFirst(tasks') /\ ~Holds(tasks', "complete")
      BY <2>7, <3>1, CloseLife
    <3>3. WhileConnecting' /\ StillReferenced'
      BY <3>2 DEF WhileConnecting, StillReferenced
    <3>4. ConnectsOnce'
      BY <2>1, <2>3, <3>2 DEF ConnectsOnce
    <3> QED
      BY <2>2, <3>3, <3>4 DEF LifeInv
  <2>8. CASE /\ AtTask("destroy") /\ events' = AfterDeleteFd(events, ConnFd)
             /\ UNCHANGED <<queueVars, state, inMap>>
    <3>1. ~Polled'
      BY <1>0, <2>8, TableEnds DEF Polled
    <3>2. WhileConnecting'
      BY <2>1, <2>3, <2>8, <3>1 DEF LifeInv, WhileConnecting, queueVars
    <3>3. ConnectsOnce'
      BY <2>1, <2>3, <2>8 DEF LifeInv, ConnectsOnce, queueVars
    <3>4. StillReferenced'
      BY <3>1 DEF StillReferenced
    <3> QED
      BY <2>2, <3>2, <3>3, <3>4 DEF LifeInv
  <2> QED
    BY <1>11, <2>5, <2>6, <2>7, <2>8 DEF RunOtherTask
<1>12. CASE CallFromCallback \/ CallFromLoopUser
  <2>1. PICK ops \in {CallbackOps, LoopOps} : CallFromLoop(ops)
    BY <1>12 DEF CallFromCallback, CallFromLoopUser
  <2>2. UNCHANGED <<loopVars, inMap, userPc>>
    BY <2>1 DEF CallFromLoop, ownerVars
  <2>3. /\ KeepsEntry /\ serverTasks' = serverTasks
        /\ state' = "kConnecting" <=> state = "kConnecting"
        /\ state = "kConnecting" => Queues({"writeComplete"})
        /\ Queues({"writeComplete", "close"})
    BY <2>1, CallTypes
  <2>4. state = "kConnecting" => Queues({"writeComplete", "send"}) /\ userPc' = userPc
    BY <2>2, <2>3 DEF Queues
  <2> QED
    BY <2>2, <2>3, <2>4, CallLife
<1>13. ASSUME NEW u \in User, SendFromThread(u) PROVE LifeInv'
  <2>1. UNCHANGED <<loopVars, serverTasks, connVars, inMap, userPc>>
    BY <1>13 DEF SendFromThread, ownerVars
  <2>2. Queues({"send"}) /\ Queues({"writeComplete", "send"})
    <3>1. <<"send", NextMessage>> \in Task /\ <<"send", NextMessage>>[1] = "send"
      BY <1>13, MessageTyped DEF SendFromThread, Task
    <3> QED
      BY <1>13, <3>1 DEF SendFromThread, Queues
  <2>3. KeepsEntry /\ state' = state
    BY <1>0, <2>1 DEF KeepsEntry, connVars
  <2> QED
    BY <2>1, <2>2, <2>3, CallLife
<1>14. ASSUME NEW u \in User, SetStateAndQueue(u) PROVE LifeInv'
  <2>1. /\ state' = "kDisconnecting" /\ userPc[u] # "idle"
        /\ UNCHANGED <<loopVars, serverTasks, events, inMap>>
    BY <1>14 DEF SetStateAndQueue, ownerVars
  <2>2. Queues({"shutdown", "close"})
    <3>1. Queue("shutdown") \/ Queue("close")
      BY <1>14 DEF SetStateAndQueue
    <3>2. Queues({"shutdown"}) \/ Queues({"close"})
      BY <3>1, QueueQueues
    <3> QED
      BY <3>2 DEF Queues
  <2>3. KeepsEntry /\ state # "kConnecting"
    BY <1>0, <2>1 DEF KeepsEntry, LifeInv, WhileConnecting
  <2> QED
    BY <2>1, <2>2, <2>3, CallLife
<1>15. ASSUME NEW u \in User, NEW op \in {"shutdown", "forceClose"}, TestState(u, op) PROVE LifeInv'
  <2>1. /\ UNCHANGED <<loopVars, serverTasks, tasks, connVars, inMap>> /\ state = "kConnected"
    BY <1>15 DEF TestState, ownerVars, queueVars
  <2>2. Queues({"send"}) /\ KeepsEntry /\ state' = state
    BY <1>0, <2>1 DEF Queues, KeepsEntry, connVars
  <2> QED
    BY <2>1, <2>2, CallLife
<1>16. CASE (\E u \in User : TakeReference(u) \/ DropReference(u)) \/ PeerSends \/ PeerCloses
  <2>1. UNCHANGED <<loopVars, queueVars, connVars, inMap, userPc>>
    BY <1>16 DEF TakeReference, DropReference, PeerSends, PeerCloses, ownerVars
  <2> QED
    BY <1>1, <2>1 DEF queueVars
<1>17. CASE ServerRemoves
  <2>1. /\ serverTasks > 0 /\ inMap' = FALSE /\ Queue("destroy")
        /\ UNCHANGED <<loopVars, connVars, userPc>>
    BY <1>17 DEF ServerRemoves, RemoveConnectionInLoop
  <2>2. state # "kConnecting" /\ state' = state /\ (Polled' <=> Polled)
    BY <1>0, <2>1 DEF LifeInv, WhileConnecting, connVars, Polled
  <2>3. /\ Holds(tasks', "destroy") /\ CompleteFirst(tasks') /\ ~Holds(tasks', "complete")
    <3> DEFINE t == <<"destroy", NoData>>
    <3>1. t \in Task /\ t[1] = "destroy" /\ tasks' = Append(tasks, t)
      BY <2>1 DEF Task, Queue
    <3>2. CompleteFirst(tasks) /\ ~Holds(tasks, "complete")
      BY <2>2 DEF LifeInv, ConnectsOnce
    <3> HIDE DEF t, Task
    <3>3. \A op : Holds(tasks', op) <=> Holds(tasks, op) \/ t[1] = op
      BY <1>0, <3>1, HoldsQueued
    <3>4. CompleteFirst(tasks')
      BY <1>0, <3>1, <3>2, HoldsQueued
    <3> QED
      BY <3>1, <3>2, <3>3, <3>4
  <2>4. InsideHeld'
    BY <2>1, <2>2 DEF LifeInv, InsideHeld, loopVars
  <2>5. WhileConnecting' /\ StillReferenced'
    BY <2>2, <2>3 DEF WhileConnecting, StillReferenced
  <2>6. ConnectsOnce'
    BY <2>1, <2>2, <2>3 DEF LifeInv, ConnectsOnce, loopVars
  <2> QED
    BY <2>4, <2>5, <2>6 DEF LifeInv
<1> QED
  BY <1>3, <1>4, <1>5, <1>6, <1>7, <1>8, <1>9, <1>10, <1>11, <1>12, <1>13, <1>14, <1>15, <1>16, <1>17
     DEF Next, LoopStep, UserStep

\* PollSelect's table and handleEvents follow raw pointers: at every moment
\* the Server or a queued task holds the connection they lead to.
THEOREM HandlersNeverDangle == Spec => []NoDanglingHandler
<1>1. TypeInv /\ LifeInv /\ [Next]_vars => (TypeInv /\ LifeInv)'
  BY NextTypes, NextLife
<1>2. TypeInv /\ LifeInv => NoDanglingHandler
  <2> SUFFICES ASSUME TypeInv, LifeInv PROVE NoDanglingHandler
    OBVIOUS
  <2>1. Polled => Alive
    BY HoldsNone DEF LifeInv, StillReferenced, Alive
  <2>2. pc \in {"handler", "callback"} => Polled \/ taskings # <<>>
    BY DEF LifeInv, InsideHeld
  <2> QED
    BY <2>1, <2>2 DEF NoDanglingHandler, Alive, Polled
<1> QED
  BY InitTypes, InitLife, <1>1, <1>2, PTL DEF Spec
-----------------------------------------------------------------------------
(***************************************************************************)
(* When the poll table holds no null entry.  Two uses of a connection put  *)
(* one there: forceClose, whose handleClose may be the second, and a send  *)
(* after connectDestroyed, since handleClose leaves state_ at kConnected   *)
(* and so sendInLoop does not know that the descriptor is gone.  Without   *)
(* them the descriptor is deleted once and nothing touches it afterwards.  *)
(***************************************************************************)
NoForceClose == "forceClose" \notin ThreadOps \cup LoopOps \cup CallbackOps
SentWhilePolled == <<writing, accepted>>' # <<writing, accepted>> => Polled

\* The entry stays as it is, or stays registered without more to read.
EntryStays == \/ events' = events
              \/ /\ Polled /\ Polled'
                 /\ Read \in Interest(events', ConnFd) => Read \in Interest(events, ConnFd)

LEMMA LiveEntry ==
  ASSUME NEW T \in Table, HasEvent(T, ConnFd), NEW S \in SUBSET {Read, Write}
  PROVE  /\ HasEvent(WithInterest(T, ConnFd, S), ConnFd)
         /\ Interest(WithInterest(T, ConnFd, S), ConnFd) = S
         /\ Interest(T, ConnFd) \in SUBSET {Read, Write}
<1> DEFINE e == [handler |-> T[ConnFd].handler, interest |-> S]
<1>1. T[ConnFd] \in Entry
  BY DEF Table, HasEvent
<1>2. e \in Entry /\ e.interest = S
  BY <1>1 DEF Entry
<1>3. WithInterest(T, ConnFd, S) = [T EXCEPT ![ConnFd] = e]
  BY DEF WithInterest
<1>4. e \notin {NoEntry, NullEntry}
  BY <1>2, TableAssumption DEF Entry, Read, Write
<1> HIDE DEF e
<1>5. WithInterest(T, ConnFd, S)[ConnFd] = e
  BY <1>3 DEF Table
<1> QED
  BY <1>1, <1>2, <1>4, <1>5 DEF HasEvent, Interest, Entry

LEMMA SendKeepsEntry ==
  ASSUME TypeInv, NEW m \in Data, SendInLoop(m), SentWhilePolled
  PROVE  EntryStays /\ Queues({"writeComplete"})
<1>1. CASE UNCHANGED <<connVars, tasks>>
  BY <1>1 DEF EntryStays, Queues, connVars
<1>2. CASE ~UNCHANGED <<connVars, tasks>>
  <2>1. ~writing /\ \E n \in MayTake(Parts(m)) : SendParts(m, n)
    BY <1>2 DEF SendInLoop
  <2>2. \/ /\ accepted' = accepted \o Parts(m)
           /\ Queue("writeComplete") /\ events' = events
        \/ /\ writing' = TRUE
           /\ events' = AfterSetEvent(events, ConnFd, Write) /\ tasks' = tasks
    BY <2>1 DEF SendParts
  <2>3. accepted \o Parts(m) # accepted
    <3>1. accepted \in Seq(Part) /\ Parts(m) \in Seq(Part) /\ Len(Parts(m)) = 2
      BY PartsTyped DEF TypeInv, TypeOK
    <3> HIDE DEF Part, Parts
    <3>2. Len(accepted \o Parts(m)) = Len(accepted) + Len(Parts(m))
      BY <3>1, ConcatProperties
    <3>3. Len(accepted) \in Nat
      BY <3>1, LenProperties
    <3> QED
      BY <3>1, <3>2, <3>3
  <2>4. Polled /\ events \in Table
    BY <2>1, <2>2, <2>3 DEF SentWhilePolled, TypeInv, TypeOK, Table, Entry
  <2>5. CASE Queue("writeComplete") /\ events' = events
    BY <2>5, QueueQueues DEF EntryStays
  <2>6. CASE events' = AfterSetEvent(events, ConnFd, Write) /\ tasks' = tasks
    <3>1. Polled' /\ Interest(events', ConnFd) = Interest(events, ConnFd) \cup {Write}
      BY <2>4, <2>6, LiveEntry DEF AfterSetEvent, Polled
    <3> QED
      BY <2>4, <2>6, <3>1 DEF EntryStays, Queues, Read, Write
  <2> QED
    BY <2>2, <2>5, <2>6
<1> QED
  BY <1>1, <1>2

LEMMA HandleWriteKeepsEntry ==
  ASSUME TypeInv, LifeInv, HandleWrite
  PROVE  EntryStays
<1>1. Polled /\ events \in Table
  BY DEF HandleWrite, LifeInv, InsideHeld, TypeInv, TypeOK, Table, Entry
<1>2. events' = events \/ events' = AfterDeleteEvent(events, ConnFd, Write)
  BY DEF HandleWrite, OutputWritten, connVars
<1>3. ASSUME events' = AfterDeleteEvent(events, ConnFd, Write) PROVE EntryStays
  <2>1. Polled' /\ Interest(events', ConnFd) = Interest(events, ConnFd) \ {Write}
    BY <1>1, <1>3, LiveEntry DEF AfterDeleteEvent, Polled
  <2> QED
    BY <1>1, <2>1 DEF EntryStays
<1> QED
  BY <1>2, <1>3 DEF EntryStays

\* At most one connectDestroyed is queued.
DestroyOnce(q) == \A i, j \in 1..Len(q) : q[i][1] = "destroy" /\ q[j][1] = "destroy" => i = j

LEMMA OnceQueued ==
  ASSUME NEW q \in Seq(Task), NEW t \in Task, DestroyOnce(q), t[1] = "destroy" => ~Holds(q, "destroy")
  PROVE  DestroyOnce(Append(q, t))
<1> HIDE DEF Task
<1>1. /\ Len(q) \in Nat /\ Len(Append(q, t)) = Len(q) + 1 /\ Append(q, t)[Len(q) + 1] = t
      /\ \A i \in 1..Len(q) : Append(q, t)[i] = q[i]
  BY LenProperties, AppendProperties
<1> QED
  BY <1>1 DEF DestroyOnce, Holds

LEMMA OnceDequeued ==
  ASSUME NEW q \in Seq(Task), q # <<>>, DestroyOnce(q)
  PROVE  /\ DestroyOnce(Tail(q))
         /\ Head(q)[1] = "destroy" => ~Holds(Tail(q), "destroy")
<1> HIDE DEF Task
<1>1. /\ Len(q) \in Nat \ {0} /\ Head(q) = q[1] /\ Len(Tail(q)) = Len(q) - 1
      /\ \A i \in 1..Len(Tail(q)) : Tail(q)[i] = q[i + 1]
  BY Dequeued, HeadTailProperties
<1>2. \A i \in 1..Len(Tail(q)) : i + 1 \in 1..Len(q) /\ i + 1 # 1 /\ 1 \in 1..Len(q)
  BY <1>1
<1> QED
  BY <1>1, <1>2 DEF DestroyOnce, Holds

\* The connection's removal is on its way.
Removing == serverTasks > 0 \/ Holds(tasks, "destroy") \/ Holds(taskings, "destroy")

NothingForced ==
  /\ \A u \in User : userPc[u] # "forceClose"
  /\ ~Holds(tasks, "close") /\ ~Holds(taskings, "close")

\* The removal is in one place, and the descriptor registered until it ends.
RemovedOnce ==
  /\ serverTasks \in {0, 1}
  /\ serverTasks = 1 => ~Holds(tasks, "destroy") /\ ~Holds(taskings, "destroy")
  /\ Holds(tasks, "destroy") => ~Holds(taskings, "destroy")
  /\ DestroyOnce(tasks) /\ DestroyOnce(taskings)
  /\ Removing => Polled

\* What has something to read is not being removed, so handleRead closes once.
ReadWhileOpen == Read \in Interest(events, ConnFd) \cup flags => ~Removing

EntryInv == NothingForced /\ RemovedOnce /\ ReadWhileOpen /\ events[ConnFd] # NullEntry

LEMMA InitEntry == Init => EntryInv
<1> SUFFICES ASSUME Init PROVE EntryInv
  OBVIOUS
<1>1. /\ events[ConnFd] = NoEntry /\ flags = {} /\ serverTasks = 0 /\ taskings = <<>>
      /\ \A u \in User : userPc[u] = "idle"
      /\ tasks = <<>> \/ tasks = << <<"complete", NoData>> >>
  BY DEF Init
<1>2. ~Holds(tasks, "close") /\ ~Holds(tasks, "destroy") /\ DestroyOnce(tasks)
  BY <1>1 DEF Holds, DestroyOnce
<1>3. ~Holds(taskings, "close") /\ ~Holds(taskings, "destroy") /\ DestroyOnce(taskings)
  BY <1>1 DEF Holds, DestroyOnce
<1>4. ~Removing
  BY <1>1, <1>2, <1>3 DEF Removing
<1> QED
  BY <1>1, <1>2, <1>3, <1>4, TableAssumption DEF EntryInv, NothingForced, RemovedOnce, ReadWhileOpen

\* A step that closes nothing and removes nothing.
LEMMA QuietStep ==
  ASSUME TypeInv, EntryInv, EntryStays, serverTasks' = serverTasks,
         NEW ops, Queues(ops), ops \cap {"destroy", "close"} = {},
         \/ taskings' = taskings
         \/ taskings # <<>> /\ taskings' = Tail(taskings) /\ Head(taskings)[1] # "destroy",
         Read \in flags' => Read \in Interest(events, ConnFd) \cup flags,
         \A u \in User : userPc'[u] # "forceClose"
  PROVE  EntryInv'
<1>0. tasks \in Seq(Task) /\ taskings \in Seq(Task)
  BY DEF TypeInv, TypeOK
<1>1. /\ Holds(tasks', "destroy") <=> Holds(tasks, "destroy")
      /\ Holds(tasks', "close") <=> Holds(tasks, "close")
  <2> HIDE DEF Task
  <2> QED
    BY <1>0, QueuesTyped
<1>2. DestroyOnce(tasks')
  <2>1. CASE tasks' = tasks
    BY <2>1 DEF EntryInv, RemovedOnce
  <2>2. CASE tasks' # tasks
    <3>1. PICK t \in Task : t[1] \in ops /\ tasks' = Append(tasks, t)
      BY <2>2 DEF Queues
    <3>2. t[1] # "destroy" /\ DestroyOnce(tasks)
      BY <3>1 DEF EntryInv, RemovedOnce
    <3> HIDE DEF Task
    <3> QED
      BY <1>0, <3>1, <3>2, OnceQueued
  <2> QED
    BY <2>1, <2>2
<1>3. /\ Holds(taskings', "destroy") <=> Holds(taskings, "destroy")
      /\ Holds(taskings', "close") => Holds(taskings, "close")
      /\ DestroyOnce(taskings')
  <2>1. CASE taskings' = taskings
    BY <2>1 DEF EntryInv, RemovedOnce
  <2>2. CASE taskings # <<>> /\ taskings' = Tail(taskings) /\ Head(taskings)[1] # "destroy"
    <3>1. DestroyOnce(taskings)
      BY DEF EntryInv, RemovedOnce
    <3> HIDE DEF Task
    <3> QED
      BY <1>0, <2>2, <3>1, OnceDequeued, HoldsDequeued
  <2> QED
    BY <2>1, <2>2
<1>4. Removing' <=> Removing
  BY <1>1, <1>3 DEF Removing
<1>5. /\ Polled' <=> Polled
      /\ Read \in Interest(events', ConnFd) => Read \in Interest(events, ConnFd)
      /\ events'[ConnFd] # NullEntry
  BY DEF EntryStays, Polled, HasEvent, EntryInv
<1>6. NothingForced'
  BY <1>1, <1>3 DEF EntryInv, NothingForced
<1>7. RemovedOnce'
  BY <1>1, <1>2, <1>3, <1>4, <1>5 DEF EntryInv, RemovedOnce
<1>8. ReadWhileOpen'
  BY <1>4, <1>5 DEF EntryInv, ReadWhileOpen
<1> QED
  BY <1>5, <1>6, <1>7, <1>8 DEF EntryInv

\* handleClose from handleRead starts the removal, and nothing is read again.
LEMMA CloseEntry ==
  ASSUME TypeInv, LifeInv, EntryInv, HandleRead, HandleClose
  PROVE  EntryInv'
<1>1. /\ Polled /\ ~Removing /\ Read \notin flags' /\ taskings' = taskings /\ userPc' = userPc
      /\ events \in Table
  BY DEF HandleRead, LifeInv, InsideHeld, EntryInv, ReadWhileOpen, TypeInv, TypeOK, Table, Entry
<1>2. Polled' /\ Interest(events', ConnFd) = {}
  BY <1>1, LiveEntry DEF HandleClose, AfterDeleteAllEvent, Polled
<1>3. /\ serverTasks = 0 /\ ~Holds(tasks, "destroy") /\ ~Holds(taskings, "destroy")
      /\ DestroyOnce(tasks) /\ DestroyOnce(taskings) /\ tasks \in Seq(Task)
  BY <1>1 DEF Removing, EntryInv, RemovedOnce, TypeInv, TypeOK
<1>4. CASE UNCHANGED tasks /\ serverTasks' = serverTasks + 1
  BY <1>1, <1>2, <1>3, <1>4 DEF EntryInv, NothingForced, RemovedOnce, ReadWhileOpen, Removing, Polled, HasEvent
<1>5. CASE tasks' = Append(tasks, <<"destroy", NoData>>) /\ serverTasks' = serverTasks
  <2> DEFINE t == <<"destroy", NoData>>
  <2>1. t \in Task /\ t[1] = "destroy" /\ tasks' = Append(tasks, t)
    BY <1>5 DEF Task
  <2> HIDE DEF t
  <2>2. DestroyOnce(tasks') /\ (Holds(tasks', "close") => Holds(tasks, "close"))
    <3> HIDE DEF Task
    <3> QED
      BY <1>3, <2>1, OnceQueued, HoldsQueued
  <2> QED
    BY <1>1, <1>2, <1>3, <1>5, <2>2
       DEF EntryInv, NothingForced, RemovedOnce, ReadWhileOpen, Removing, Polled, HasEvent
<1> QED
  BY <1>4, <1>5, HandleCloseEffects DEF Removes, TypeInv

\* connectDestroyed finds its descriptor, and ends the removal.
LEMMA DestroyEntry ==
  ASSUME TypeInv, EntryInv, AtTask("destroy"), events' = AfterDeleteFd(events, ConnFd),
         taskings' = Tail(taskings), UNCHANGED <<queueVars, flags, userPc>>
  PROVE  EntryInv'
<1>1. taskings \in Seq(Task) /\ taskings # <<>> /\ Head(taskings)[1] = "destroy" /\ flags = {}
  BY DEF AtTask, TypeInv, TypeOK
<1>2. Holds(taskings, "destroy") /\ DestroyOnce(taskings)
  <2>1. DestroyOnce(taskings)
    BY DEF EntryInv, RemovedOnce
  <2> HIDE DEF Task
  <2> QED
    BY <1>1, <2>1, HoldsDequeued
<1>3. /\ ~Holds(taskings', "destroy") /\ DestroyOnce(taskings')
      /\ Holds(taskings', "close") => Holds(taskings, "close")
  <2> HIDE DEF Task
  <2> QED
    BY <1>1, <1>2, OnceDequeued, HoldsDequeued
<1>4. /\ serverTasks = 0 /\ ~Holds(tasks, "destroy") /\ DestroyOnce(tasks) /\ Polled
      /\ serverTasks' = serverTasks /\ tasks' = tasks
  BY <1>2 DEF EntryInv, RemovedOnce, Removing, queueVars
<1>5. ~Removing'
  BY <1>3, <1>4 DEF Removing
<1>6. events'[ConnFd] = NoEntry
  BY <1>4 DEF AfterDeleteFd, Polled, TypeInv, TypeOK
<1> QED
  BY <1>3, <1>4, <1>5, <1>6, TableAssumption DEF EntryInv, NothingForced, RemovedOnce, ReadWhileOpen

LEMMA NextEntry ==
  ASSUME NoForceClose, TypeInv, LifeInv, EntryInv, [Next]_vars, [SentWhilePolled]_vars
  PROVE  EntryInv'
<1>0. /\ tasks \in Seq(Task) /\ taskings \in Seq(Task) /\ serverTasks \in Nat /\ events \in Table
      /\ taskings # <<>> => flags = {} /\ pc \in {"tasks", "callback", "complete"}
      /\ pc \in {"poll", "tasks"} => flags = {}
      /\ \A u \in User : userPc[u] # "forceClose"
  BY DEF TypeInv, TypeOK, Table, Entry, EntryInv, NothingForced
<1>1. SentWhilePolled
  BY DEF SentWhilePolled, vars, outVars, connVars
<1>2. ASSUME UNCHANGED <<serverTasks, tasks, userPc>>, events' = events,
             Read \in flags' => Read \in Interest(events, ConnFd) \cup flags,
             \/ taskings' = taskings
             \/ taskings # <<>> /\ taskings' = Tail(taskings) /\ Head(taskings)[1] # "destroy"
      PROVE  EntryInv'
  <2>1. Queues({}) /\ EntryStays
    BY <1>2 DEF Queues, EntryStays
  <2> QED
    BY <1>0, <1>2, <2>1, QuietStep
<1>3. CASE UNCHANGED vars
  BY <1>2, <1>3 DEF vars, queueVars, loopVars, connVars
<1>4. CASE PollWait \/ EnterHandler \/ EndHandler \/ EndTasks \/ StartCompleteTask \/ WriteComplete
  BY <1>2, <1>4
     DEF PollWait, EnterHandler, EndHandler, EndTasks, StartCompleteTask, WriteComplete, queueVars, connVars
<1>5. CASE EndCallback
  BY <1>2, <1>5 DEF EndCallback, LifeInv, InsideHeld, queueVars, connVars
<1>6. CASE SwapTasks
  <2>1. /\ taskings' = tasks /\ tasks' = <<>> /\ flags = {}
        /\ UNCHANGED <<flags, serverTasks, events, userPc>>
    BY <1>6 DEF SwapTasks, connVars
  <2>2. \A op : ~Holds(taskings, op) /\ ~Holds(tasks', op)
    <3>1. taskings = <<>>
      BY <1>0, <1>6 DEF SwapTasks
    <3> QED
      BY <2>1, <3>1, HoldsNone
  <2>3. DestroyOnce(tasks') /\ Holds(taskings', "destroy") = Holds(tasks, "destroy")
    BY <2>1 DEF DestroyOnce
  <2>4. Polled' = Polled /\ Removing' = Removing
    BY <2>1, <2>2 DEF Polled, Removing
  <2> QED
    BY <2>1, <2>2, <2>3, <2>4 DEF EntryInv, NothingForced, RemovedOnce, ReadWhileOpen
<1>7. CASE CompleteConnect
  <2>1. UNCHANGED <<flags, taskings, queueVars, userPc>> /\ pc = "complete"
    BY <1>7 DEF CompleteConnect
  <2>2. ~Removing
    BY <2>1 DEF LifeInv, ConnectsOnce, WhileConnecting, EntryInv, RemovedOnce
  <2>3. Polled'
    BY <1>0, <1>7, TableAdded DEF CompleteConnect, Polled
  <2>4. ~Removing'
    BY <2>1, <2>2 DEF Removing, queueVars
  <2> QED
    BY <2>1, <2>3, <2>4
       DEF EntryInv, NothingForced, RemovedOnce, ReadWhileOpen, queueVars, Polled, HasEvent
<1>8. CASE HandleRead
  <2>1. CASE HandleClose
    BY <1>8, <2>1, CloseEntry
  <2>2. CASE ~HandleClose
    BY <1>2, <1>8, <2>2 DEF HandleRead, ReadReturns, ReadFails, queueVars
  <2> QED
    BY <2>1, <2>2
<1>9. CASE HandleWrite
  <2>1. EntryStays /\ Queues({"writeComplete"})
    BY <1>9, HandleWriteKeepsEntry, HandleWriteEffects DEF TypeInv
  <2>2. UNCHANGED <<taskings, serverTasks, userPc>> /\ flags' = {}
    BY <1>9 DEF HandleWrite
  <2> QED
    BY <1>0, <2>1, <2>2, QuietStep
<1>10. CASE RunOtherTask
  <2>1. /\ taskings' = Tail(taskings) /\ taskings # <<>> /\ flags' = flags /\ userPc' = userPc
        /\ Head(taskings) \in Task
    <3>1. taskings' = Tail(taskings) /\ taskings # <<>> /\ flags' = flags /\ userPc' = userPc
      BY <1>10 DEF RunOtherTask, AtTask
    <3> HIDE DEF Task
    <3> QED
      BY <1>0, <3>1, Dequeued
  <2>2. CASE AtTask("send") /\ SendInLoop(Head(taskings)[2]) /\ UNCHANGED serverTasks
    <3> DEFINE m == Head(taskings)[2]
    <3>1. m \in Data /\ SendInLoop(m) /\ Head(taskings)[1] # "destroy"
      BY <2>1, <2>2 DEF AtTask, Task
    <3> HIDE DEF m
    <3>2. EntryStays /\ Queues({"writeComplete"})
      BY <1>1, <3>1, SendKeepsEntry
    <3> QED
      BY <1>0, <2>1, <2>2, <3>1, <3>2, QuietStep
  <2>3. CASE AtTask("shutdown") /\ UNCHANGED <<queueVars, connVars>>
    BY <1>2, <2>1, <2>3 DEF AtTask, queueVars, connVars
  <2>4. ~AtTask("close")
    <3>1. taskings # <<>> => Holds(taskings, Head(taskings)[1])
      <4> HIDE DEF Task
      <4> QED
        BY <1>0, HoldsDequeued
    <3> QED
      BY <3>1 DEF AtTask, EntryInv, NothingForced
  <2>5. CASE AtTask("destroy") /\ events' = AfterDeleteFd(events, ConnFd) /\ UNCHANGED queueVars
    BY <2>1, <2>5, DestroyEntry
  <2> QED
    BY <1>10, <2>2, <2>3, <2>4, <2>5 DEF RunOtherTask
<1>11. CASE CallFromCallback \/ CallFromLoopUser
  <2>1. PICK ops \in {CallbackOps, LoopOps} : CallFromLoop(ops)
    BY <1>11 DEF CallFromCallback, CallFromLoopUser
  <2>2. UNCHANGED <<flags, taskings, userPc>> /\ (SendNow \/ ShutdownNow)
    BY <2>1 DEF CallFromLoop, loopVars, NoForceClose
  <2>3. CASE SendNow
    <3>1. NextMessage \in Data /\ SendInLoop(NextMessage) /\ serverTasks' = serverTasks
      BY <2>3, MessageTyped DEF SendNow
    <3>2. EntryStays /\ Queues({"writeComplete"})
      BY <1>1, <3>1, SendKeepsEntry
    <3> QED
      BY <1>0, <2>2, <3>1, <3>2, QuietStep
  <2>4. CASE ShutdownNow
    BY <1>2, <2>2, <2>4 DEF ShutdownNow, queueVars
  <2> QED
    BY <2>2, <2>3, <2>4
<1>12. ASSUME NEW u \in User, SendFromThread(u) PROVE EntryInv'
  <2>1. UNCHANGED <<flags, taskings, serverTasks, userPc>> /\ events' = events
    BY <1>12 DEF SendFromThread, loopVars, connVars
  <2>2. Queues({"send"})
    <3>1. <<"send", NextMessage>> \in Task /\ <<"send", NextMessage>>[1] = "send"
      BY <1>12, MessageTyped DEF SendFromThread, Task
    <3> QED
      BY <1>12, <3>1 DEF SendFromThread, Queues
  <2> QED
    BY <1>0, <2>1, <2>2, QuietStep DEF EntryStays
<1>13. ASSUME NEW u \in User, SetStateAndQueue(u) PROVE EntryInv'
  <2>1. /\ UNCHANGED <<flags, taskings, serverTasks>> /\ events' = events
        /\ userPc' = [userPc EXCEPT ![u] = "idle"]
    BY <1>13 DEF SetStateAndQueue, loopVars
  <2>2. Queues({"shutdown"})
    <3>1. userPc[u] = "shutdown"
      BY <1>0, <1>13 DEF SetStateAndQueue, TypeInv, TypeOK
    <3> QED
      BY <1>13, <3>1, QueueQueues DEF SetStateAndQueue
  <2>3. \A w \in User : userPc'[w] # "forceClose"
    BY <1>0, <2>1 DEF TypeInv, TypeOK
  <2> QED
    BY <2>1, <2>2, <2>3, QuietStep DEF EntryStays
<1>14. ASSUME NEW u \in User, NEW op \in {"shutdown", "forceClose"}, TestState(u, op) PROVE EntryInv'
  <2>1. /\ UNCHANGED <<flags, taskings, queueVars>> /\ events' = events
        /\ op = "shutdown" /\ userPc' = [userPc EXCEPT ![u] = op]
    BY <1>14 DEF TestState, loopVars, connVars, NoForceClose
  <2>2. \A w \in User : userPc'[w] # "forceClose"
    BY <1>0, <2>1 DEF TypeInv, TypeOK
  <2>3. Queues({}) /\ EntryStays /\ serverTasks' = serverTasks
    BY <2>1 DEF Queues, EntryStays, queueVars
  <2> QED
    BY <2>1, <2>2, <2>3, QuietStep
<1>15. CASE (\E u \in User : TakeReference(u) \/ DropReference(u)) \/ PeerSends \/ PeerCloses
  BY <1>2, <1>15 DEF TakeReference, DropReference, PeerSends, PeerCloses, loopVars, queueVars, connVars
<1>16. CASE ServerRemoves
  <2> DEFINE t == <<"destroy", NoData>>
  <2>1. /\ serverTasks = 1 /\ serverTasks' = 0 /\ tasks' = Append(tasks, t)
        /\ UNCHANGED <<flags, taskings, events, userPc>>
    BY <1>16 DEF ServerRemoves, RemoveConnectionInLoop, Queue, loopVars, connVars, EntryInv, RemovedOnce
  <2>2. /\ ~Holds(tasks, "destroy") /\ ~Holds(taskings, "destroy") /\ DestroyOnce(tasks)
        /\ DestroyOnce(taskings) /\ Removing /\ Polled
    BY <2>1 DEF EntryInv, RemovedOnce, Removing
  <2>3. t \in Task /\ t[1] = "destroy"
    BY DEF Task
  <2> HIDE DEF t
  <2>4. /\ DestroyOnce(tasks') /\ Holds(tasks', "destroy")
        /\ Holds(tasks', "close") => Holds(tasks, "close")
    <3> HIDE DEF Task
    <3> QED
      BY <1>0, <2>1, <2>2, <2>3, OnceQueued, HoldsQueued
  <2> QED
    BY <2>1, <2>2, <2>4 DEF EntryInv, NothingForced, RemovedOnce, ReadWhileOpen, Polled, Removing
<1> QED
  BY <1>3, <1>4, <1>5, <1>6, <1>7, <1>8, <1>9, <1>10, <1>11, <1>12, <1>13, <1>14, <1>15, <1>16
     DEF Next, LoopStep, UserStep

\* The crash of PollSelect::wait on a null entry has no third cause: without
\* forceClose, and while nothing is sent through a connection whose descriptor
\* has been deleted, connectDestroyed runs once and the table holds no null
\* entry, for any users, calls and interleaving.
THEOREM NoNullEntryWithinRules ==
  NoForceClose /\ Spec /\ [][SentWhilePolled]_vars => []NoNullEntry
<1> SUFFICES ASSUME NoForceClose PROVE Spec /\ [][SentWhilePolled]_vars => []NoNullEntry
  OBVIOUS
<1>1. TypeInv /\ LifeInv /\ EntryInv /\ [Next]_vars /\ [SentWhilePolled]_vars
        => (TypeInv /\ LifeInv /\ EntryInv)'
  BY NextTypes, NextLife, NextEntry
<1>2. TypeInv /\ EntryInv => NoNullEntry
  BY DEF TypeInv, TypeOK, EntryInv, NoNullEntry, NullEntries
<1> QED
  BY InitTypes, InitLife, InitEntry, <1>1, <1>2, PTL DEF Spec
-----------------------------------------------------------------------------
(***************************************************************************)
(* What keeps a shutdown from being forgotten: the safety half of          *)
(* ShutdownCompletes, which TLC checks.                                    *)
(***************************************************************************)
ShutdownQueued == Holds(tasks, "shutdown") \/ Holds(taskings, "shutdown")

\* After shutdown() the FIN is sent, or shutdownInLoop is queued, or output
\* waits for handleWrite, which will send it, or the output has stalled; and
\* while output waits, the socket is polled for writing as long as it is for
\* reading.
FinOnItsWay ==
  /\ state = "kDisconnecting" => fin \/ ShutdownQueued \/ output # <<>> \/ Stalled
  /\ output # <<>> /\ Read \in Interest(events, ConnFd) => Write \in Interest(events, ConnFd)

OnlyComplete(q) == \A i \in 1..Len(q) : q[i][1] = "complete"

\* Until completeConnect nobody sends.
NothingSentYet ==
  state = "kConnecting" => /\ holders = {} /\ output = <<>> /\ pc # "callback"
                           /\ OnlyComplete(tasks) /\ OnlyComplete(taskings)

FinInv ==
  /\ \A u \in User : userPc[u] # "forceClose"
  /\ output # <<>> /\ Read \in Interest(events, ConnFd) => Write \in Interest(events, ConnFd)
  /\ state = "kDisconnecting" => fin \/ writing \/ ShutdownQueued
  /\ pc \in {"complete", "callback"} /\ taskings # <<>> => Head(taskings)[1] # "shutdown"
  /\ NothingSentYet

LEMMA InterestAfter ==
  ASSUME NEW T \in Table, NEW S \in SUBSET {Read, Write}
  PROVE  Interest(WithInterest(T, ConnFd, S), ConnFd) = IF HasEvent(T, ConnFd) THEN S ELSE {}
<1>1. CASE HasEvent(T, ConnFd)
  BY <1>1, LiveEntry
<1>2. CASE ~HasEvent(T, ConnFd)
  BY <1>2 DEF WithInterest, Interest, HasEvent, Table
<1> QED
  BY <1>1, <1>2

LEMMA SendFin ==
  ASSUME TypeInv, DataInv, FinInv, NEW m \in Data, SendInLoop(m)
  PROVE  /\ writing => writing'
         /\ output' # <<>> /\ Read \in Interest(events', ConnFd) => Write \in Interest(events', ConnFd)
<1>1. CASE UNCHANGED connVars
  BY <1>1 DEF FinInv, connVars
<1>2. CASE ~UNCHANGED connVars
  <2>1. ~writing /\ \E n \in MayTake(Parts(m)) : SendParts(m, n)
    BY <1>2 DEF SendInLoop
  <2>2. \/ UNCHANGED <<output, events>>
        \/ events' = AfterSetEvent(events, ConnFd, Write)
    BY <2>1 DEF SendParts
  <2>3. events \in Table /\ Interest(events, ConnFd) \in SUBSET {Read, Write}
    BY DEF TypeInv, TypeOK, Table, Entry, Interest, HasEvent
  <2>4. CASE UNCHANGED <<output, events>>
    BY <2>1, <2>4 DEF FinInv
  <2>5. CASE events' = AfterSetEvent(events, ConnFd, Write)
    <3>1. Interest(events', ConnFd) \in {{}, Interest(events, ConnFd) \cup {Write}}
      BY <2>3, <2>5, InterestAfter DEF AfterSetEvent
    <3> QED
      BY <2>1, <3>1
  <2> QED
    BY <2>2, <2>4, <2>5
<1> QED
  BY <1>1, <1>2

LEMMA HandleWriteFin ==
  ASSUME TypeInv, FinInv, HandleWrite
  PROVE  /\ writing /\ state = "kDisconnecting" => writing' \/ fin'
         /\ fin => fin'
         /\ output' # <<>> /\ Read \in Interest(events', ConnFd) => Write \in Interest(events', ConnFd)
<1>1. CASE UNCHANGED <<connVars, fin>>
  BY <1>1 DEF FinInv, connVars
<1>2. CASE ~UNCHANGED <<connVars, fin>>
  <2>1. PICK n \in MayTake(output), behind \in BOOLEAN :
          /\ Wrote(n, behind)
          /\ IF n = Len(output)
               THEN OutputWritten /\ fin' = (fin \/ state = "kDisconnecting")
               ELSE UNCHANGED <<writing, events, tasks, fin>>
    BY <1>2 DEF HandleWrite
  <2>2. output' = Rest(output, n) /\ output \in Seq(Part) /\ n \in 0..Len(output)
    BY <2>1 DEF Wrote, TypeInv, TypeOK, MayTake
  <2>3. CASE n = Len(output)
    <3>1. output' = <<>>
      <4> HIDE DEF Part
      <4> QED
        BY <2>2, <2>3, FrontAndRest
    <3> QED
      BY <2>1, <2>3, <3>1
  <2>4. CASE n # Len(output)
    <3>1. output # <<>>
      BY <2>2, <2>4
    <3> QED
      BY <2>1, <2>4, <3>1 DEF FinInv
  <2> QED
    BY <2>3, <2>4
<1> QED
  BY <1>1, <1>2

\* handleClose ends the reading and, after shutdown(), the wait for the FIN.
LEMMA CloseFin ==
  ASSUME TypeInv, HandleClose
  PROVE  Interest(events', ConnFd) = {} /\ state' # "kDisconnecting" /\ Queues({"destroy"})
<1>1. events \in Table
  BY DEF TypeInv, TypeOK, Table, Entry
<1>2. Interest(events', ConnFd) = {}
  BY <1>1, InterestAfter DEF HandleClose, AfterDeleteAllEvent
<1> QED
  BY <1>2, HandleCloseEffects DEF HandleClose, TypeInv

\* What the queues are after a step decides the rest.
LEMMA FinStep ==
  ASSUME TypeInv, FinInv, state # "kConnecting", state' # "kConnecting",
         output' # <<>> /\ Read \in Interest(events', ConnFd) => Write \in Interest(events', ConnFd),
         state' = "kDisconnecting" =>
           \/ fin' \/ writing' \/ Holds(tasks', "shutdown")
           \/ state = "kDisconnecting" /\ (fin => fin') /\ (writing => writing'),
         NEW ops, Queues(ops),
         \/ taskings' = taskings
         \/ /\ taskings # <<>> /\ taskings' = Tail(taskings)
            /\ Head(taskings)[1] # "shutdown" \/ fin' \/ writing',
         pc' \in {"complete", "callback"} /\ taskings' # <<>> => Head(taskings')[1] # "shutdown",
         \A u \in User : userPc'[u] # "forceClose"
  PROVE  FinInv'
<1>0. tasks \in Seq(Task) /\ taskings \in Seq(Task)
  BY DEF TypeInv, TypeOK
<1>1. Holds(tasks, "shutdown") => Holds(tasks', "shutdown")
  <2> HIDE DEF Task
  <2> QED
    BY <1>0, QueuesTyped
<1>2. Holds(taskings, "shutdown") => Holds(taskings', "shutdown") \/ fin' \/ writing'
  <2> HIDE DEF Task
  <2> QED
    BY <1>0, HoldsDequeued
<1>3. state' = "kDisconnecting" => fin' \/ writing' \/ ShutdownQueued'
  BY <1>1, <1>2 DEF FinInv, ShutdownQueued
<1> QED
  BY <1>3 DEF FinInv, NothingSentYet

LEMMA InitFin == Init => FinInv
<1> SUFFICES ASSUME Init PROVE FinInv
  OBVIOUS
<1>1. /\ state = "kConnecting" /\ output = <<>> /\ holders = {} /\ taskings = <<>>
      /\ pc \in {"complete", "poll"} /\ \A u \in User : userPc[u] = "idle"
      /\ tasks = <<>> \/ tasks = << <<"complete", NoData>> >>
  BY DEF Init
<1>2. OnlyComplete(tasks) /\ OnlyComplete(taskings)
  BY <1>1 DEF OnlyComplete
<1> QED
  BY <1>1, <1>2 DEF FinInv, NothingSentYet

\* While the connection is being set up only its own start is under way.
LEMMA ConnectingFin ==
  ASSUME TypeInv, LifeInv, FinInv, [Next]_vars, state = "kConnecting"
  PROVE  FinInv'
<1>0. /\ tasks \in Seq(Task) /\ taskings \in Seq(Task) /\ serverTasks = 0 /\ ~Polled
      /\ holders = {} /\ output = <<>> /\ pc # "callback"
      /\ OnlyComplete(tasks) /\ OnlyComplete(taskings)
      /\ pc # "handler" /\ flags = {}
      /\ \A u \in User : userPc[u] = "idle"
      /\ \A u \in User : userPc[u] # "forceClose"
      /\ events \in Table
  BY DEF TypeInv, TypeOK, FinInv, NothingSentYet, LifeInv, WhileConnecting, InsideHeld, Table, Entry
<1>1. taskings # <<>> => Head(taskings)[1] = "complete" /\ OnlyComplete(Tail(taskings))
  <2> HIDE DEF Task
  <2> QED
    BY <1>0, Dequeued, LenProperties DEF OnlyComplete
<1>2. ASSUME OnlyComplete(tasks'), OnlyComplete(taskings'), pc' # "callback",
             \/ taskings' = taskings \/ pc' \notin {"complete", "callback"},
             UNCHANGED <<state, writing, output, events, holders, userPc>>
      PROVE  FinInv'
  <2>1. taskings' # <<>> /\ pc' = "complete" => Head(taskings')[1] # "shutdown"
    BY <1>1, <1>2
  <2> QED
    BY <1>0, <1>2, <2>1 DEF FinInv, NothingSentYet
<1>3. CASE UNCHANGED vars
  BY <1>0, <1>2, <1>3 DEF vars, loopVars, queueVars, connVars, ownerVars
<1>4. CASE PollWait \/ EndTasks \/ StartCompleteTask
  BY <1>0, <1>2, <1>4 DEF PollWait, EndTasks, StartCompleteTask, queueVars, connVars, ownerVars
<1>5. CASE SwapTasks
  <2>1. OnlyComplete(tasks') /\ OnlyComplete(taskings') /\ pc' = "tasks"
    BY <1>0, <1>5 DEF SwapTasks, OnlyComplete
  <2> QED
    BY <1>2, <1>5, <2>1 DEF SwapTasks, connVars, ownerVars
<1>6. CASE CompleteConnect
  <2>1. /\ state' = "kConnected" /\ UNCHANGED <<taskings, writing, output, userPc>>
    BY <1>6 DEF CompleteConnect
  <2> QED
    BY <1>0, <1>1, <2>1 DEF FinInv, NothingSentYet
<1>7. ~(\/ EnterHandler \/ HandleRead \/ HandleWrite \/ EndHandler \/ WriteComplete \/ RunOtherTask
        \/ EndCallback \/ CallFromCallback \/ CallFromLoopUser \/ ServerRemoves)
  BY <1>0, <1>1
     DEF EnterHandler, HandleRead, HandleWrite, EndHandler, WriteComplete, RunOtherTask, AtTask,
         EndCallback, CallFromCallback, CallFromLoopUser, ServerRemoves
<1>8. \A u \in User : ~(\/ SendFromThread(u) \/ SetStateAndQueue(u) \/ TestState(u, "shutdown")
                        \/ TestState(u, "forceClose") \/ TakeReference(u) \/ DropReference(u))
  BY <1>0 DEF SendFromThread, SetStateAndQueue, TestState, TakeReference, DropReference, Threads
<1>9. CASE PeerSends \/ PeerCloses
  BY <1>0, <1>2, <1>9 DEF PeerSends, PeerCloses, loopVars, queueVars, connVars, ownerVars
<1> QED
  BY <1>3, <1>4, <1>5, <1>6, <1>7, <1>8, <1>9 DEF Next, LoopStep, UserStep

LEMMA NextFin ==
  ASSUME NoForceClose, TypeInv, DataInv, LifeInv, FinInv, [Next]_vars
  PROVE  FinInv'
<1> SUFFICES ASSUME state # "kConnecting" PROVE FinInv'
  BY ConnectingFin
<1>0. /\ tasks \in Seq(Task) /\ taskings \in Seq(Task) /\ events \in Table
      /\ taskings # <<>> => flags = {} /\ pc \in {"tasks", "callback", "complete"}
      /\ \A u \in User : userPc[u] # "forceClose"
      /\ output # <<>> /\ Read \in Interest(events, ConnFd) => Write \in Interest(events, ConnFd)
  BY DEF TypeInv, TypeOK, FinInv, Table, Entry
<1>1. ASSUME UNCHANGED <<state, writing, output, events, fin>>, NEW ops, Queues(ops),
             \/ taskings' = taskings
             \/ taskings # <<>> /\ taskings' = Tail(taskings) /\ Head(taskings)[1] # "shutdown",
             pc' \in {"complete", "callback"} /\ taskings' # <<>> => Head(taskings')[1] # "shutdown",
             \A u \in User : userPc'[u] # "forceClose"
      PROVE  FinInv'
  BY <1>0, <1>1, FinStep
<1>2. pc \in {"complete", "callback"} /\ taskings # <<>> => Head(taskings)[1] # "shutdown"
  BY DEF FinInv
<1>3. ASSUME UNCHANGED <<state, writing, output, events, fin, tasks, taskings, userPc>>,
             pc' \in {"complete", "callback"} => pc' = pc \/ taskings = <<>> \/ Head(taskings)[1] # "shutdown"
      PROVE  FinInv'
  <2>1. Queues({})
    BY <1>3 DEF Queues
  <2> QED
    BY <1>0, <1>1, <1>2, <1>3, <2>1
<1>4. CASE UNCHANGED vars \/ (\E u \in User : TakeReference(u) \/ DropReference(u)) \/ PeerSends \/ PeerCloses
  BY <1>3, <1>4
     DEF vars, TakeReference, DropReference, PeerSends, PeerCloses, loopVars, queueVars, connVars, outVars
<1>5. CASE PollWait \/ EnterHandler \/ EndHandler \/ EndTasks \/ StartCompleteTask \/ WriteComplete
  BY <1>3, <1>5
     DEF PollWait, EnterHandler, EndHandler, EndTasks, StartCompleteTask, WriteComplete, AtTask,
         queueVars, connVars, outVars
<1>6. CASE EndCallback
  <2>1. UNCHANGED <<state, writing, output, events, fin, tasks, userPc>> /\ Queues({})
    BY <1>6 DEF EndCallback, queueVars, connVars, outVars, Queues
  <2>2. CASE taskings = <<>>
    BY <1>3, <1>6, <2>1, <2>2 DEF EndCallback
  <2>3. CASE taskings # <<>>
    BY <1>0, <1>1, <1>2, <1>6, <2>1, <2>3 DEF EndCallback
  <2> QED
    BY <2>2, <2>3
<1>7. CASE SwapTasks
  <2>1. /\ taskings = <<>> /\ taskings' = tasks /\ tasks' = <<>> /\ pc' = "tasks"
        /\ UNCHANGED <<state, writing, output, events, fin, userPc>>
    BY <1>0, <1>7 DEF SwapTasks, connVars, outVars
  <2>2. ShutdownQueued => ShutdownQueued'
    BY <2>1, HoldsNone DEF ShutdownQueued
  <2> QED
    BY <1>0, <2>1, <2>2 DEF FinInv, NothingSentYet
<1>8. ~CompleteConnect
  BY DEF CompleteConnect, LifeInv, ConnectsOnce
<1>9. CASE HandleRead
  <2>1. UNCHANGED <<taskings, writing, output, fin, userPc>> /\ taskings = <<>>
    BY <1>0, <1>9 DEF HandleRead, outVars
  <2>2. CASE HandleClose
    <3>1. Interest(events', ConnFd) = {} /\ state' # "kDisconnecting" /\ Queues({"destroy"})
      BY <2>2, CloseFin
    <3>2. state' # "kConnecting"
      BY <2>2 DEF HandleClose
    <3> QED
      BY <1>0, <2>1, <3>1, <3>2, FinStep
  <2>3. CASE ~HandleClose
    <3>1. UNCHANGED <<state, events, queueVars>>
      BY <1>9, <2>3 DEF HandleRead, ReadReturns, ReadFails
    <3>2. pc' \in {"callback", pc}
      BY <1>9, <2>3 DEF HandleRead, ReadReturns, ReadFails
    <3> QED
      BY <1>3, <2>1, <3>1, <3>2 DEF queueVars
  <2> QED
    BY <2>2, <2>3
<1>10. CASE HandleWrite
  <2>1. state' = state /\ Queues({"writeComplete"})
    BY <1>10, HandleWriteEffects DEF TypeInv
  <2>2. UNCHANGED <<taskings, pc, userPc>> /\ taskings = <<>>
    BY <1>0, <1>10 DEF HandleWrite
  <2>3. /\ writing /\ state = "kDisconnecting" => writing' \/ fin'
        /\ fin => fin'
        /\ output' # <<>> /\ Read \in Interest(events', ConnFd) => Write \in Interest(events', ConnFd)
    BY <1>10, HandleWriteFin
  <2> QED
    BY <1>0, <2>1, <2>2, <2>3, FinStep
<1>11. ASSUME NEW m \in Data, SendInLoop(m), fin' = fin, userPc' = userPc, pc' = pc,
              \/ taskings' = taskings
              \/ taskings # <<>> /\ taskings' = Tail(taskings) /\ Head(taskings)[1] # "shutdown" /\ pc = "tasks"
       PROVE  FinInv'
  <2>1. state' = state /\ Queues({"writeComplete"})
    BY <1>11, SendInLoopEffects DEF TypeInv
  <2>2. /\ writing => writing'
        /\ output' # <<>> /\ Read \in Interest(events', ConnFd) => Write \in Interest(events', ConnFd)
    BY <1>11, SendFin
  <2> QED
    BY <1>0, <1>2, <1>11, <2>1, <2>2, FinStep
<1>12. CASE RunOtherTask
  <2>1. /\ taskings' = Tail(taskings) /\ taskings # <<>> /\ pc' = pc /\ pc = "tasks" /\ userPc' = userPc
        /\ Head(taskings) \in Task
    <3>1. taskings' = Tail(taskings) /\ taskings # <<>> /\ pc' = pc /\ pc = "tasks" /\ userPc' = userPc
      BY <1>12 DEF RunOtherTask, AtTask
    <3> HIDE DEF Task
    <3> QED
      BY <1>0, <3>1, Dequeued
  <2>2. CASE AtTask("send") /\ SendInLoop(Head(taskings)[2]) /\ fin' = fin
    <3> DEFINE m == Head(taskings)[2]
    <3>1. m \in Data /\ SendInLoop(m) /\ Head(taskings)[1] # "shutdown"
      BY <2>1, <2>2 DEF AtTask, Task
    <3> HIDE DEF m
    <3> QED
      BY <1>11, <2>1, <2>2, <3>1
  <2>3. CASE AtTask("shutdown") /\ ShutdownInLoop /\ UNCHANGED <<queueVars, connVars>>
    <3>1. /\ UNCHANGED <<state, writing, output, events, tasks>> /\ fin' = (fin \/ ~writing)
      BY <2>3 DEF queueVars, connVars, ShutdownInLoop
    <3>2. Queues({}) /\ (fin' \/ writing') /\ (fin => fin')
      BY <3>1 DEF Queues, TypeInv, TypeOK
    <3> QED
      BY <1>0, <2>1, <3>1, <3>2, FinStep
  <2>4. CASE AtTask("close") /\ HandleClose /\ UNCHANGED <<writing, output, outVars>>
    <3>1. Interest(events', ConnFd) = {} /\ state' # "kDisconnecting" /\ Queues({"destroy"})
      BY <2>4, CloseFin
    <3>2. state' # "kConnecting" /\ Head(taskings)[1] # "shutdown"
      BY <2>4 DEF HandleClose, AtTask
    <3> QED
      BY <1>0, <2>1, <2>4, <3>1, <3>2, FinStep
  <2>5. CASE /\ AtTask("destroy") /\ events' = AfterDeleteFd(events, ConnFd)
             /\ UNCHANGED <<queueVars, state, writing, output, outVars>>
    <3>1. Interest(events', ConnFd) = {}
      BY <1>0, <2>5, TableEnds DEF Interest
    <3>2. Queues({}) /\ Head(taskings)[1] # "shutdown" /\ fin' = fin
      BY <2>5 DEF Queues, AtTask, queueVars, outVars
    <3> QED
      BY <1>0, <2>1, <2>5, <3>1, <3>2, FinStep
  <2> QED
    BY <1>12, <2>2, <2>3, <2>4, <2>5 DEF RunOtherTask
<1>13. CASE CallFromCallback \/ CallFromLoopUser
  <2>1. PICK ops \in {CallbackOps, LoopOps} : CallFromLoop(ops)
    BY <1>13 DEF CallFromCallback, CallFromLoopUser
  <2>2. UNCHANGED <<pc, taskings, userPc>> /\ (SendNow \/ ShutdownNow)
    BY <2>1 DEF CallFromLoop, loopVars, NoForceClose
  <2>3. CASE SendNow
    <3>1. NextMessage \in Data /\ SendInLoop(NextMessage) /\ fin' = fin
      BY <2>3, MessageTyped DEF SendNow
    <3> QED
      BY <1>11, <2>2, <3>1
  <2>4. CASE ShutdownNow
    <3>1. /\ UNCHANGED <<writing, output, events, tasks>> /\ state' = "kDisconnecting"
          /\ fin' \/ writing'
      BY <2>4 DEF ShutdownNow, ShutdownInLoop, queueVars, TypeInv, TypeOK
    <3>2. Queues({})
      BY <3>1 DEF Queues
    <3> QED
      BY <1>0, <1>2, <2>2, <3>1, <3>2, FinStep
  <2> QED
    BY <2>2, <2>3, <2>4
<1>14. ASSUME NEW u \in User, SendFromThread(u) PROVE FinInv'
  <2>1. UNCHANGED <<pc, taskings, userPc, state, writing, output, events, fin>>
    BY <1>14 DEF SendFromThread, loopVars, connVars, outVars
  <2>2. Queues({"send"})
    <3>1. <<"send", NextMessage>> \in Task /\ <<"send", NextMessage>>[1] = "send"
      BY <1>14, MessageTyped DEF SendFromThread, Task
    <3> QED
      BY <1>14, <3>1 DEF SendFromThread, Queues
  <2> QED
    BY <1>0, <1>1, <1>2, <2>1, <2>2
<1>15. ASSUME NEW u \in User, SetStateAndQueue(u) PROVE FinInv'
  <2>1. /\ UNCHANGED <<pc, taskings, writing, output, events, fin>> /\ state' = "kDisconnecting"
        /\ userPc' = [userPc EXCEPT ![u] = "idle"]
    BY <1>15 DEF SetStateAndQueue, loopVars, outVars
  <2>2. tasks' = Append(tasks, <<"shutdown", NoData>>)
    <3>1. userPc[u] = "shutdown"
      BY <1>0, <1>15 DEF SetStateAndQueue, TypeInv, TypeOK
    <3> QED
      BY <1>15, <3>1 DEF SetStateAndQueue, Queue
  <2>3. Queues({"shutdown"}) /\ Holds(tasks', "shutdown")
    <3> DEFINE t == <<"shutdown", NoData>>
    <3>1. t \in Task /\ t[1] = "shutdown" /\ tasks' = Append(tasks, t)
      BY <2>2 DEF Task
    <3> HIDE DEF t, Task
    <3> QED
      BY <1>0, <3>1, HoldsQueued DEF Queues
  <2>4. \A w \in User : userPc'[w] # "forceClose"
    BY <1>0, <2>1 DEF TypeInv, TypeOK
  <2> QED
    BY <1>0, <1>2, <2>1, <2>3, <2>4, FinStep
<1>16. ASSUME NEW u \in User, NEW op \in {"shutdown", "forceClose"}, TestState(u, op) PROVE FinInv'
  <2>1. /\ UNCHANGED <<pc, taskings, tasks, state, writing, output, events, fin>>
        /\ op = "shutdown" /\ userPc' = [userPc EXCEPT ![u] = op]
    BY <1>16 DEF TestState, loopVars, queueVars, connVars, outVars, NoForceClose
  <2>2. \A w \in User : userPc'[w] # "forceClose"
    BY <1>0, <2>1 DEF TypeInv, TypeOK
  <2>3. Queues({})
    BY <2>1 DEF Queues
  <2> QED
    BY <1>0, <1>1, <1>2, <2>1, <2>2, <2>3
<1>17. CASE ServerRemoves
  <2>1. /\ Queue("destroy") /\ UNCHANGED <<pc, taskings, state, writing, output, events, fin, userPc>>
    BY <1>17 DEF ServerRemoves, RemoveConnectionInLoop, loopVars, connVars, outVars
  <2> QED
    BY <1>0, <1>1, <1>2, <2>1, QueueQueues
<1> QED
  BY <1>4, <1>5, <1>6, <1>7, <1>8, <1>9, <1>10, <1>12, <1>13, <1>14, <1>15, <1>16, <1>17
     DEF Next, LoopStep, UserStep

\* shutdown() is not forgotten, whenever it falls between a send, a short
\* write and the end of the output: on a connection which nobody closes by
\* force the FIN is on its way, or writing_ is set and handleWrite has nothing
\* that it can write.
THEOREM ShutdownNotForgotten ==
  NoForceClose /\ Spec => []FinOnItsWay
<1> SUFFICES ASSUME NoForceClose PROVE Spec => []FinOnItsWay
  OBVIOUS
<1>1. TypeInv /\ DataInv /\ LifeInv /\ FinInv /\ [Next]_vars => (TypeInv /\ DataInv /\ LifeInv /\ FinInv)'
  BY NextTypes, NextLife, NextFin
<1>2. FinInv => FinOnItsWay
  BY DEF FinInv, FinOnItsWay, Stalled
<1> QED
  BY InitTypes, InitData, InitLife, InitFin, <1>1, <1>2, PTL DEF Spec
-----------------------------------------------------------------------------
(***************************************************************************)
(* What keeps a close of the peer from being missed: the safety half of    *)
(* ClosedConnectionRemoved.  Only handleClose ends the reading, and it     *)
(* tells the Server.                                                       *)
(***************************************************************************)
ReadOn == Read \in Interest(events, ConnFd)
CompleteComing == Holds(tasks, "complete") \/ Holds(taskings, "complete") \/ pc = "complete"
DestroyQueued == Holds(tasks, "destroy") \/ Holds(taskings, "destroy")

\* A connection in the map will be read, is read, or has its removal queued on
\* the Server's loop; one still in the poll table is in the map, or on its way
\* out of the table.
ClosingOnItsWay ==
  /\ inMap => CompleteComing \/ ReadOn \/ serverTasks > 0
  /\ Polled => inMap \/ serverTasks > 0 \/ DestroyQueued

ClosingInv ==
  /\ inMap /\ state # "kConnecting" => ReadOn \/ serverTasks > 0
  /\ DestroyQueued => ~inMap
  /\ state = "kConnecting" => pc # "callback" /\ CompleteComing

LEMMA ReadAdded ==
  ASSUME NEW T \in Table
  PROVE  Read \in Interest(AfterSetEvent(AfterAddFd(T, ConnFd, Handler), ConnFd, Read), ConnFd)
<1> DEFINE e == FdEvent(Handler)
           U == AfterAddFd(T, ConnFd, Handler)
<1>1. e \in Entry /\ e \notin {NoEntry, NullEntry}
  BY TableAssumption DEF FdEvent, Entry, Read, Write
<1>2. U = [T EXCEPT ![ConnFd] = e]
  BY DEF AfterAddFd
<1> HIDE DEF e, U
<1>3. U \in Table /\ HasEvent(U, ConnFd)
  BY <1>1, <1>2 DEF Table, HasEvent
<1>4. Interest(U, ConnFd) \in SUBSET {Read, Write}
  BY <1>3, LiveEntry
<1>5. Interest(AfterSetEvent(U, ConnFd, Read), ConnFd) = Interest(U, ConnFd) \cup {Read}
  BY <1>3, <1>4, InterestAfter DEF AfterSetEvent
<1> QED
  BY <1>5 DEF U

LEMMA ReadStaysOn ==
  ASSUME events \in Table, ReadOn,
         \/ events' = events
         \/ events' = AfterSetEvent(events, ConnFd, Write)
         \/ events' = AfterDeleteEvent(events, ConnFd, Write)
  PROVE  ReadOn'
<1>1. HasEvent(events, ConnFd)
  BY DEF ReadOn, Interest
<1>2. Interest(events, ConnFd) \in SUBSET {Read, Write}
  BY <1>1, LiveEntry
<1>3. Interest(AfterSetEvent(events, ConnFd, Write), ConnFd) = Interest(events, ConnFd) \cup {Write}
  BY <1>1, <1>2, InterestAfter DEF AfterSetEvent
<1>4. Interest(AfterDeleteEvent(events, ConnFd, Write), ConnFd) = Interest(events, ConnFd) \ {Write}
  BY <1>1, <1>2, InterestAfter DEF AfterDeleteEvent
<1> QED
  BY <1>3, <1>4 DEF ReadOn, Read, Write

\* While tasks are being run a connection that is still to be completed has
\* completeConnect in front.
LEMMA CompleteInFront ==
  ASSUME TypeInv, LifeInv, ClosingInv, state = "kConnecting", pc = "tasks"
  PROVE  taskings # <<>> /\ Head(taskings)[1] = "complete"
<1>1. Holds(taskings, "complete") /\ CompleteFirst(taskings) /\ taskings \in Seq(Task)
  BY DEF ClosingInv, CompleteComing, LifeInv, ConnectsOnce, TypeInv, TypeOK
<1>2. taskings # <<>>
  BY <1>1, HoldsNone
<1>3. ~Holds(Tail(taskings), "complete")
  <2> HIDE DEF Task
  <2> QED
    BY <1>1, <1>2, HoldsDequeued
<1>4. Holds(taskings, "complete") => Holds(Tail(taskings), "complete") \/ Head(taskings)[1] = "complete"
  <2> HIDE DEF Task
  <2> QED
    BY <1>1, <1>2, HoldsDequeued
<1> QED
  BY <1>1, <1>2, <1>3, <1>4

\* A step that removes nothing and completes nothing.
LEMMA ClosingStep ==
  ASSUME TypeInv, ClosingInv, UNCHANGED <<inMap, serverTasks>>,
         state' = "kConnecting" <=> state = "kConnecting",
         ReadOn => ReadOn', NEW ops, Queues(ops), "destroy" \notin ops,
         \/ taskings' = taskings
         \/ taskings # <<>> /\ taskings' = Tail(taskings) /\ state # "kConnecting",
         state = "kConnecting" => pc' # "callback" /\ (pc = "complete" => pc' = "complete")
  PROVE  ClosingInv'
<1>1. tasks \in Seq(Task) /\ taskings \in Seq(Task)
  BY DEF TypeInv, TypeOK
<1>2. \A op : (Holds(tasks, op) => Holds(tasks', op)) /\ (Holds(tasks', op) => Holds(tasks, op) \/ op \in ops)
  <2> HIDE DEF Task
  <2> QED
    BY <1>1, QueuesTyped
<1>3. Holds(taskings', "destroy") => Holds(taskings, "destroy")
  <2> HIDE DEF Task
  <2> QED
    BY <1>1, HoldsDequeued
<1> QED
  BY <1>2, <1>3 DEF ClosingInv, CompleteComing, DestroyQueued

\* handleClose: the map no longer has the connection, or the Server will see
\* to that.
LEMMA CloseClosing ==
  ASSUME TypeInv, LifeInv, ClosingInv, state # "kConnecting", HandleClose,
         \/ taskings' = taskings
         \/ taskings # <<>> /\ taskings' = Tail(taskings)
  PROVE  ClosingInv'
<1>1. Removes /\ (state' = "kConnecting" <=> state = "kConnecting")
  BY HandleCloseEffects DEF TypeInv
<1>2. serverTasks \in Nat /\ taskings \in Seq(Task)
  BY DEF TypeInv, TypeOK
<1>3. Holds(taskings', "destroy") => Holds(taskings, "destroy")
  <2> HIDE DEF Task
  <2> QED
    BY <1>2, HoldsDequeued
<1>4. CASE inMap' = FALSE
  BY <1>1, <1>4 DEF ClosingInv
<1>5. CASE UNCHANGED <<inMap, tasks>> /\ serverTasks' = serverTasks + 1
  BY <1>1, <1>2, <1>3, <1>5 DEF ClosingInv, DestroyQueued
<1> QED
  BY <1>1, <1>4, <1>5 DEF Removes

LEMMA NextClosing ==
  ASSUME TypeInv, LifeInv, ClosingInv, [Next]_vars
  PROVE  ClosingInv'
<1>0. /\ tasks \in Seq(Task) /\ taskings \in Seq(Task) /\ events \in Table
      /\ taskings # <<>> => flags = {} /\ pc \in {"tasks", "callback", "complete"}
  BY DEF TypeInv, TypeOK, Table, Entry
<1>1. state = "kConnecting" => pc \notin {"handler", "callback"} /\ ~ReadOn
      /\ \A u \in User : userPc[u] = "idle"
  BY DEF LifeInv, WhileConnecting, InsideHeld, ClosingInv, ReadOn, Interest, Polled
<1>2. ASSUME UNCHANGED <<inMap, serverTasks, state, events, tasks, taskings>>,
             state = "kConnecting" => pc' # "callback" /\ (pc = "complete" => pc' = "complete")
      PROVE  ClosingInv'
  <2>1. Queues({}) /\ (ReadOn => ReadOn')
    BY <1>2 DEF Queues, ReadOn
  <2> QED
    BY <1>2, <2>1, ClosingStep
<1>3. CASE \/ UNCHANGED vars \/ PeerSends \/ PeerCloses
           \/ \E u \in User : \/ TakeReference(u) \/ DropReference(u)
                              \/ TestState(u, "shutdown") \/ TestState(u, "forceClose")
  <2>1. UNCHANGED <<inMap, serverTasks, state, events, tasks, taskings, pc>>
    BY <1>3 DEF vars, PeerSends, PeerCloses, TakeReference, DropReference, TestState, loopVars, queueVars,
                connVars, ownerVars
  <2> QED
    BY <1>1, <1>2, <2>1
<1>4. CASE PollWait \/ EnterHandler \/ EndHandler \/ EndTasks
  <2>1. /\ UNCHANGED <<inMap, serverTasks, state, events, tasks, taskings>>
        /\ pc # "complete" /\ pc' # "callback"
    BY <1>4 DEF PollWait, EnterHandler, EndHandler, EndTasks, queueVars, connVars, ownerVars
  <2> QED
    BY <1>2, <2>1
<1>5. CASE StartCompleteTask \/ WriteComplete
  <2>1. /\ UNCHANGED <<inMap, serverTasks, state, events, tasks, taskings>> /\ pc = "tasks"
        /\ pc' = IF Head(taskings)[1] = "complete" THEN "complete" ELSE "callback"
    BY <1>5 DEF StartCompleteTask, WriteComplete, AtTask, queueVars, connVars, ownerVars
  <2> QED
    BY <1>2, <2>1, CompleteInFront
<1>6. CASE CompleteConnect
  <2>1. state' = "kConnected" /\ ReadOn'
    BY <1>0, <1>6, ReadAdded DEF CompleteConnect, ReadOn
  <2>2. UNCHANGED <<inMap, tasks, taskings>>
    BY <1>6 DEF CompleteConnect, queueVars, ownerVars
  <2> QED
    BY <2>1, <2>2 DEF ClosingInv, DestroyQueued
<1>7. CASE SwapTasks
  <2>1. /\ taskings = <<>> /\ taskings' = tasks /\ tasks' = <<>> /\ pc = "events" /\ pc' = "tasks"
        /\ UNCHANGED <<inMap, serverTasks, state, events>>
    BY <1>0, <1>7 DEF SwapTasks, connVars, ownerVars
  <2>2. /\ DestroyQueued' <=> DestroyQueued
        /\ CompleteComing => CompleteComing'
        /\ ReadOn' <=> ReadOn
    BY <2>1, HoldsNone DEF DestroyQueued, CompleteComing, ReadOn
  <2> QED
    BY <2>1, <2>2 DEF ClosingInv
<1>8. CASE EndCallback
  <2>1. /\ UNCHANGED <<inMap, serverTasks, state, events, tasks>> /\ state # "kConnecting"
        /\ taskings' = taskings \/ (taskings # <<>> /\ taskings' = Tail(taskings))
    BY <1>1, <1>8 DEF EndCallback, queueVars, connVars, ownerVars
  <2>2. Queues({}) /\ (ReadOn => ReadOn')
    BY <2>1 DEF Queues, ReadOn
  <2> QED
    BY <2>1, <2>2, ClosingStep
<1>9. CASE HandleRead
  <2>1. state # "kConnecting" /\ taskings' = taskings
    BY <1>1, <1>9 DEF HandleRead
  <2>2. CASE HandleClose
    BY <2>1, <2>2, CloseClosing
  <2>3. CASE ~HandleClose
    <3>1. UNCHANGED <<inMap, serverTasks, state, events, tasks>>
      BY <1>9, <2>3 DEF HandleRead, ReadReturns, ReadFails, queueVars
    <3> QED
      BY <1>2, <2>1, <3>1
  <2> QED
    BY <2>2, <2>3
<1>10. CASE HandleWrite
  <2>1. state' = state /\ Queues({"writeComplete"})
    BY <1>10, HandleWriteEffects DEF TypeInv
  <2>2. /\ events' = events \/ events' = AfterDeleteEvent(events, ConnFd, Write)
        /\ UNCHANGED <<taskings, pc, inMap, serverTasks>>
    BY <1>10 DEF HandleWrite, OutputWritten, connVars, ownerVars
  <2>3. ReadOn => ReadOn'
    BY <1>0, <2>2, ReadStaysOn
  <2> QED
    BY <1>1, <2>1, <2>2, <2>3, ClosingStep
<1>11. ASSUME NEW m \in Data, SendInLoop(m), fin' = fin, UNCHANGED <<pc, inMap, serverTasks>>,
              \/ taskings' = taskings
              \/ taskings # <<>> /\ taskings' = Tail(taskings) /\ state # "kConnecting"
       PROVE  ClosingInv'
  <2>1. state' = state /\ Queues({"writeComplete"})
    BY <1>11, SendInLoopEffects DEF TypeInv
  <2>2. events' = events \/ events' = AfterSetEvent(events, ConnFd, Write)
    BY <1>11 DEF SendInLoop, SendParts, connVars
  <2>3. ReadOn => ReadOn'
    BY <1>0, <2>2, ReadStaysOn
  <2> QED
    BY <1>1, <1>11, <2>1, <2>3, ClosingStep
<1>12. CASE RunOtherTask
  <2>1. /\ taskings' = Tail(taskings) /\ taskings # <<>> /\ pc' = pc /\ pc = "tasks"
        /\ Head(taskings)[1] # "complete"
    BY <1>12 DEF RunOtherTask, AtTask
  <2>2. state # "kConnecting" /\ Head(taskings) \in Task
    <3> HIDE DEF Task
    <3> QED
      BY <1>0, <2>1, Dequeued, CompleteInFront
  <2>3. CASE AtTask("send") /\ SendInLoop(Head(taskings)[2]) /\ UNCHANGED <<serverTasks, fin, inMap>>
    <3>1. Head(taskings)[2] \in Data
      BY <2>2, <2>3 DEF AtTask, Task
    <3> QED
      BY <1>11, <2>1, <2>2, <2>3, <3>1
  <2>4. CASE UNCHANGED <<queueVars, connVars, inMap>>
    <3>1. UNCHANGED <<serverTasks, state, tasks, inMap>> /\ Queues({}) /\ (ReadOn => ReadOn')
      BY <2>4 DEF queueVars, connVars, Queues, ReadOn
    <3> QED
      BY <2>1, <2>2, <3>1, ClosingStep
  <2>5. CASE HandleClose
    BY <2>1, <2>2, <2>5, CloseClosing
  <2>6. CASE AtTask("destroy") /\ UNCHANGED <<queueVars, state, inMap>>
    <3>1. ~inMap
      <4> HIDE DEF Task
      <4>1. Holds(taskings, "destroy")
        BY <1>0, <2>1, <2>6, HoldsDequeued DEF AtTask
      <4> QED
        BY <4>1 DEF ClosingInv, DestroyQueued
    <3> QED
      BY <2>2, <2>6, <3>1 DEF ClosingInv
  <2> QED
    BY <1>12, <2>3, <2>4, <2>5, <2>6 DEF RunOtherTask
<1>13. CASE CallFromCallback \/ CallFromLoopUser
  <2>1. PICK ops \in {CallbackOps, LoopOps} : CallFromLoop(ops)
    BY <1>13 DEF CallFromCallback, CallFromLoopUser
  <2>2. UNCHANGED <<pc, taskings, inMap>> /\ (SendNow \/ ShutdownNow \/ ForceCloseNow)
    BY <2>1 DEF CallFromLoop, loopVars, ownerVars
  <2>3. CASE SendNow
    <3>1. NextMessage \in Data /\ SendInLoop(NextMessage) /\ fin' = fin /\ serverTasks' = serverTasks
      BY <2>3, MessageTyped DEF SendNow
    <3> QED
      BY <1>11, <2>2, <3>1
  <2>4. CASE ShutdownNow \/ ForceCloseNow
    <3>1. /\ state = "kConnected" /\ state' = "kDisconnecting" /\ UNCHANGED <<events, serverTasks>>
          /\ Queue("close") \/ tasks' = tasks
      BY <2>4 DEF ShutdownNow, ForceCloseNow, queueVars
    <3>2. Queues({"close"})
      BY <3>1, QueueQueues DEF Queues
    <3> QED
      BY <2>2, <3>1, <3>2, ClosingStep DEF ReadOn
  <2> QED
    BY <2>2, <2>3, <2>4
<1>14. ASSUME NEW u \in User, SendFromThread(u) PROVE ClosingInv'
  <2>1. UNCHANGED <<pc, taskings, inMap, serverTasks, state, events>>
    BY <1>14 DEF SendFromThread, loopVars, connVars, ownerVars
  <2>2. Queues({"send"})
    <3>1. <<"send", NextMessage>> \in Task /\ <<"send", NextMessage>>[1] = "send"
      BY <1>14, MessageTyped DEF SendFromThread, Task
    <3> QED
      BY <1>14, <3>1 DEF SendFromThread, Queues
  <2> QED
    BY <1>1, <2>1, <2>2, ClosingStep DEF ReadOn
<1>15. ASSUME NEW u \in User, SetStateAndQueue(u) PROVE ClosingInv'
  <2>1. /\ UNCHANGED <<pc, taskings, inMap, serverTasks, events>> /\ state' = "kDisconnecting"
        /\ state # "kConnecting" /\ (Queue("shutdown") \/ Queue("close"))
    BY <1>1, <1>15 DEF SetStateAndQueue, loopVars, ownerVars
  <2>2. Queues({"shutdown"}) \/ Queues({"close"})
    BY <2>1, QueueQueues
  <2> QED
    BY <2>1, <2>2, ClosingStep DEF ReadOn
<1>16. CASE ServerRemoves
  <2>1. inMap' = FALSE /\ state' = state /\ state # "kConnecting"
    BY <1>16 DEF ServerRemoves, RemoveConnectionInLoop, connVars, LifeInv, WhileConnecting
  <2> QED
    BY <2>1 DEF ClosingInv
<1> QED
  BY <1>3, <1>4, <1>5, <1>6, <1>7, <1>8, <1>9, <1>10, <1>12, <1>13, <1>14, <1>15, <1>16
     DEF Next, LoopStep, UserStep

\* However sends, shutdowns and forced closes interleave with completeConnect
\* and with the Server's loop, a connection in the map is watched for the
\* close of its peer until its removal is under way, and what has left the map
\* leaves the poll table.
THEOREM ClosingNotForgotten == Spec => []ClosingOnItsWay
<1>1. Init => ClosingInv
  <2> SUFFICES ASSUME Init PROVE ClosingInv
    OBVIOUS
  <2>1. taskings = <<>> /\ state = "kConnecting" /\ pc = (IF sameLoop THEN "complete" ELSE "poll")
    BY DEF Init
  <2>2. ~DestroyQueued
    BY <2>1, HoldsNone DEF Init, DestroyQueued, Holds
  <2>3. sameLoop \/ Holds(tasks, "complete")
    BY DEF Init, Holds
  <2> QED
    BY <2>1, <2>2, <2>3 DEF ClosingInv, CompleteComing
<1>2. TypeInv /\ LifeInv /\ ClosingInv /\ [Next]_vars => (TypeInv /\ LifeInv /\ ClosingInv)'
  BY NextTypes, NextLife, NextClosing
<1>3. LifeInv /\ ClosingInv => ClosingOnItsWay
  BY DEF LifeInv, StillReferenced, ClosingInv, ClosingOnItsWay, DestroyQueued
<1> QED
  BY InitTypes, InitLife, <1>1, <1>2, <1>3, PTL DEF Spec
=============================================================================
