------------------------------ MODULE ByteQueue -----------------------------
(***************************************************************************)
(* What a buffer promises: bytes come out in the order in which they went  *)
(* in, each once, and a call reports how many bytes it took, or which ones *)
(* it returns.  A call may take only a first part of what it is offered.   *)
(* A call that fails changes nothing, but what it reports means nothing.   *)
(***************************************************************************)
EXTENDS Integers, Sequences

CONSTANTS Chunk,   \* the sequences of bytes that are offered at a time
          MaxRead, \* the largest number of bytes asked for at a time
          Leftover \* what a call that fails may seem to report

VARIABLES queue,     \* the bytes held
          offered,   \* the bytes the last call was offered
          accepted,  \* how many of them it took
          returned   \* the bytes the last call returned

vars == <<queue, offered, accepted, returned>>

Init == queue = <<>> /\ offered = <<>> /\ accepted = 0 /\ returned = <<>>

Put(s) == \E n \in 0..Len(s) : /\ queue' = queue \o SubSeq(s, 1, n)
                               /\ offered' = s /\ accepted' = n /\ returned' = <<>>

Take == \E n \in 0..Len(queue) : /\ n <= MaxRead
                                 /\ queue' = SubSeq(queue, n + 1, Len(queue))
                                 /\ offered' = <<>> /\ accepted' = 0
                                 /\ returned' = SubSeq(queue, 1, n)

Fail == /\ UNCHANGED queue
        /\ offered' = <<>> /\ accepted' \in Leftover /\ returned' = <<>>

Next == Take \/ Fail \/ \E s \in Chunk : Put(s)

Spec == Init /\ [][Next]_vars
=============================================================================
