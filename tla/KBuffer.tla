------------------------------- MODULE KBuffer ------------------------------
(***************************************************************************)
(* KBuffer (reactor/KBuffer.h, KBuffer.cpp): a byte queue in a list of     *)
(* blocks of BlockSize bytes.                                              *)
(*                                                                         *)
(* mem holds the bytes of the blocks from head_ to tail_, one block after  *)
(* the other, so buflen_ is Len(mem).  A block pointer is the place of the *)
(* block in the list, 1 for head_, or 0 for null.  A position is a block   *)
(* and an offset; the end of a block and the start of the next are the     *)
(* same place but not the same position.                                   *)
(***************************************************************************)
EXTENDS Integers, Sequences

CONSTANTS BlockSize, MaxBlockSize,  \* BLOCK_SIZE, MAX_BLOCK_SIZE
          ExtraSize,                \* the size of readFd's extrabuf
          Byte, Newline,
          Fillings, \* the sets of operations that may fill one buffer
          Chunk,    \* what is offered to write
          Message,  \* what sendInLoop has left to write
          Waiting,  \* what may wait in the socket
          Leftover, \* what the caller may find as the result of a readFd that fails
          MaxRead   \* bound on the bytes asked for at a time

ASSUME SizeAssumption == /\ BlockSize \in Nat \ {0} /\ MaxBlockSize \in Nat \ {0} /\ ExtraSize \in Nat
                         /\ MaxBlockSize % BlockSize = 0
ASSUME FillingsAssumption == Fillings \subseteq SUBSET {"write", "send", "readFd"}
ASSUME ByteAssumption == /\ Newline \in Byte /\ \E x \in Byte : x # Newline
                         /\ Chunk \subseteq Seq(Byte) /\ Message \subseteq Seq(Byte)
                         /\ Waiting \subseteq Seq(Byte) /\ MaxRead \in Nat /\ Leftover \subseteq Int

VARIABLES mem, readstr, readablePos, writestr, writablePos,
          readableSize, writableSize, usedSize,
          ops,  \* how its owner fills this buffer: by write at any time ("write"), by
                \* write when it is empty, as sendInLoop does ("send"), or by "readFd"
          offered, accepted, returned  \* history: the last call, as in ByteQueue

readVars == <<readstr, readablePos>>
members == <<mem, readVars, writestr, writablePos, readableSize, writableSize, usedSize>>
vars == <<members, ops, offered, accepted, returned>>

Init == /\ mem = <<>> /\ readstr = 0 /\ readablePos = 0 /\ writestr = 0 /\ writablePos = 0
        /\ readableSize = 0 /\ writableSize = 0 /\ usedSize = 0
        /\ ops \in Fillings
        /\ offered = <<>> /\ accepted = 0 /\ returned = <<>>
-----------------------------------------------------------------------------
(***************************************************************************)
(* Positions.                                                              *)
(***************************************************************************)
\* How many bytes of the list precede a position.
Place(block, pos) == IF block = 0 THEN 0 ELSE (block - 1) * BlockSize + pos

\* The position do_write and retrieve leave behind: the end of a block only
\* when no block follows.
Settle(place, length) ==
  IF place = length /\ length > 0 THEN <<place \div BlockSize, BlockSize>>
  ELSE IF length = 0 THEN <<0, 0>>
  ELSE <<place \div BlockSize + 1, place % BlockSize>>

\* The position readFd leaves behind when the bytes pass the end of a block.
Unsettled(place) ==
  IF place % BlockSize = 0 THEN <<place \div BlockSize, BlockSize>>
                           ELSE <<place \div BlockSize + 1, place % BlockSize>>

\* memcpy of s into m, from a place on.
Copied(m, place, s) ==
  [i \in 1..Len(m) |-> IF i \in place + 1..place + Len(s) THEN s[i - place] ELSE m[i]]

Contents == SubSeq(mem, Place(readstr, readablePos) + 1, Place(readstr, readablePos) + readableSize)

\* The members, as the helpers below pass them on.
Buffer == [m |-> mem, rs |-> readstr, ws |-> writestr, wp |-> writablePos,
           writable |-> writableSize, used |-> usedSize, readable |-> readableSize]
-----------------------------------------------------------------------------
(***************************************************************************)
(* Writing.                                                                *)
(***************************************************************************)
\* A position past the last block stands for following its null next.
DoWrite(b, s) ==
  LET place == Place(b.ws, b.wp) + Len(s)
      p == Settle(place, Len(b.m))
  IN [b EXCEPT !.m = Copied(b.m, Place(b.ws, b.wp), s), !.ws = p[1], !.wp = p[2],
               !.readable = @ + Len(s), !.writable = @ - Len(s)]

\* move_head: the blocks before readstr_ go to the tail.
MoveHead(b) ==
  LET k == b.rs - 1
      n == Len(b.m) \div BlockSize
  IN IF b.rs <= 1 THEN b
     ELSE [b EXCEPT !.m = SubSeq(@, k * BlockSize + 1, Len(@)) \o SubSeq(@, 1, k * BlockSize),
                    !.rs = 1,
                    !.ws = IF @ > k THEN @ - k ELSE @ + n - k,
                    !.writable = @ + (b.used - readablePos),
                    !.used = readablePos]

\* makeSpace: whole blocks for len bytes, zeroed, at the tail.
MakeSpace(b, len) ==
  LET k == (len + BlockSize - 1) \div BlockSize
      zero == CHOOSE x \in Byte : x # Newline
      c == [b EXCEPT !.m = @ \o [i \in 1..k * BlockSize |-> zero],
                     !.rs = IF @ = 0 THEN 1 ELSE @, !.ws = IF @ = 0 THEN 1 ELSE @,
                     !.writable = @ + k * BlockSize]
  IN IF b.wp = BlockSize THEN [c EXCEPT !.ws = @ + 1, !.wp = 0] ELSE c

\* Faulty: the space before the read position is not all in moved blocks.
FreeUsed(b) == b.used + b.writable

\* Faulty: the blocks already read are not counted.
FreeBehind(b) == b.writable

\* The space behind the write position and in the blocks already read.
Free(b) == b.used - readablePos + b.writable

\* write: the buffer afterwards and the number of bytes written.
Written(b, s) ==
  LET moved == MoveHead(b)
  IN CASE Len(s) > Free(b) /\ Len(b.m) >= MaxBlockSize -> [buf |-> b, n |-> 0]
       [] Len(s) <= b.writable -> [buf |-> DoWrite(b, s), n |-> Len(s)]
       [] Len(s) > b.writable /\ Len(s) <= Free(b) -> [buf |-> DoWrite(moved, s), n |-> Len(s)]
       [] Len(s) > Free(b) /\ Len(b.m) < MaxBlockSize ->
            IF Len(s) + moved.writable > MaxBlockSize
              THEN [buf |-> moved, n |-> 0]
              ELSE [buf |-> DoWrite(MakeSpace(moved, Len(s)), s), n |-> Len(s)]

Become(b, pos) ==
  /\ mem' = b.m /\ readstr' = b.rs /\ readablePos' = pos
  /\ writestr' = b.ws /\ writablePos' = b.wp
  /\ readableSize' = b.readable /\ writableSize' = b.writable /\ usedSize' = b.used
  /\ UNCHANGED ops

Store(s) ==
  /\ LET w == Written(Buffer, s) IN Become(w.buf, readablePos) /\ accepted' = w.n
  /\ offered' = s /\ returned' = <<>>

Write(s) == "write" \in ops /\ Store(s)

\* sendInLoop writes only to an empty buffer, and anything.
Send(s) == "send" \in ops /\ readableSize = 0 /\ Store(s)

\* readFd, with the bytes s in the socket: readv fills the blocks from the
\* write position on, and then extrabuf, from which the rest is written.
\* Bytes of extrabuf for which write has no room are lost.
ReadFd(s) ==
  /\ "readFd" \in ops
  /\ LET t == IF Len(s) <= writableSize + ExtraSize THEN Len(s) ELSE writableSize + ExtraSize
         here == Place(writestr, writablePos)
         n == Len(mem) \div BlockSize
         p == IF writablePos + t <= BlockSize THEN <<writestr, writablePos + t>> ELSE Unsettled(here + t)
     IN IF t <= writableSize
          THEN /\ Become([Buffer EXCEPT !.m = Copied(mem, here, SubSeq(s, 1, t)),
                                        !.ws = p[1], !.wp = p[2],
                                        !.writable = @ - t, !.readable = @ + t], readablePos)
               /\ accepted' = t
          ELSE LET full == [Buffer EXCEPT !.m = Copied(mem, here, SubSeq(s, 1, writableSize)),
                                          !.ws = n, !.wp = IF n = 0 THEN 0 ELSE BlockSize,
                                          !.writable = 0, !.readable = @ + writableSize]
                   w == Written(full, SubSeq(s, writableSize + 1, t))
               IN Become(w.buf, readablePos) /\ accepted' = writableSize + w.n
  /\ offered' = s /\ returned' = <<>>

\* readFd, when readv fails: it prints and ends without a return statement, so
\* the caller takes for the count whatever it finds.
ReadFdFails ==
  /\ "readFd" \in ops
  /\ accepted' \in Leftover /\ offered' = <<>> /\ returned' = <<>>
  /\ UNCHANGED <<members, ops>>
-----------------------------------------------------------------------------
(***************************************************************************)
(* Reading.                                                                *)
(***************************************************************************)
Retrieve(len) ==
  LET l == IF len > readableSize THEN readableSize ELSE len
      p == Settle(Place(readstr, readablePos) + l, Len(mem))
  IN /\ readableSize' = readableSize - l /\ usedSize' = usedSize + l
     /\ readstr' = p[1] /\ readablePos' = p[2]

\* Faulty: the read position in the block is not taken into account.
PeekFromBlock(len) ==
  SubSeq(mem, Place(readstr, 0) + 1, Place(readstr, 0) + (IF len > readableSize THEN readableSize ELSE len))

Peek(len) == SubSeq(Contents, 1, IF len > readableSize THEN readableSize ELSE len)

\* read: peek, and retrieve.  handleWrite retrieves from a buffer that sendInLoop
\* fills only after it wrote bytes of it, or, when it has no block, stray ones.
Read(len) ==
  /\ "send" \in ops => readableSize > 0 \/ mem = <<>>
  /\ returned' = Peek(len) /\ offered' = <<>> /\ accepted' = 0
  /\ Retrieve(len)
  /\ UNCHANGED <<mem, writestr, writablePos, writableSize, ops>>

\* getLine, called with bytes to read: up to the first newline, if there is one.
GetLine ==
  /\ readableSize > 0
  /\ \E i \in 1..readableSize : /\ Contents[i] = Newline
                                /\ \A j \in 1..i - 1 : Contents[j] # Newline
                                /\ i <= MaxRead /\ Read(i)
-----------------------------------------------------------------------------
Next == \/ \E s \in Chunk : Write(s)
        \/ \E s \in Message : Send(s)
        \/ \E s \in Waiting : ReadFd(s)
        \/ ReadFdFails
        \/ \E len \in 0..MaxRead : Read(len)
        \/ GetLine

Spec == Init /\ [][Next]_vars
-----------------------------------------------------------------------------
(***************************************************************************)
(* What the owner of a buffer has to keep to: it is filled in one way      *)
(* only, and what is written to a buffer that is not empty is no more than *)
(* half the limit.                                                         *)
(***************************************************************************)
OneFilling == \A f \in Fillings : \A a, b \in f : a = b
SmallWrites == \A s \in Chunk : 2 * Len(s) <= MaxBlockSize
-----------------------------------------------------------------------------
(***************************************************************************)
(* Properties.                                                             *)
(***************************************************************************)
\* The types; the buffer stops growing once it has MaxBlockSize bytes.
TypeOK ==
  /\ mem \in Seq(Byte) /\ Len(mem) % BlockSize = 0 /\ Len(mem) < 2 * MaxBlockSize
  /\ readstr \in 0..Len(mem) \div BlockSize /\ writestr \in 0..Len(mem) \div BlockSize
  /\ readablePos \in 0..BlockSize /\ writablePos \in 0..BlockSize
  /\ ops \in Fillings /\ readableSize \in Nat /\ writableSize \in Nat /\ usedSize \in Nat

\* The three sizes are what KBuffer.h:127-132 says of them: from the read to
\* the write position, from there to the end of the last block, and from the
\* head to the read position.  It fails too where a null next was followed.
SizesAgree ==
  /\ writestr * BlockSize <= Len(mem)
  /\ readableSize = Place(writestr, writablePos) - Place(readstr, readablePos)
  /\ writableSize = Len(mem) - Place(writestr, writablePos)
  /\ usedSize = Place(readstr, readablePos)

\* A write of at most half the limit that leaves a block of the limit free is
\* taken as a whole, however the bytes are spread over the blocks and also
\* after a larger one was refused: the queue below may refuse it.
SmallWritesTaken ==
  [][\A s \in Chunk \cup Message :
       /\ Write(s) \/ Send(s)
       /\ 2 * Len(s) <= MaxBlockSize /\ readableSize + Len(s) + BlockSize <= MaxBlockSize
       => accepted' = Len(s)]_vars

\* The buffer is a byte queue, across blocks, their reuse and growth, refused
\* writes and failed reads, and a call that does not fail reports truly how
\* many bytes it took.
Queue == INSTANCE ByteQueue WITH Chunk <- Chunk \cup Message \cup Waiting, queue <- Contents
ImplementsByteQueue == Queue!Spec
=============================================================================
