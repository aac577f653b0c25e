---------------------------- MODULE KBufferProofs ---------------------------
(***************************************************************************)
(* Proofs about KBuffer, for any sizes of its blocks, of the limit and of  *)
(* the extra buffer, and any bytes: the sizes are what the header says,    *)
(* and the buffer is a byte queue, whatever is written, moved and grown.   *)
(***************************************************************************)
EXTENDS KBuffer, Integers, SequenceTheorems, TLAPS

-----------------------------------------------------------------------------
(***************************************************************************)
(* Blocks and places.                                                      *)
(***************************************************************************)
LEMMA Blocks ==
  ASSUME NEW n \in Nat
  PROVE  /\ n * BlockSize \in Nat /\ (n > 0 => n * BlockSize >= BlockSize)
         /\ (n * BlockSize) \div BlockSize = n /\ (n * BlockSize) % BlockSize = 0
         /\ \A k \in Nat : (n + k) * BlockSize = n * BlockSize + k * BlockSize
         /\ \A k \in Nat : k <= n => (n - k) * BlockSize = n * BlockSize - k * BlockSize
         /\ \A k \in Nat : k <= n => k * BlockSize <= n * BlockSize
         /\ \A k \in Nat : k < n => k * BlockSize + BlockSize <= n * BlockSize
<1> BlockSize \in Nat \ {0}
  BY SizeAssumption
<1> QED
  OBVIOUS

\* A number of bytes is made of blocks and a rest.
LEMMA BlocksOf ==
  ASSUME NEW x \in Nat
  PROVE  /\ x \div BlockSize \in Nat /\ x % BlockSize \in 0..BlockSize - 1
         /\ x = (x \div BlockSize) * BlockSize + (x % BlockSize)
<1> BlockSize \in Nat \ {0}
  BY SizeAssumption
<1> QED
  OBVIOUS

\* The blocks that are added for len bytes have room for them, and less than
\* one block more.
BlocksFor(len) == (len + BlockSize - 1) \div BlockSize

LEMMA BlocksForIs ==
  ASSUME NEW len \in Nat \ {0}
  PROVE  /\ BlocksFor(len) \in Nat \ {0} /\ BlocksFor(len) * BlockSize \in Nat
         /\ BlocksFor(len) * BlockSize >= len /\ BlocksFor(len) * BlockSize < len + BlockSize
<1> DEFINE x == len + BlockSize - 1
           q == x \div BlockSize
           r == x % BlockSize
<1> BlockSize \in Nat \ {0}
  BY SizeAssumption
<1>1. x \in Nat
  OBVIOUS
<1>2. q \in Nat /\ r \in 0..BlockSize - 1 /\ x = q * BlockSize + r
  BY <1>1, BlocksOf
<1>3. q = BlocksFor(len)
  BY DEF BlocksFor
<1> HIDE DEF q, r
<1>4. q * BlockSize \in Nat /\ (q = 0 => q * BlockSize = 0)
  BY <1>2, Blocks
<1>5. q * BlockSize >= len /\ q * BlockSize < len + BlockSize
  BY <1>2, <1>4
<1>6. q # 0
  BY <1>4, <1>5
<1> QED
  BY <1>2, <1>3, <1>4, <1>5, <1>6

\* A position inside a list of n blocks, and where it is.
Position(block, pos, n) ==
  /\ block \in 0..n /\ pos \in 0..BlockSize
  /\ n > 0 => block > 0
  /\ n = 0 => pos = 0

LEMMA PlaceInside ==
  ASSUME NEW n \in Nat, NEW block, NEW pos, Position(block, pos, n)
  PROVE  /\ Place(block, pos) \in 0..n * BlockSize
         /\ block > 0 => Place(block, pos) = (block - 1) * BlockSize + pos
         /\ n = 0 => Place(block, pos) = 0
<1> BlockSize \in Nat \ {0}
  BY SizeAssumption
<1>1. CASE block = 0
  BY <1>1 DEF Place, Position
<1>2. CASE block > 0
  <2>1. block - 1 \in Nat /\ block - 1 < n /\ n > 0
    BY <1>2 DEF Position
  <2>2. (block - 1) * BlockSize \in Nat /\ (block - 1) * BlockSize + BlockSize <= n * BlockSize
    BY <2>1, Blocks
  <2> QED
    BY <1>2, <2>1, <2>2 DEF Place, Position
<1> QED
  BY <1>1, <1>2 DEF Position

LEMMA SettlePlaces ==
  ASSUME NEW n \in Nat, NEW x \in 0..n * BlockSize
  PROVE  LET p == Settle(x, n * BlockSize) IN
         /\ Position(p[1], p[2], n) /\ Place(p[1], p[2]) = x
         /\ p[2] = BlockSize => p[1] = n
<1> DEFINE p == Settle(x, n * BlockSize)
<1> BlockSize \in Nat \ {0}
  BY SizeAssumption
<1>0. n * BlockSize \in Nat /\ (n = 0 => n * BlockSize = 0) /\ (n > 0 => n * BlockSize > 0)
  BY Blocks
<1>1. CASE n = 0
  <2>1. n * BlockSize = 0 /\ x = 0
    BY <1>0, <1>1
  <2>2. p = <<0, 0>>
    BY <2>1 DEF Settle
  <2> HIDE DEF p
  <2> QED
    BY <1>1, <2>1, <2>2 DEF Position, Place, p
<1>2. CASE n > 0 /\ x = n * BlockSize
  <2>1. p = <<n, BlockSize>>
    BY <1>0, <1>2, Blocks DEF Settle
  <2>2. (n - 1) * BlockSize = n * BlockSize - BlockSize
    BY <1>2
  <2> HIDE DEF p
  <2> QED
    BY <1>2, <2>1, <2>2 DEF Position, Place, p
<1>3. CASE n > 0 /\ x < n * BlockSize
  <2>1. x \in Nat
    BY <1>0
  <2>2. p = <<x \div BlockSize + 1, x % BlockSize>>
    BY <1>0, <1>3 DEF Settle
  <2> DEFINE q == x \div BlockSize
             r == x % BlockSize
  <2>3. q \in Nat /\ r \in 0..BlockSize - 1 /\ x = q * BlockSize + r
    BY <2>1, BlocksOf
  <2> HIDE DEF p, q, r
  <2>4. q < n
    <3>1. q >= n => q * BlockSize >= n * BlockSize
      BY <2>3, Blocks
    <3>2. q * BlockSize \in Nat
      BY <2>3, Blocks
    <3> QED
      BY <1>0, <1>3, <2>3, <3>1, <3>2
  <2>5. p[1] = q + 1 /\ p[2] = r
    BY <2>2 DEF q, r
  <2>6. Place(q + 1, r) = x
    <3>1. Place(q + 1, r) = (q + 1 - 1) * BlockSize + r
      BY <2>3 DEF Place
    <3>2. q + 1 - 1 = q
      BY <2>3
    <3> QED
      BY <2>3, <3>1, <3>2
  <2> QED
    BY <1>3, <2>3, <2>4, <2>5, <2>6 DEF Position, p
<1> QED
  BY <1>0, <1>1, <1>2, <1>3

LEMMA UnsettledPlaces ==
  ASSUME NEW n \in Nat, NEW x \in 1..n * BlockSize
  PROVE  LET p == Unsettled(x) IN Position(p[1], p[2], n) /\ Place(p[1], p[2]) = x
<1> DEFINE p == Unsettled(x)
           q == x \div BlockSize
           r == x % BlockSize
<1> BlockSize \in Nat \ {0}
  BY SizeAssumption
<1>0. n * BlockSize \in Nat /\ x \in Nat \ {0} /\ n > 0
  BY Blocks
<1>1. q \in Nat /\ r \in 0..BlockSize - 1 /\ x = q * BlockSize + r
  BY <1>0, BlocksOf
<1>2. p = IF r = 0 THEN <<q, BlockSize>> ELSE <<q + 1, r>>
  BY DEF Unsettled
<1> HIDE DEF p, q, r
<1>3. q * BlockSize \in Nat /\ (q > n => q * BlockSize > n * BlockSize) /\ (q = n => q * BlockSize = n * BlockSize)
  BY <1>1, Blocks
<1>4. CASE r = 0
  <2>1. q > 0 /\ q <= n /\ (q - 1) * BlockSize = q * BlockSize - BlockSize
    BY <1>0, <1>1, <1>3, <1>4
  <2> QED
    BY <1>0, <1>1, <1>2, <1>4, <2>1 DEF Position, Place, p
<1>5. CASE r > 0
  <2>1. q < n
    BY <1>0, <1>1, <1>3, <1>5
  <2>2. Place(q + 1, r) = q * BlockSize + r
    <3>1. Place(q + 1, r) = (q + 1 - 1) * BlockSize + r
      BY <1>1 DEF Place
    <3>2. q + 1 - 1 = q
      BY <1>1
    <3> QED
      BY <1>1, <3>1, <3>2
  <2> QED
    BY <1>0, <1>1, <1>2, <1>5, <2>1, <2>2 DEF Position, p
<1> QED
  BY <1>1, <1>4, <1>5
-----------------------------------------------------------------------------
(***************************************************************************)
(* Sequences.                                                              *)
(***************************************************************************)
LEMMA FunctionIsSeq ==
  ASSUME NEW n \in Nat, NEW f \in [1..n -> Byte]
  PROVE  f \in Seq(Byte) /\ Len(f) = n
<1>1. f \in Seq(Byte)
  BY SeqDef
<1>2. Len(f) \in Nat /\ DOMAIN f = 1..Len(f) /\ DOMAIN f = 1..n
  BY <1>1, LenProperties
<1> QED
  BY <1>1, <1>2

\* l elements of s, behind the first a.
Slice(s, a, l) == SubSeq(s, a + 1, a + l)

LEMMA SliceIs ==
  ASSUME NEW s \in Seq(Byte), NEW a \in Nat, NEW l \in Nat, a + l <= Len(s)
  PROVE  /\ Slice(s, a, l) \in Seq(Byte) /\ Len(Slice(s, a, l)) = l
         /\ \A i \in 1..l : Slice(s, a, l)[i] = s[a + i]
<1>1. Len(s) \in Nat /\ \A i \in a + 1..a + l : s[i] \in Byte
  BY LenProperties, ElementOfSeq
<1>2. a + 1 \in Int /\ a + l \in Int
  OBVIOUS
<1>3. /\ SubSeq(s, a + 1, a + l) \in Seq(Byte)
      /\ Len(SubSeq(s, a + 1, a + l)) = IF a + 1 <= a + l THEN a + l - (a + 1) + 1 ELSE 0
      /\ \A i \in 1..a + l - (a + 1) + 1 : SubSeq(s, a + 1, a + l)[i] = s[a + 1 + i - 1]
  BY <1>1, <1>2, SubSeqProperties
<1>4. a + l - (a + 1) + 1 = l /\ (a + 1 <= a + l <=> l > 0) /\ \A i \in 1..l : a + 1 + i - 1 = a + i
  OBVIOUS
<1> QED
  BY <1>3, <1>4 DEF Slice

\* A slice of a slice, and two that are adjacent.
LEMMA SliceOfSlice ==
  ASSUME NEW s \in Seq(Byte), NEW a \in Nat, NEW l \in Nat, a + l <= Len(s),
         NEW b \in Nat, NEW k \in Nat, b + k <= l
  PROVE  Slice(Slice(s, a, l), b, k) = Slice(s, a + b, k)
<1> DEFINE t == Slice(s, a, l)
           u == Slice(t, b, k)
           v == Slice(s, a + b, k)
<1>0. Len(s) \in Nat
  BY LenProperties
<1>1. t \in Seq(Byte) /\ Len(t) = l /\ \A i \in 1..l : t[i] = s[a + i]
  BY SliceIs
<1> HIDE DEF t
<1>2. u \in Seq(Byte) /\ Len(u) = k /\ \A i \in 1..k : u[i] = t[b + i]
  BY <1>1, SliceIs
<1>3. v \in Seq(Byte) /\ Len(v) = k /\ \A i \in 1..k : v[i] = s[a + b + i]
  <2>1. a + b \in Nat /\ a + b + k <= Len(s)
    BY <1>0
  <2> QED
    BY <2>1, SliceIs
<1> HIDE DEF u, v
<1>4. \A i \in 1..k : u[i] = v[i]
  <2> SUFFICES ASSUME NEW i \in 1..k PROVE u[i] = v[i]
    OBVIOUS
  <2>1. b + i \in 1..l /\ a + (b + i) = a + b + i
    OBVIOUS
  <2> QED
    BY <1>1, <1>2, <1>3, <2>1
<1>5. u = v
  BY <1>2, <1>3, <1>4, SeqEqual
<1> QED
  BY <1>5 DEF t, u, v

LEMMA SlicesJoin ==
  ASSUME NEW s \in Seq(Byte), NEW a \in Nat, NEW l \in Nat, NEW k \in Nat, a + l + k <= Len(s),
         NEW b, b = a + l
  PROVE  Slice(s, a, l) \o Slice(s, b, k) = Slice(s, a, l + k)
<1>1. Len(s) \in Nat /\ a + 1 \in 1..Len(s) + 1 /\ a + l \in a + 1 - 1..Len(s) /\ a + l + k \in a + l..Len(s)
  BY LenProperties
<1>2. SubSeq(s, a + 1, a + l) \o SubSeq(s, a + l + 1, a + l + k) = SubSeq(s, a + 1, a + l + k)
  BY <1>1, ConcatAdjacentSubSeq
<1>3. a + (l + k) = a + l + k
  OBVIOUS
<1> QED
  BY <1>2, <1>3 DEF Slice

LEMMA JoinAssociative ==
  ASSUME NEW u \in Seq(Byte), NEW v \in Seq(Byte), NEW x \in Seq(Byte)
  PROVE  (u \o v) \o x = u \o (v \o x)
BY ConcatAssociative

LEMMA CopiedIs ==
  ASSUME NEW m \in Seq(Byte), NEW s \in Seq(Byte), NEW a \in Nat, a + Len(s) <= Len(m)
  PROVE  /\ Copied(m, a, s) \in Seq(Byte) /\ Len(Copied(m, a, s)) = Len(m)
         /\ \A i \in 1..Len(m) :
              Copied(m, a, s)[i] = IF i \in a + 1..a + Len(s) THEN s[i - a] ELSE m[i]
<1> DEFINE c == Copied(m, a, s)
<1>1. Len(m) \in Nat /\ Len(s) \in Nat
  BY LenProperties
<1>2. \A i \in 1..Len(m) : (IF i \in a + 1..a + Len(s) THEN s[i - a] ELSE m[i]) \in Byte
  <2> SUFFICES ASSUME NEW i \in 1..Len(m)
               PROVE  (IF i \in a + 1..a + Len(s) THEN s[i - a] ELSE m[i]) \in Byte
    OBVIOUS
  <2>1. CASE i \in a + 1..a + Len(s)
    <3>1. i - a \in 1..Len(s)
      BY <1>1, <2>1
    <3> QED
      BY <2>1, <3>1, ElementOfSeq
  <2>2. CASE i \notin a + 1..a + Len(s)
    BY <2>2, ElementOfSeq
  <2> QED
    BY <2>1, <2>2
<1>3. c \in [1..Len(m) -> Byte] /\ \A i \in 1..Len(m) : c[i] = IF i \in a + 1..a + Len(s) THEN s[i - a] ELSE m[i]
  BY <1>2 DEF Copied
<1> HIDE DEF c
<1>4. c \in Seq(Byte) /\ Len(c) = Len(m)
  BY <1>1, <1>3, FunctionIsSeq
<1> QED
  BY <1>3, <1>4 DEF c

\* What is copied behind a slice lengthens it.
LEMMA CopiedBehind ==
  ASSUME NEW m \in Seq(Byte), NEW s \in Seq(Byte), NEW a \in Nat, NEW l \in Nat,
         a + l + Len(s) <= Len(m)
  PROVE  Slice(Copied(m, a + l, s), a, l + Len(s)) = Slice(m, a, l) \o s
<1> DEFINE c == Copied(m, a + l, s)
           u == Slice(c, a, l + Len(s))
           h == Slice(m, a, l)
           v == h \o s
<1>1. Len(m) \in Nat /\ Len(s) \in Nat
  BY LenProperties
<1>2. /\ c \in Seq(Byte) /\ Len(c) = Len(m)
      /\ \A i \in 1..Len(m) : c[i] = IF i \in a + l + 1..a + l + Len(s) THEN s[i - (a + l)] ELSE m[i]
  <2>1. a + l \in Nat
    OBVIOUS
  <2> QED
    BY <2>1, CopiedIs
<1> HIDE DEF c
<1>3. u \in Seq(Byte) /\ Len(u) = l + Len(s) /\ \A i \in 1..l + Len(s) : u[i] = c[a + i]
  <2>1. l + Len(s) \in Nat /\ a + (l + Len(s)) <= Len(c)
    BY <1>1, <1>2
  <2> QED
    BY <1>2, <2>1, SliceIs
<1>4. h \in Seq(Byte) /\ Len(h) = l /\ \A i \in 1..l : h[i] = m[a + i]
  <2>1. a + l <= Len(m)
    BY <1>1
  <2> QED
    BY <2>1, SliceIs
<1> HIDE DEF u, h
<1>5. v \in Seq(Byte) /\ Len(v) = l + Len(s) /\ \A i \in 1..l + Len(s) : v[i] = IF i <= l THEN h[i] ELSE s[i - l]
  BY <1>4, ConcatProperties
<1> HIDE DEF v
<1>6. \A i \in 1..l + Len(s) : u[i] = v[i]
  <2> SUFFICES ASSUME NEW i \in 1..l + Len(s) PROVE u[i] = v[i]
    OBVIOUS
  <2>1. a + i \in 1..Len(m) /\ u[i] = c[a + i]
    BY <1>1, <1>3
  <2>2. CASE i <= l
    <3>1. i \in 1..l /\ a + i \notin a + l + 1..a + l + Len(s)
      BY <1>1, <2>2
    <3>2. c[a + i] = m[a + i]
      BY <1>2, <2>1, <3>1
    <3>3. v[i] = h[i] /\ h[i] = m[a + i]
      BY <1>4, <1>5, <2>2, <3>1
    <3> QED
      BY <2>1, <3>2, <3>3
  <2>3. CASE i > l
    <3>1. a + i \in a + l + 1..a + l + Len(s) /\ a + i - (a + l) = i - l
      BY <1>1, <2>3
    <3>2. c[a + i] = s[a + i - (a + l)]
      BY <1>2, <2>1, <3>1
    <3>3. v[i] = s[i - l]
      BY <1>1, <1>5, <2>3
    <3> QED
      BY <2>1, <3>1, <3>2, <3>3
  <2> QED
    BY <1>1, <2>2, <2>3
<1>7. u = v
  BY <1>3, <1>5, <1>6, SeqEqual
<1> QED
  BY <1>7 DEF u, v, h, c
\* What follows does not change a slice.
LEMMA SliceOfFront ==
  ASSUME NEW s \in Seq(Byte), NEW z \in Seq(Byte), NEW a \in Nat, NEW l \in Nat, a + l <= Len(s)
  PROVE  Slice(s \o z, a, l) = Slice(s, a, l)
<1> DEFINE c == s \o z
           u == Slice(c, a, l)
           v == Slice(s, a, l)
<1>0. Len(s) \in Nat /\ Len(z) \in Nat
  BY LenProperties
<1>1. c \in Seq(Byte) /\ Len(c) = Len(s) + Len(z) /\ \A i \in 1..Len(s) : c[i] = s[i]
  <2>1. /\ c \in Seq(Byte) /\ Len(c) = Len(s) + Len(z)
        /\ \A i \in 1..Len(s) + Len(z) : c[i] = IF i <= Len(s) THEN s[i] ELSE z[i - Len(s)]
    BY ConcatProperties
  <2>2. \A i \in 1..Len(s) : i \in 1..Len(s) + Len(z) /\ i <= Len(s)
    BY <1>0
  <2> QED
    BY <2>1, <2>2
<1> HIDE DEF c
<1>2. u \in Seq(Byte) /\ Len(u) = l /\ \A i \in 1..l : u[i] = c[a + i]
  <2>1. a + l <= Len(c)
    BY <1>0, <1>1
  <2> QED
    BY <1>1, <2>1, SliceIs
<1>3. v \in Seq(Byte) /\ Len(v) = l /\ \A i \in 1..l : v[i] = s[a + i]
  BY SliceIs
<1> HIDE DEF u, v
<1>4. \A i \in 1..l : u[i] = v[i]
  <2> SUFFICES ASSUME NEW i \in 1..l PROVE u[i] = v[i]
    OBVIOUS
  <2>1. a + i \in 1..Len(s)
    BY <1>0
  <2> QED
    BY <1>1, <1>2, <1>3, <2>1
<1>5. u = v
  BY <1>2, <1>3, <1>4, SeqEqual
<1> QED
  BY <1>5 DEF u, v, c

\* A sequence whose first a elements go to its end, and its slices.
Turned(s, a) == SubSeq(s, a + 1, Len(s)) \o SubSeq(s, 1, a)

LEMMA Rotated ==
  ASSUME NEW s \in Seq(Byte), NEW a \in Nat, NEW b \in Nat, NEW l \in Nat, a + b + l <= Len(s)
  PROVE  /\ Turned(s, a) \in Seq(Byte) /\ Len(Turned(s, a)) = Len(s)
         /\ Slice(Turned(s, a), b, l) = Slice(s, a + b, l)
<1> DEFINE t == SubSeq(s, a + 1, Len(s))
           h == SubSeq(s, 1, a)
           r == t \o h
           u == Slice(r, b, l)
           v == Slice(s, a + b, l)
           e == Len(s) - a
<1>0. Len(s) \in Nat /\ e \in Nat /\ a + e = Len(s) /\ b + l <= e
  BY LenProperties
<1> HIDE DEF e
<1>1. t \in Seq(Byte) /\ Len(t) = e /\ \A i \in 1..e : t[i] = s[a + i]
  <2>1. t = Slice(s, a, e)
    BY <1>0 DEF Slice
  <2> QED
    BY <1>0, <2>1, SliceIs
<1>2. h \in Seq(Byte) /\ Len(h) = a
  <2>1. 0 \in Nat /\ 0 + a <= Len(s) /\ 0 + 1 = 1 /\ 0 + a = a
    BY <1>0
  <2>2. h = Slice(s, 0, a)
    BY <2>1 DEF Slice
  <2>3. Slice(s, 0, a) \in Seq(Byte) /\ Len(Slice(s, 0, a)) = a
    BY <2>1, SliceIs
  <2> QED
    BY <2>2, <2>3
<1> HIDE DEF t, h
<1>3. r \in Seq(Byte) /\ Len(r) = e + a /\ \A i \in 1..e : r[i] = t[i]
  <2>1. r \in Seq(Byte) /\ Len(r) = e + a /\ \A i \in 1..e + a : r[i] = IF i <= e THEN t[i] ELSE h[i - e]
    BY <1>1, <1>2, ConcatProperties
  <2>2. \A i \in 1..e : i \in 1..e + a /\ i <= e
    BY <1>0
  <2> QED
    BY <2>1, <2>2
<1> HIDE DEF r
<1>4. u \in Seq(Byte) /\ Len(u) = l /\ \A i \in 1..l : u[i] = r[b + i]
  <2>1. b + l <= Len(r)
    BY <1>0, <1>3
  <2> QED
    BY <1>3, <2>1, SliceIs
<1>5. v \in Seq(Byte) /\ Len(v) = l /\ \A i \in 1..l : v[i] = s[a + b + i]
  <2>1. a + b \in Nat
    OBVIOUS
  <2> QED
    BY <2>1, SliceIs
<1> HIDE DEF u, v
<1>6. \A i \in 1..l : u[i] = v[i]
  <2> SUFFICES ASSUME NEW i \in 1..l PROVE u[i] = v[i]
    OBVIOUS
  <2>1. b + i \in 1..e /\ a + (b + i) = a + b + i
    BY <1>0
  <2>2. r[b + i] = t[b + i] /\ t[b + i] = s[a + (b + i)]
    BY <1>1, <1>3, <2>1
  <2> QED
    BY <1>4, <1>5, <2>1, <2>2
<1>7. u = v
  BY <1>4, <1>5, <1>6, SeqEqual
<1>8. r \in Seq(Byte) /\ Len(r) = Len(s) /\ u = v
  BY <1>0, <1>3, <1>7
<1> QED
  BY <1>8 DEF r, t, h, u, v, Turned
-----------------------------------------------------------------------------
(***************************************************************************)
(* A buffer of n blocks, whose read position has the offset pos.           *)
(***************************************************************************)
BufferType == [m : Seq(Byte), rs : Nat, ws : Nat, wp : Nat,
               writable : Nat, used : Nat, readable : Nat]

BufferOk(b, pos, n) ==
  /\ b \in BufferType /\ Len(b.m) = n * BlockSize
  /\ Position(b.rs, pos, n) /\ Position(b.ws, b.wp, n)
  /\ b.used = Place(b.rs, pos) /\ b.used + b.readable = Place(b.ws, b.wp)
  /\ b.used + b.readable + b.writable = n * BlockSize

\* The write position is at the end of a block only when no block follows.
Settled(b, n) == b.wp = BlockSize => b.ws = n

Held(b) == Slice(b.m, b.used, b.readable)

LEMMA HeldIs ==
  ASSUME NEW b, NEW pos, NEW n \in Nat, BufferOk(b, pos, n)
  PROVE  Held(b) \in Seq(Byte) /\ Len(Held(b)) = b.readable
<1>1. /\ b.m \in Seq(Byte) /\ b.used \in Nat /\ b.readable \in Nat /\ b.writable \in Nat
      /\ n * BlockSize \in Nat /\ b.used + b.readable + b.writable = n * BlockSize
      /\ Len(b.m) = n * BlockSize
  BY Blocks DEF BufferOk, BufferType
<1>2. b.used + b.readable <= Len(b.m)
  BY <1>1
<1> QED
  BY <1>1, <1>2, SliceIs DEF Held

\* b with s copied behind what it holds, and another write position.
Filled(b, s, ws, wp) ==
  [b EXCEPT !.m = Copied(b.m, Place(b.ws, b.wp), s), !.ws = ws, !.wp = wp,
            !.readable = @ + Len(s), !.writable = @ - Len(s)]

LEMMA FilledAppends ==
  ASSUME NEW b, NEW pos, NEW n \in Nat, BufferOk(b, pos, n),
         NEW s \in Seq(Byte), Len(s) <= b.writable,
         NEW ws, NEW wp, Position(ws, wp, n), Place(ws, wp) = Place(b.ws, b.wp) + Len(s)
  PROVE  /\ BufferOk(Filled(b, s, ws, wp), pos, n)
         /\ Held(Filled(b, s, ws, wp)) = Held(b) \o s
         /\ Filled(b, s, ws, wp).m \in Seq(Byte) /\ Len(Filled(b, s, ws, wp).m) = Len(b.m)
<1> DEFINE c == Filled(b, s, ws, wp)
           m == Copied(b.m, Place(b.ws, b.wp), s)
<1>1. /\ b \in BufferType /\ b.m \in Seq(Byte) /\ b.rs \in Nat /\ b.used \in Nat /\ b.readable \in Nat
      /\ b.writable \in Nat /\ n * BlockSize \in Nat /\ Len(s) \in Nat
      /\ b.used + b.readable + b.writable = n * BlockSize
      /\ Len(b.m) = n * BlockSize /\ Place(b.ws, b.wp) = b.used + b.readable
  BY Blocks, LenProperties DEF BufferOk, BufferType
<1>2. c = [b EXCEPT !.m = m, !.ws = ws, !.wp = wp, !.readable = @ + Len(s), !.writable = @ - Len(s)]
  BY DEF Filled
<1>3. m \in Seq(Byte) /\ Len(m) = Len(b.m)
  <2>1. b.used + b.readable \in Nat /\ b.used + b.readable + Len(s) <= Len(b.m)
    BY <1>1
  <2> QED
    BY <1>1, <2>1, CopiedIs
<1>4. Slice(m, b.used, b.readable + Len(s)) = Held(b) \o s
  <2>1. b.used + b.readable + Len(s) <= Len(b.m)
    BY <1>1
  <2>2. Slice(Copied(b.m, b.used + b.readable, s), b.used, b.readable + Len(s))
          = Slice(b.m, b.used, b.readable) \o s
    <3> DEFINE k == b.used
               l == b.readable
    <3>1. b.m \in Seq(Byte) /\ k \in Nat /\ l \in Nat /\ k + l + Len(s) <= Len(b.m)
      BY <1>1, <2>1
    <3> HIDE DEF k, l
    <3>2. Slice(Copied(b.m, k + l, s), k, l + Len(s)) = Slice(b.m, k, l) \o s
      BY <3>1, CopiedBehind
    <3> QED
      BY <3>2 DEF k, l
  <2> QED
    BY <1>1, <2>2 DEF Held
<1>5. ws \in Nat /\ wp \in Nat
  <2>1. BlockSize \in Nat
    BY SizeAssumption
  <2> QED
    BY <2>1 DEF Position
<1> HIDE DEF c, m
<1>6. c = [m |-> m, rs |-> b.rs, ws |-> ws, wp |-> wp, used |-> b.used,
           readable |-> b.readable + Len(s), writable |-> b.writable - Len(s)]
  BY <1>1, <1>2 DEF BufferType
<1>7. c \in BufferType
  <2>1. b.readable + Len(s) \in Nat /\ b.writable - Len(s) \in Nat
    BY <1>1
  <2> QED
    BY <1>1, <1>3, <1>5, <1>6, <2>1 DEF BufferType
<1>8. /\ c.used + c.readable = b.used + b.readable + Len(s)
      /\ c.used + c.readable + c.writable = n * BlockSize
  <2>1. c.used = b.used /\ c.readable = b.readable + Len(s) /\ c.writable = b.writable - Len(s)
    BY <1>6
  <2> QED
    BY <1>1, <2>1
<1>9. BufferOk(c, pos, n)
  BY <1>1, <1>3, <1>6, <1>7, <1>8 DEF BufferOk
<1>10. Held(c) = Held(b) \o s
  BY <1>4, <1>6 DEF Held
<1> QED
  BY <1>3, <1>6, <1>9, <1>10 DEF c

\* do_write, with enough space, appends.
LEMMA DoWriteAppends ==
  ASSUME NEW b, NEW pos, NEW n \in Nat, BufferOk(b, pos, n),
         NEW s \in Seq(Byte), Len(s) <= b.writable
  PROVE  /\ BufferOk(DoWrite(b, s), pos, n) /\ Settled(DoWrite(b, s), n)
         /\ Held(DoWrite(b, s)) = Held(b) \o s
         /\ DoWrite(b, s).m \in Seq(Byte) /\ Len(DoWrite(b, s).m) = Len(b.m)
<1> DEFINE place == Place(b.ws, b.wp) + Len(s)
           p == Settle(place, Len(b.m))
           c == Filled(b, s, p[1], p[2])
<1>1. place \in 0..n * BlockSize /\ Len(b.m) = n * BlockSize
  <2>1. /\ Place(b.ws, b.wp) = b.used + b.readable /\ b.used + b.readable + b.writable = n * BlockSize
        /\ b.used \in Nat /\ b.readable \in Nat /\ b.writable \in Nat /\ n * BlockSize \in Nat
        /\ Len(s) \in Nat
    BY Blocks, LenProperties DEF BufferOk, BufferType
  <2> QED
    BY <2>1 DEF BufferOk
<1>2. Position(p[1], p[2], n) /\ Place(p[1], p[2]) = place /\ (p[2] = BlockSize => p[1] = n)
  BY <1>1, SettlePlaces
<1>3. DoWrite(b, s) = c
  BY DEF DoWrite, Filled
<1>4. c.wp = p[2] /\ c.ws = p[1]
  <2>1. b = [m |-> b.m, rs |-> b.rs, ws |-> b.ws, wp |-> b.wp, used |-> b.used,
             readable |-> b.readable, writable |-> b.writable]
    BY DEF BufferOk, BufferType
  <2> HIDE DEF p
  <2> QED
    BY <2>1 DEF Filled
<1> HIDE DEF p, c
<1>5. /\ BufferOk(c, pos, n) /\ Held(c) = Held(b) \o s
      /\ c.m \in Seq(Byte) /\ Len(c.m) = Len(b.m)
  BY <1>2, FilledAppends DEF c
<1> QED
  BY <1>2, <1>3, <1>4, <1>5 DEF Settled

\* When the blocks before the read position go to the tail, the block that
\* is written to is not one of them, and comes as many blocks nearer the head.
LEMMA MovedPlaces ==
  ASSUME NEW b, NEW pos, NEW n \in Nat, BufferOk(b, pos, n), Settled(b, n), b.rs > 1
  PROVE  /\ b.ws > b.rs - 1 /\ b.ws - (b.rs - 1) \in 1..n
         /\ Place(b.ws - (b.rs - 1), b.wp) = pos + b.readable
<1> DEFINE k == b.rs - 1
           ws == b.ws
           wp == b.wp
           l == b.readable
           x == k * BlockSize
           v == ws - 1
           y == v * BlockSize
<1> BlockSize \in Nat \ {0}
  BY SizeAssumption
<1>0. /\ ws \in 0..n /\ wp \in 0..BlockSize /\ pos \in 0..BlockSize /\ l \in Nat
      /\ k \in 1..n - 1 /\ k \in Nat /\ (wp = BlockSize => ws = n)
  BY DEF BufferOk, BufferType, Position, Settled
<1>1. x \in Nat /\ x >= BlockSize
  BY <1>0, Blocks
<1>7. x + pos + l = Place(ws, wp)
  <2>1. b.used = Place(b.rs, pos) /\ b.used + l = Place(ws, wp)
    BY DEF BufferOk
  <2>2. Place(b.rs, pos) = x + pos
    BY DEF Place
  <2> QED
    BY <2>1, <2>2
<1> HIDE DEF k, ws, wp, l
<1>2. ws > 0
  BY <1>0, <1>1, <1>7 DEF Place
<1>3. v \in Nat /\ y \in Nat /\ v + 1 = ws /\ Place(ws, wp) = y + wp
  BY <1>0, <1>2, Blocks DEF Place
<1>4. v < k => y + BlockSize <= x
  BY <1>0, <1>1, <1>3, Blocks
<1>5. v < k - 1 => y + BlockSize < x
  <2>1. (v + 1) * BlockSize = v * BlockSize + 1 * BlockSize /\ 1 * BlockSize = BlockSize
    BY <1>3, Blocks
  <2>2. v + 1 \in Nat /\ (v + 1 < k => (v + 1) * BlockSize + BlockSize <= k * BlockSize)
    BY <1>0, <1>1, <1>3, Blocks
  <2> QED
    BY <1>0, <1>1, <1>3, <2>1, <2>2
<1>6. k <= v => (v - k) * BlockSize = y - x
  BY <1>0, <1>1, <1>3, Blocks
<1> HIDE DEF x, y, v
<1>8. k <= v
  <2>1. SUFFICES ASSUME v < k PROVE FALSE
    BY <1>0, <1>1, <1>3
  <2>2. wp = BlockSize /\ v = k - 1
    BY <1>0, <1>1, <1>3, <1>4, <1>5, <1>7, <2>1
  <2> QED
    BY <1>0, <1>1, <1>3, <2>2
<1>9. ws - k \in 1..n /\ Place(ws - k, wp) = (v - k) * BlockSize + wp
  <2>1. ws - k \in 1..n /\ ws - k # 0 /\ ws - k - 1 = v - k
    BY <1>0, <1>1, <1>3, <1>8
  <2> QED
    BY <2>1 DEF Place
<1>10. Place(ws - k, wp) = pos + l
  BY <1>0, <1>1, <1>3, <1>6, <1>7, <1>8, <1>9
<1>11. ws > k
  BY <1>0, <1>3, <1>8
<1> QED
  BY <1>9, <1>10, <1>11 DEF k, ws, wp, l

\* move_head changes where the bytes are, and not what they are, and leaves
\* all the space that Free counts behind the write position.
LEMMA MoveHeadKeeps ==
  ASSUME NEW b, NEW n \in Nat, BufferOk(b, readablePos, n), Settled(b, n) \/ b.rs <= 1
  PROVE  LET c == MoveHead(b) IN
         /\ BufferOk(c, readablePos, n) /\ Held(c) = Held(b) /\ c.writable = Free(b)
         /\ c.m \in Seq(Byte) /\ Len(c.m) = Len(b.m) /\ c.readable = b.readable /\ c.rs <= 1
<1> DEFINE c == MoveHead(b)
           k == b.rs - 1
           Kept == /\ BufferOk(c, readablePos, n) /\ Held(c) = Held(b) /\ c.writable = Free(b)
                   /\ c.m \in Seq(Byte) /\ Len(c.m) = Len(b.m) /\ c.readable = b.readable /\ c.rs <= 1
<1> SUFFICES Kept
  OBVIOUS
<1> BlockSize \in Nat \ {0}
  BY SizeAssumption
<1>1. /\ b \in BufferType /\ b.m \in Seq(Byte) /\ b.rs \in 0..n /\ b.used \in Nat /\ b.readable \in Nat
      /\ b.writable \in Nat /\ b.wp \in 0..BlockSize /\ b.ws \in 0..n /\ readablePos \in 0..BlockSize
      /\ n * BlockSize \in Nat /\ b.used + b.readable + b.writable = n * BlockSize
      /\ Len(b.m) = n * BlockSize /\ (n * BlockSize) \div BlockSize = n
  BY Blocks DEF BufferOk, BufferType, Position
<1>2. CASE b.rs <= 1
  <2>1. b.used = readablePos
    <3>1. CASE b.rs = 0
      BY <1>1, <3>1 DEF BufferOk, Position, Place
    <3>2. CASE b.rs = 1
      <4>1. (b.rs - 1) * BlockSize = 0
        BY <3>2
      <4> QED
        BY <1>1, <3>2, <4>1 DEF BufferOk, Place
    <3> QED
      BY <1>1, <1>2, <3>1, <3>2
  <2> QED
    BY <1>1, <1>2, <2>1 DEF MoveHead, Free
<1>3. CASE b.rs > 1
  <2> DEFINE x == k * BlockSize
             m == Turned(b.m, x)
             w == IF b.ws > k THEN b.ws - k ELSE b.ws + n - k
  <2> k \in Nat /\ b.rs \in 2..n
    BY <1>1, <1>3
  <2>1. x \in Nat /\ b.used = x + readablePos
    <3>1. x \in Nat
      BY Blocks
    <3>2. b.used = Place(b.rs, readablePos)
      BY DEF BufferOk
    <3>3. Place(b.rs, readablePos) = x + readablePos
      BY <1>3 DEF Place
    <3> QED
      BY <3>1, <3>2, <3>3
  <2>2. c = [b EXCEPT !.m = m, !.rs = 1, !.ws = w, !.writable = @ + (b.used - readablePos),
                      !.used = readablePos]
    <3>1. Len(b.m) \div BlockSize = n
      BY <1>1
    <3>2. ~(b.rs <= 1)
      BY <1>1, <1>3
    <3> HIDE DEF x
    <3> QED
      BY <3>1, <3>2 DEF MoveHead, Turned, x
  <2>3. b.ws > k /\ b.ws - k \in 1..n /\ Place(b.ws - k, b.wp) = readablePos + b.readable
    <3>1. Settled(b, n)
      BY <1>1, <1>3
    <3> QED
      BY <1>3, <3>1, MovedPlaces
  <2>4. w = b.ws - k
    BY <2>3
  <2>5. Place(w, b.wp) = readablePos + b.readable /\ w \in 1..n
    BY <2>3, <2>4
  <2> HIDE DEF x
  <2>6. m \in Seq(Byte) /\ Len(m) = Len(b.m) /\ Slice(m, readablePos, b.readable) = Held(b)
    <3>1. b.m \in Seq(Byte) /\ b.readable \in Nat /\ readablePos \in Nat
      BY <1>1
    <3>2. x + readablePos + b.readable <= Len(b.m)
      BY <1>1, <2>1
    <3> QED
      BY <2>1, <3>1, <3>2, Rotated DEF Held
  <2> HIDE DEF m, w, k, c
  <2>7. c = [m |-> m, rs |-> 1, ws |-> w, wp |-> b.wp, used |-> readablePos, readable |-> b.readable,
             writable |-> b.writable + (b.used - readablePos)]
    BY <1>1, <2>2 DEF BufferType
  <2>8. b.writable + (b.used - readablePos) \in Nat
    BY <1>1, <2>1
  <2>9. c \in BufferType
    BY <1>1, <2>5, <2>6, <2>7, <2>8 DEF BufferType
  <2>10. Place(1, readablePos) = readablePos
    <3>1. (1 - 1) * BlockSize = 0
      OBVIOUS
    <3> QED
      BY <1>1, <3>1 DEF Place
  <2>11. BufferOk(c, readablePos, n)
    <3>1. c.used + c.readable + c.writable = n * BlockSize
      BY <1>1, <2>1, <2>7
    <3>2. Position(c.rs, readablePos, n) /\ Position(c.ws, c.wp, n)
      BY <1>1, <2>1, <2>5, <2>7 DEF Position
    <3> QED
      BY <1>1, <2>5, <2>6, <2>7, <2>9, <2>10, <3>1, <3>2 DEF BufferOk
  <2>12. c.writable = Free(b)
    BY <1>1, <2>1, <2>7 DEF Free
  <2>13. Held(c) = Held(b)
    BY <2>6, <2>7 DEF Held
  <2> QED
    BY <1>1, <2>6, <2>7, <2>11, <2>12, <2>13
<1> QED
  BY <1>1, <1>2, <1>3

\* makeSpace adds room for len bytes behind what the buffer holds.
LEMMA MakeSpaceGrows ==
  ASSUME NEW b, NEW pos, NEW n \in Nat, BufferOk(b, pos, n), NEW len \in Nat \ {0}
  PROVE  LET c == MakeSpace(b, len) IN
         /\ BufferOk(c, pos, n + BlocksFor(len)) /\ Held(c) = Held(b)
         /\ c.writable = b.writable + BlocksFor(len) * BlockSize
         /\ c.m \in Seq(Byte) /\ Len(c.m) = Len(b.m) + BlocksFor(len) * BlockSize
<1> DEFINE c == MakeSpace(b, len)
           k == BlocksFor(len)
           x == k * BlockSize
           zero == CHOOSE y \in Byte : y # Newline
           z == [i \in 1..x |-> zero]
           m == b.m \o z
           rs == IF b.rs = 0 THEN 1 ELSE b.rs
           ws == (IF b.ws = 0 THEN 1 ELSE b.ws) + (IF b.wp = BlockSize THEN 1 ELSE 0)
           wp == IF b.wp = BlockSize THEN 0 ELSE b.wp
           Grown == /\ BufferOk(c, pos, n + k) /\ Held(c) = Held(b) /\ c.writable = b.writable + x
                    /\ c.m \in Seq(Byte) /\ Len(c.m) = Len(b.m) + x
<1> SUFFICES Grown
  OBVIOUS
<1> BlockSize \in Nat \ {0}
  BY SizeAssumption
<1>1. /\ b \in BufferType /\ b.m \in Seq(Byte) /\ b.rs \in 0..n /\ b.ws \in 0..n /\ b.wp \in 0..BlockSize
      /\ pos \in 0..BlockSize /\ b.used \in Nat /\ b.readable \in Nat /\ b.writable \in Nat
      /\ n * BlockSize \in Nat /\ b.used + b.readable + b.writable = n * BlockSize
      /\ Len(b.m) = n * BlockSize /\ (n > 0 => b.rs > 0 /\ b.ws > 0)
      /\ (n = 0 => b.rs = 0 /\ b.ws = 0 /\ b.wp = 0 /\ pos = 0)
  BY Blocks DEF BufferOk, BufferType, Position
<1>2. k \in Nat \ {0} /\ x \in Nat
  BY BlocksForIs
<1>3. c = [m |-> m, rs |-> rs, ws |-> ws, wp |-> wp, used |-> b.used, readable |-> b.readable,
           writable |-> b.writable + x]
  <2> DEFINE d == [b EXCEPT !.m = @ \o z, !.rs = IF @ = 0 THEN 1 ELSE @, !.ws = IF @ = 0 THEN 1 ELSE @,
                            !.writable = @ + x]
  <2>1. c = IF b.wp = BlockSize THEN [d EXCEPT !.ws = @ + 1, !.wp = 0] ELSE d
    BY DEF MakeSpace, BlocksFor
  <2> DEFINE w == IF b.ws = 0 THEN 1 ELSE b.ws
  <2>2. d = [m |-> m, rs |-> rs, ws |-> w, wp |-> b.wp, used |-> b.used,
             readable |-> b.readable, writable |-> b.writable + x]
    <3>1. d = [b EXCEPT !.m = m, !.rs = rs, !.ws = w, !.writable = b.writable + x]
      OBVIOUS
    <3>2. b = [m |-> b.m, rs |-> b.rs, ws |-> b.ws, wp |-> b.wp, used |-> b.used,
               readable |-> b.readable, writable |-> b.writable]
      BY <1>1 DEF BufferType
    <3> HIDE DEF d, m, rs, w, x
    <3> QED
      BY <3>1, <3>2
  <2> HIDE DEF c, d, m, x, rs
  <2>3. CASE b.wp = BlockSize
    BY <2>1, <2>2, <2>3
  <2>4. CASE b.wp # BlockSize
    <3>1. ws = (IF b.ws = 0 THEN 1 ELSE b.ws) /\ wp = b.wp
      BY <1>1, <2>4
    <3> QED
      BY <2>1, <2>2, <2>4, <3>1
  <2> QED
    BY <2>3, <2>4
<1>4. z \in Seq(Byte) /\ Len(z) = x
  <2>1. zero \in Byte
    BY ByteAssumption
  <2> HIDE DEF zero
  <2>2. z \in [1..x -> Byte]
    BY <2>1
  <2> HIDE DEF z, x
  <2> QED
    BY <1>2, <2>2, FunctionIsSeq
<1> HIDE DEF c, z
<1>5. m \in Seq(Byte) /\ Len(m) = Len(b.m) + x
  <2>1. m \in Seq(Byte) /\ Len(m) = Len(b.m) + Len(z)
    BY <1>1, <1>4, ConcatProperties
  <2> HIDE DEF m, x
  <2> QED
    BY <1>4, <2>1
<1>6. Slice(m, b.used, b.readable) = Held(b)
  <2>1. b.used + b.readable <= Len(b.m)
    BY <1>1
  <2> QED
    BY <1>1, <1>4, <2>1, SliceOfFront DEF Held
<1>7. Place(rs, pos) = Place(b.rs, pos) /\ Place(ws, wp) = Place(b.ws, b.wp)
  <2>1. (1 - 1) * BlockSize = 0
    OBVIOUS
  <2>2. CASE n = 0
    <3>1. b.rs = 0 /\ b.ws = 0 /\ b.wp = 0 /\ pos = 0 /\ rs = 1 /\ ws = 1 /\ wp = 0
      BY <1>1, <2>2
    <3> QED
      BY <2>1, <3>1 DEF Place
  <2>3. CASE n > 0
    <3>1. rs = b.rs
      BY <1>1, <2>3
    <3>2. CASE b.wp = BlockSize
      <4>1. b.ws - 1 \in Nat /\ ws = b.ws + 1 /\ wp = 0 /\ b.ws + 1 - 1 = b.ws - 1 + 1
            /\ b.ws # 0 /\ b.ws + 1 # 0
        <5> DEFINE v == b.ws
        <5>1. v \in Nat /\ v > 0
          BY <1>1, <2>3
        <5>2. ws = v + 1 /\ wp = 0
          BY <3>2, <5>1
        <5> HIDE DEF v
        <5>3. v - 1 \in Nat /\ v + 1 - 1 = v - 1 + 1 /\ v # 0 /\ v + 1 # 0
          BY <5>1
        <5> QED
          BY <5>2, <5>3 DEF v
      <4> HIDE DEF ws, wp
      <4>2. (b.ws - 1 + 1) * BlockSize = (b.ws - 1) * BlockSize + 1 * BlockSize /\ 1 * BlockSize = BlockSize
        BY <4>1, Blocks
      <4>3. (b.ws - 1) * BlockSize \in Nat
        BY <4>1, Blocks
      <4>4. Place(ws, wp) = (b.ws - 1 + 1) * BlockSize + 0
        <5>1. ws # 0 /\ ws - 1 = b.ws - 1 + 1
          BY <1>1, <4>1
        <5> QED
          BY <4>1, <5>1 DEF Place
      <4>5. Place(b.ws, b.wp) = (b.ws - 1) * BlockSize + BlockSize
        BY <3>2, <4>1 DEF Place
      <4> QED
        BY <3>1, <4>2, <4>3, <4>4, <4>5
    <3>3. CASE b.wp # BlockSize
      BY <1>1, <2>3, <3>1, <3>3
    <3> QED
      BY <3>2, <3>3
  <2> QED
    BY <1>1, <2>2, <2>3
<1>10. rs \in 1..n + k /\ ws \in 1..n + k /\ wp \in 0..BlockSize /\ n + k > 0
  <2> HIDE DEF k
  <2>1. CASE n = 0
    <3>1. b.rs = 0 /\ b.ws = 0 /\ b.wp = 0
      BY <1>1, <2>1
    <3> QED
      BY <1>2, <2>1, <3>1
  <2>2. CASE n > 0
    <3>1. b.rs \in 1..n /\ b.ws \in 1..n
      BY <1>1, <2>2
    <3>2. CASE b.wp = BlockSize
      BY <1>2, <3>1, <3>2
    <3>3. CASE b.wp # BlockSize
      BY <1>1, <1>2, <3>1, <3>3
    <3> QED
      BY <3>2, <3>3
  <2> QED
    BY <2>1, <2>2
<1>8. Position(rs, pos, n + k) /\ Position(ws, wp, n + k)
  <2> HIDE DEF rs, ws, wp, k
  <2> QED
    BY <1>1, <1>2, <1>10 DEF Position
<1>9. (n + k) * BlockSize = n * BlockSize + x
  BY <1>2, Blocks
<1> HIDE DEF m, rs, ws, wp, k, x
<1>11. c \in BufferType
  <2>1. b.writable + x \in Nat
    BY <1>1, <1>2
  <2> QED
    BY <1>1, <1>2, <1>3, <1>5, <1>10, <2>1 DEF BufferType
<1>12. BufferOk(c, pos, n + k)
  <2>1. c.used + c.readable + c.writable = (n + k) * BlockSize
    <3>1. c.used = b.used /\ c.readable = b.readable /\ c.writable = b.writable + x
      BY <1>3
    <3> DEFINE y == n * BlockSize
               v == (n + k) * BlockSize
    <3>2. /\ v = y + x /\ b.used + b.readable + b.writable = y
          /\ b.used \in Nat /\ b.readable \in Nat /\ b.writable \in Nat
      BY <1>1, <1>9
    <3> HIDE DEF y, v
    <3>3. c.used + c.readable + c.writable = v
      BY <1>2, <3>1, <3>2
    <3> QED
      BY <3>3 DEF v
  <2>2. Len(c.m) = (n + k) * BlockSize
    BY <1>1, <1>3, <1>5, <1>9
  <2>3. c.used = Place(c.rs, pos) /\ c.used + c.readable = Place(c.ws, c.wp)
    BY <1>3, <1>7 DEF BufferOk
  <2> QED
    BY <1>3, <1>8, <1>11, <2>1, <2>2, <2>3 DEF BufferOk
<1>13. Held(c) = Held(b)
  BY <1>3, <1>6 DEF Held
<1> QED
  BY <1>3, <1>5, <1>12, <1>13

\* The limit is a number of whole blocks.
LEMMA LimitIsBlocks ==
  ASSUME NEW n \in Nat, n * BlockSize < MaxBlockSize
  PROVE  n * BlockSize + BlockSize <= MaxBlockSize
<1> DEFINE q == MaxBlockSize \div BlockSize
           r == MaxBlockSize % BlockSize
<1> BlockSize \in Nat \ {0} /\ MaxBlockSize \in Nat
  BY SizeAssumption
<1>1. q \in Nat /\ MaxBlockSize = q * BlockSize + r
  BY BlocksOf
<1>2. r = 0
  BY SizeAssumption
<1> HIDE DEF q, r
<1>3. n * BlockSize \in Nat /\ q * BlockSize \in Nat /\ (q <= n => q * BlockSize <= n * BlockSize)
      /\ (n < q => n * BlockSize + BlockSize <= q * BlockSize)
  BY <1>1, Blocks
<1> QED
  BY <1>1, <1>2, <1>3

\* The subtraction in write does not pass zero: the read position lies
\* behind its offset in the block.
LEMMA FreeIs ==
  ASSUME NEW b, NEW n \in Nat, BufferOk(b, readablePos, n)
  PROVE  Free(b) \in Nat /\ Free(b) >= b.writable /\ b.used >= readablePos
<1> BlockSize \in Nat \ {0}
  BY SizeAssumption
<1>1. b.used \in Nat /\ b.writable \in Nat /\ readablePos \in 0..BlockSize /\ b.rs \in 0..n
      /\ b.used = Place(b.rs, readablePos) /\ (n = 0 => readablePos = 0) /\ (n > 0 => b.rs > 0)
  BY DEF BufferOk, BufferType, Position
<1>2. b.used >= readablePos
  <2>1. CASE b.rs = 0
    BY <1>1, <2>1 DEF Place
  <2>2. CASE b.rs > 0
    <3>1. b.rs - 1 \in Nat
      BY <1>1, <2>2
    <3>2. (b.rs - 1) * BlockSize \in Nat
      BY <3>1, Blocks
    <3>3. b.used = (b.rs - 1) * BlockSize + readablePos
      BY <1>1, <2>2 DEF Place
    <3> QED
      BY <1>1, <3>2, <3>3
  <2> QED
    BY <1>1, <2>1, <2>2
<1> QED
  BY <1>1, <1>2 DEF Free

\* c holds what b holds and the first n bytes of s, within twice the limit.
Took(c, n, b, s) ==
  /\ n \in 0..Len(s) /\ Held(c) = Held(b) \o SubSeq(s, 1, n)
  /\ c.m \in Seq(Byte) /\ Len(c.m) < 2 * MaxBlockSize

LEMMA TookAll ==
  ASSUME NEW s \in Seq(Byte), NEW b, NEW c, Held(c) = Held(b) \o s,
         c.m \in Seq(Byte), Len(c.m) < 2 * MaxBlockSize
  PROVE  Took(c, Len(s), b, s)
<1>1. Len(s) \in 0..Len(s)
  BY LenProperties
<1>2. SubSeq(s, 1, Len(s)) = s
  BY SubSeqFull
<1> QED
  BY <1>1, <1>2 DEF Took

LEMMA TookNone ==
  ASSUME NEW s \in Seq(Byte), NEW b, NEW c, Held(b) \in Seq(Byte), Held(c) = Held(b),
         c.m \in Seq(Byte), Len(c.m) < 2 * MaxBlockSize
  PROVE  Took(c, 0, b, s)
<1>1. 0 \in 0..Len(s)
  BY LenProperties
<1>2. SubSeq(s, 1, 0) = << >>
  BY SubSeqEmpty
<1>3. Held(b) \o << >> = Held(b)
  BY ConcatEmptySeq
<1> QED
  BY <1>1, <1>2, <1>3 DEF Took

\* An empty buffer whose write position may be at the end of a block that a
\* block follows, but no block to be moved: the refusing move_head leaves it.
Rewound(b) == b.rs <= 1 /\ b.readable = 0

\* write appends what it says it took, and grows to less than twice the
\* limit.  What it leaves of a settled buffer is settled unless it refused
\* more than half the limit after moving blocks; an empty buffer is left
\* settled or rewound.
LEMMA WrittenAppends ==
  ASSUME NEW b, NEW n \in Nat, BufferOk(b, readablePos, n), Settled(b, n) \/ b.rs <= 1,
         Len(b.m) < 2 * MaxBlockSize, NEW s \in Seq(Byte)
  PROVE  LET c == Written(b, s).buf IN
         /\ Took(c, Written(b, s).n, b, s)
         /\ \E k \in Nat : /\ BufferOk(c, readablePos, k)
                           /\ Settled(b, n) /\ 2 * Len(s) <= MaxBlockSize => Settled(c, k)
                           /\ b.readable = 0 => Settled(c, k) \/ Rewound(c)
<1> DEFINE w == Written(b, s)
           moved == MoveHead(b)
           Right == /\ Took(w.buf, w.n, b, s)
                    /\ \E k \in Nat :
                         /\ BufferOk(w.buf, readablePos, k)
                         /\ Settled(b, n) /\ 2 * Len(s) <= MaxBlockSize => Settled(w.buf, k)
                         /\ b.readable = 0 => Settled(w.buf, k) \/ Rewound(w.buf)
<1> SUFFICES Right
  OBVIOUS
<1> BlockSize \in Nat \ {0} /\ MaxBlockSize \in Nat
  BY SizeAssumption
<1>1. Len(s) \in Nat /\ b.writable \in Nat /\ b.m \in Seq(Byte) /\ Len(b.m) \in Nat
      /\ Len(b.m) = n * BlockSize
  BY LenProperties DEF BufferOk, BufferType
<1>2. Free(b) \in Nat /\ Free(b) >= b.writable
  BY FreeIs
<1>3. Held(b) \in Seq(Byte)
  BY HeldIs
<1>4. /\ BufferOk(moved, readablePos, n) /\ Held(moved) = Held(b) /\ moved.writable = Free(b)
      /\ moved.m \in Seq(Byte) /\ Len(moved.m) = Len(b.m) /\ moved.readable = b.readable
      /\ moved.rs <= 1
  BY MoveHeadKeeps
<1> HIDE DEF moved
<1>5. CASE Len(s) > Free(b) /\ Len(b.m) >= MaxBlockSize
  <2>1. w = [buf |-> b, n |-> 0]
    BY <1>1, <1>2, <1>5 DEF Written
  <2>2. Took(b, 0, b, s)
    BY <1>1, <1>3, TookNone
  <2>3. b.readable = 0 => Settled(b, n) \/ Rewound(b)
    BY DEF Rewound
  <2> HIDE DEF w
  <2> QED
    BY <2>1, <2>2, <2>3
<1>6. CASE Len(s) <= b.writable
  <2>1. w = [buf |-> DoWrite(b, s), n |-> Len(s)]
    BY <1>1, <1>2, <1>6 DEF Written
  <2> DEFINE c == DoWrite(b, s)
  <2>2. /\ BufferOk(c, readablePos, n) /\ Settled(c, n) /\ Held(c) = Held(b) \o s
        /\ c.m \in Seq(Byte) /\ Len(c.m) = Len(b.m)
    BY <1>6, DoWriteAppends
  <2> HIDE DEF w, c
  <2>3. Took(c, Len(s), b, s)
    BY <2>2, TookAll
  <2> QED
    BY <2>1, <2>2, <2>3 DEF c
<1>7. CASE Len(s) > b.writable /\ Len(s) <= Free(b)
  <2>1. w = [buf |-> DoWrite(moved, s), n |-> Len(s)]
    BY <1>1, <1>2, <1>7 DEF Written, moved
  <2> DEFINE c == DoWrite(moved, s)
  <2>2. /\ BufferOk(c, readablePos, n) /\ Settled(c, n) /\ Held(c) = Held(moved) \o s
        /\ c.m \in Seq(Byte) /\ Len(c.m) = Len(moved.m)
    BY <1>4, <1>7, DoWriteAppends
  <2> HIDE DEF w, c
  <2>3. Took(c, Len(s), b, s)
    BY <1>4, <2>2, TookAll
  <2> QED
    BY <2>1, <2>2, <2>3 DEF c
<1>8. CASE Len(s) > Free(b) /\ Len(b.m) < MaxBlockSize /\ Len(s) + moved.writable > MaxBlockSize
  <2>1. w = [buf |-> moved, n |-> 0]
    BY <1>1, <1>2, <1>8 DEF Written, moved
  <2>2. Took(moved, 0, b, s)
    BY <1>1, <1>3, <1>4, TookNone
  <2>3. ~(2 * Len(s) <= MaxBlockSize)
    BY <1>1, <1>2, <1>4, <1>8
  <2>4. b.readable = 0 => Rewound(moved)
    BY <1>4 DEF Rewound
  <2> HIDE DEF w
  <2> QED
    BY <1>4, <2>1, <2>2, <2>3, <2>4
<1>9. CASE Len(s) > Free(b) /\ Len(b.m) < MaxBlockSize /\ ~(Len(s) + moved.writable > MaxBlockSize)
  <2> DEFINE g == MakeSpace(moved, Len(s))
             c == DoWrite(g, s)
             k == BlocksFor(Len(s))
             x == k * BlockSize
  <2>1. w = [buf |-> c, n |-> Len(s)]
    BY <1>1, <1>2, <1>9 DEF Written, moved
  <2>2. Len(s) \in Nat \ {0}
    BY <1>1, <1>2, <1>9
  <2>3. k \in Nat /\ x \in Nat /\ x >= Len(s) /\ x < Len(s) + BlockSize
    BY <2>2, BlocksForIs
  <2>4. /\ BufferOk(g, readablePos, n + k) /\ Held(g) = Held(moved) /\ g.writable = moved.writable + x
        /\ g.m \in Seq(Byte) /\ Len(g.m) = Len(moved.m) + x
    BY <1>4, <2>2, MakeSpaceGrows
  <2>5. n + k \in Nat
    BY <2>3
  <2> HIDE DEF w, c, g, k, x
  <2>6. Len(s) <= g.writable
    BY <1>1, <1>2, <1>4, <2>3, <2>4
  <2>7. /\ BufferOk(c, readablePos, n + k) /\ Settled(c, n + k) /\ Held(c) = Held(g) \o s
        /\ c.m \in Seq(Byte) /\ Len(c.m) = Len(g.m)
    BY <2>4, <2>5, <2>6, DoWriteAppends DEF c
  <2>8. Len(c.m) < 2 * MaxBlockSize
    <3>1. Len(b.m) + BlockSize <= MaxBlockSize
      BY <1>1, <1>9, LimitIsBlocks
    <3>2. Len(c.m) = Len(b.m) + x
      BY <1>4, <2>4, <2>7
    <3>3. Len(s) + Free(b) <= MaxBlockSize
      BY <1>1, <1>2, <1>4, <1>9
    <3> DEFINE l == Len(b.m)
    <3>4. l \in Nat /\ l + BlockSize <= MaxBlockSize
      BY <1>1, <3>1
    <3> HIDE DEF l
    <3>5. l + x < 2 * MaxBlockSize
      BY <1>1, <1>2, <2>3, <3>3, <3>4
    <3> QED
      BY <3>2, <3>5 DEF l
  <2>9. Took(c, Len(s), b, s)
    BY <1>4, <2>4, <2>7, <2>8, TookAll
  <2> QED
    BY <2>1, <2>5, <2>7, <2>9
<1> QED
  BY <1>1, <1>2, <1>5, <1>6, <1>7, <1>8, <1>9

\* write takes all of what leaves a block of the limit free.
LEMMA WrittenTakesAll ==
  ASSUME NEW b, NEW n \in Nat, BufferOk(b, readablePos, n), Settled(b, n) \/ b.rs <= 1,
         NEW s \in Seq(Byte), 2 * Len(s) <= MaxBlockSize,
         b.readable + Len(s) + BlockSize <= MaxBlockSize
  PROVE  Written(b, s).n = Len(s)
<1> DEFINE moved == MoveHead(b)
<1> BlockSize \in Nat \ {0} /\ MaxBlockSize \in Nat
  BY SizeAssumption
<1>1. /\ Len(s) \in Nat /\ b.writable \in Nat /\ b.used \in Nat /\ b.readable \in Nat
      /\ readablePos \in 0..BlockSize /\ Len(b.m) \in Nat
      /\ b.used + b.readable + b.writable = Len(b.m)
  BY LenProperties DEF BufferOk, BufferType, Position
<1>2. Free(b) \in Nat /\ Free(b) >= b.writable
  BY FreeIs
<1>3. moved.writable = Free(b)
  BY MoveHeadKeeps
<1>4. Free(b) = Len(b.m) - b.readable - readablePos
  <2> DEFINE u == b.used
             l == Len(b.m)
             r == b.readable
             v == b.writable
  <2>1. u \in Int /\ l \in Int /\ r \in Int /\ v \in Int /\ readablePos \in Int /\ u + r + v = l
    BY <1>1
  <2>2. Free(b) = u - readablePos + v
    BY DEF Free
  <2> HIDE DEF u, l, r, v
  <2>3. u - readablePos + v = l - r - readablePos
    BY <2>1
  <2> QED
    BY <2>2, <2>3 DEF l, r
<1> HIDE DEF moved
<1>5. CASE Len(s) > Free(b) /\ Len(b.m) >= MaxBlockSize
  BY <1>1, <1>2, <1>4, <1>5
<1>6. CASE Len(s) <= b.writable
  BY <1>1, <1>2, <1>6 DEF Written
<1>7. CASE Len(s) > b.writable /\ Len(s) <= Free(b)
  BY <1>1, <1>2, <1>7 DEF Written
<1>8. CASE Len(s) > Free(b) /\ Len(b.m) < MaxBlockSize
  <2>1. ~(Len(s) + moved.writable > MaxBlockSize)
    BY <1>1, <1>2, <1>3, <1>8
  <2> QED
    BY <1>1, <1>2, <1>8, <2>1 DEF Written, moved
<1> QED
  BY <1>1, <1>2, <1>5, <1>6, <1>7, <1>8
-----------------------------------------------------------------------------
(***************************************************************************)
(* The invariant: the buffer is one of n blocks.  One that write fills at  *)
(* any time is settled, one that sendInLoop fills is settled or rewound.   *)
(***************************************************************************)
Ready(b, n, by) == /\ "write" \in by => Settled(b, n)
                   /\ "send" \in by => Settled(b, n) \/ Rewound(b)

Consistent ==
  /\ ops \in Fillings /\ Len(mem) < 2 * MaxBlockSize
  /\ \E n \in Nat : BufferOk(Buffer, readablePos, n) /\ Ready(Buffer, n, ops)

LEMMA BufferIs ==
  ASSUME NEW n, BufferOk(Buffer, readablePos, n)
  PROVE  /\ mem \in Seq(Byte) /\ Len(mem) = n * BlockSize
         /\ writableSize \in Nat /\ usedSize \in Nat /\ readableSize \in Nat
         /\ Position(readstr, readablePos, n) /\ Position(writestr, writablePos, n)
         /\ usedSize = Place(readstr, readablePos)
         /\ usedSize + readableSize = Place(writestr, writablePos)
         /\ usedSize + readableSize + writableSize = n * BlockSize
         /\ Contents = Held(Buffer)
<1>1. usedSize = Place(readstr, readablePos)
  BY DEF BufferOk, Buffer
<1>2. Contents = Held(Buffer)
  BY <1>1 DEF Contents, Held, Slice, Buffer
<1>3. mem \in Seq(Byte) /\ writableSize \in Nat /\ usedSize \in Nat /\ readableSize \in Nat
  BY DEF BufferOk, BufferType, Buffer
<1> QED
  BY <1>1, <1>2, <1>3 DEF BufferOk, Buffer

\* What a call leaves behind is what the members are afterwards.
LEMMA BecomeIs ==
  ASSUME NEW b, NEW n \in Nat, BufferOk(b, readablePos, n), Become(b, readablePos)
  PROVE  /\ BufferOk(Buffer, readablePos, n)' /\ (Ready(b, n, ops) => Ready(Buffer, n, ops)')
         /\ Contents' = Held(b) /\ Len(mem)' = Len(b.m) /\ UNCHANGED ops
<1>1. b = [m |-> b.m, rs |-> b.rs, ws |-> b.ws, wp |-> b.wp, used |-> b.used,
           readable |-> b.readable, writable |-> b.writable]
  BY DEF BufferOk, BufferType
<1>2. Buffer' = b /\ readablePos' = readablePos
  BY <1>1 DEF Become, Buffer
<1>3. Contents' = Held(b)
  BY DEF Become, Contents, Held, Slice, BufferOk
<1>4. BufferOk(Buffer, readablePos, n)' <=> BufferOk(Buffer', readablePos', n)
  BY DEF BufferOk, Place, Position
<1>5. Ready(Buffer, n, ops)' <=> Ready(Buffer', n, ops')
  BY DEF Ready, Settled, Rewound
<1> QED
  BY <1>2, <1>3, <1>4, <1>5 DEF Become
-----------------------------------------------------------------------------
(***************************************************************************)
(* The steps.                                                              *)
(***************************************************************************)
\* The buffer that a step leaves behind took a first part of s.
LEMMA TookIsPut ==
  ASSUME NEW b, NEW k \in Nat, BufferOk(b, readablePos, k), Become(b, readablePos),
         ops \in Fillings, Ready(b, k, ops),
         NEW s \in Seq(Byte), NEW n, Took(b, n, Buffer, s), Contents = Held(Buffer),
         offered' = s, accepted' = n, returned' = << >>
  PROVE  Consistent' /\ Queue!Put(s)
<1>1. /\ BufferOk(Buffer, readablePos, k)' /\ Ready(Buffer, k, ops)'
      /\ Contents' = Held(b) /\ Len(mem)' = Len(b.m) /\ UNCHANGED ops
  BY BecomeIs
<1>2. n \in 0..Len(s) /\ Held(b) = Contents \o SubSeq(s, 1, n) /\ Len(b.m) < 2 * MaxBlockSize
  BY DEF Took
<1>3. Consistent'
  BY <1>1, <1>2 DEF Consistent
<1>4. Queue!Put(s)
  BY <1>1, <1>2 DEF Queue!Put
<1> QED
  BY <1>3, <1>4

LEMMA StoreStep ==
  ASSUME OneFilling, SmallWrites, Consistent, NEW s \in Chunk \cup Message, Write(s) \/ Send(s),
         Write(s) => s \in Chunk
  PROVE  Consistent' /\ Queue!Put(s)
<1> DEFINE w == Written(Buffer, s)
<1>1. ops \in Fillings /\ Buffer.readable = readableSize
      /\ \/ ops = {"write"} /\ Write(s)
         \/ ops = {"send"} /\ readableSize = 0
  <2>1. ops \in Fillings /\ Buffer.readable = readableSize
    BY DEF Consistent, Buffer
  <2>2. \A a, b \in ops : a = b
    BY <2>1 DEF OneFilling
  <2>3. CASE Write(s)
    BY <2>1, <2>2, <2>3 DEF Write
  <2>4. CASE Send(s)
    BY <2>1, <2>2, <2>4 DEF Send
  <2> QED
    BY <2>1, <2>3, <2>4
<1>2. PICK n \in Nat : BufferOk(Buffer, readablePos, n) /\ Ready(Buffer, n, ops)
  BY DEF Consistent
<1>3. Len(mem) < 2 * MaxBlockSize /\ Buffer.m = mem
  BY DEF Consistent, Buffer
<1>4. s \in Seq(Byte) /\ (Write(s) => 2 * Len(s) <= MaxBlockSize)
  BY ByteAssumption DEF SmallWrites
<1>5. Settled(Buffer, n) \/ Buffer.rs <= 1
  BY <1>1, <1>2 DEF Ready, Rewound
<1>6. /\ Took(w.buf, w.n, Buffer, s)
      /\ \E k \in Nat : /\ BufferOk(w.buf, readablePos, k)
                        /\ Settled(Buffer, n) /\ 2 * Len(s) <= MaxBlockSize => Settled(w.buf, k)
                        /\ Buffer.readable = 0 => Settled(w.buf, k) \/ Rewound(w.buf)
  BY <1>2, <1>3, <1>4, <1>5, WrittenAppends
<1>7. Contents = Held(Buffer)
  BY <1>2, BufferIs
<1>8. Become(w.buf, readablePos) /\ accepted' = w.n /\ offered' = s /\ returned' = << >>
  BY DEF Write, Send, Store
<1> HIDE DEF w
<1>9. PICK k \in Nat : BufferOk(w.buf, readablePos, k) /\ Ready(w.buf, k, ops)
  <2>1. PICK k \in Nat : /\ BufferOk(w.buf, readablePos, k)
                         /\ Settled(Buffer, n) /\ 2 * Len(s) <= MaxBlockSize => Settled(w.buf, k)
                         /\ Buffer.readable = 0 => Settled(w.buf, k) \/ Rewound(w.buf)
    BY <1>6
  <2>2. Ready(w.buf, k, ops)
    BY <1>1, <1>2, <1>4, <2>1 DEF Ready
  <2> QED
    BY <2>1, <2>2
<1> QED
  BY <1>1, <1>4, <1>6, <1>7, <1>8, <1>9, TookIsPut

\* A first part of a sequence is a slice.
LEMMA FrontIs ==
  ASSUME NEW s \in Seq(Byte), NEW t \in 0..Len(s)
  PROVE  SubSeq(s, 1, t) = Slice(s, 0, t) /\ SubSeq(s, 1, t) \in Seq(Byte) /\ Len(SubSeq(s, 1, t)) = t
<1>1. Len(s) \in Nat /\ 0 + 1 = 1 /\ 0 + t = t /\ t \in Nat /\ 0 + t <= Len(s) /\ 0 \in Nat
  BY LenProperties
<1>2. SubSeq(s, 1, t) = Slice(s, 0, t)
  BY <1>1 DEF Slice
<1>3. Slice(s, 0, t) \in Seq(Byte) /\ Len(Slice(s, 0, t)) = t
  BY <1>1, SliceIs
<1> QED
  BY <1>2, <1>3

\* readv's bytes fit behind the write position, at or beyond its block.
LEMMA ReadFdFits ==
  ASSUME NEW s \in Seq(Byte), Len(s) <= writableSize,
         NEW n \in Nat, BufferOk(Buffer, readablePos, n),
         NEW p, p = IF writablePos + Len(s) <= BlockSize THEN <<writestr, writablePos + Len(s)>>
                    ELSE Unsettled(Place(writestr, writablePos) + Len(s))
  PROVE  Position(p[1], p[2], n) /\ Place(p[1], p[2]) = Place(writestr, writablePos) + Len(s)
<1> BlockSize \in Nat \ {0}
  BY SizeAssumption
<1> DEFINE x == Place(writestr, writablePos) + Len(s)
           y == n * BlockSize
<1>1. /\ writestr \in 0..n /\ writablePos \in 0..BlockSize /\ (n > 0 => writestr > 0)
      /\ (n = 0 => writestr = 0 /\ writablePos = 0) /\ Len(s) \in Nat /\ y \in Nat /\ (n = 0 => y = 0)
      /\ writableSize \in Nat /\ usedSize \in Nat /\ readableSize \in Nat
      /\ usedSize + readableSize = Place(writestr, writablePos)
      /\ usedSize + readableSize + writableSize = y
  BY Blocks, BufferIs, LenProperties DEF Position
<1> HIDE DEF y
<1>2. CASE writablePos + Len(s) <= BlockSize
  <2>1. p[1] = writestr /\ p[2] = writablePos + Len(s)
    BY <1>2
  <2>2. CASE n = 0
    <3>1. Len(s) = 0
      BY <1>1, <2>2
    <3> QED
      BY <1>1, <2>1, <2>2, <3>1 DEF Position, Place
  <2>3. CASE n > 0
    <3>1. writestr # 0 /\ writestr - 1 \in Nat
      BY <1>1, <2>3
    <3>2. (writestr - 1) * BlockSize \in Nat
      BY <3>1, Blocks
    <3>3. Place(writestr, writablePos) = (writestr - 1) * BlockSize + writablePos
      BY <3>1 DEF Place
    <3>4. Place(p[1], p[2]) = (writestr - 1) * BlockSize + (writablePos + Len(s))
      BY <2>1, <3>1 DEF Place
    <3>5. Position(p[1], p[2], n)
      BY <1>1, <1>2, <2>1, <2>3 DEF Position
    <3> QED
      BY <1>1, <3>2, <3>3, <3>4, <3>5
  <2> QED
    BY <2>2, <2>3
<1>3. CASE writablePos + Len(s) > BlockSize
  <2>1. p = Unsettled(x)
    BY <1>1, <1>3
  <2>2. x \in 1..n * BlockSize
    BY <1>1, <1>3 DEF y
  <2> HIDE DEF x
  <2>3. Position(Unsettled(x)[1], Unsettled(x)[2], n) /\ Place(Unsettled(x)[1], Unsettled(x)[2]) = x
    BY <2>2, UnsettledPlaces
  <2> QED
    BY <2>1, <2>3 DEF x
<1> QED
  BY <1>1, <1>2, <1>3

\* What was taken first and what was taken of the rest are a first part.
LEMMA TookMore ==
  ASSUME NEW s \in Seq(Byte), NEW t \in 0..Len(s), NEW w \in 0..t, NEW b, NEW full, NEW c, NEW k,
         Held(b) \in Seq(Byte), Held(full) = Held(b) \o SubSeq(s, 1, w),
         Took(c, k, full, SubSeq(s, w + 1, t))
  PROVE  Took(c, w + k, b, s)
<1> DEFINE rest == SubSeq(s, w + 1, t)
           e == t - w
<1>1. Len(s) \in Nat /\ t \in Nat /\ w \in Nat /\ e \in Nat /\ w + e = t /\ w + e <= Len(s)
  BY LenProperties
<1> HIDE DEF e
<1>2. rest = Slice(s, w, e)
  BY <1>1 DEF Slice
<1>3. rest \in Seq(Byte) /\ Len(rest) = e
  <2>1. Slice(s, w, e) \in Seq(Byte) /\ Len(Slice(s, w, e)) = e
    BY <1>1, SliceIs
  <2> QED
    BY <1>2, <2>1
<1> HIDE DEF rest
<1>4. k \in 0..e /\ Held(c) = Held(full) \o SubSeq(rest, 1, k)
  BY <1>3 DEF Took, rest
<1>5. SubSeq(rest, 1, k) = Slice(s, w, k)
  <2>1. SubSeq(rest, 1, k) = Slice(rest, 0, k)
    BY <1>3, <1>4, FrontIs
  <2>2. 0 \in Nat /\ k \in Nat /\ 0 + k <= e /\ w + 0 = w
    BY <1>1, <1>4
  <2>3. Slice(Slice(s, w, e), 0, k) = Slice(s, w + 0, k)
    BY <1>1, <2>2, SliceOfSlice
  <2> QED
    BY <1>2, <2>1, <2>2, <2>3
<1>6. SubSeq(s, 1, w) \o Slice(s, w, k) = SubSeq(s, 1, w + k) /\ w + k \in 0..Len(s)
  <2>1. 0 \in Nat /\ k \in Nat /\ 0 + w = w /\ 0 + w + k <= Len(s) /\ w + k \in 0..Len(s) /\ w \in 0..Len(s)
    BY <1>1, <1>4
  <2>2. Slice(s, 0, w) \o Slice(s, w, k) = Slice(s, 0, w + k)
    <3>1. s \in Seq(Byte) /\ w \in Nat /\ w = 0 + w
      BY <1>1
    <3> QED
      BY <2>1, <3>1, SlicesJoin, SMTT(30)
  <2>3. SubSeq(s, 1, w) = Slice(s, 0, w) /\ SubSeq(s, 1, w + k) = Slice(s, 0, w + k)
    BY <2>1, FrontIs
  <2> QED
    BY <2>1, <2>2, <2>3
<1>7. (Held(b) \o SubSeq(s, 1, w)) \o Slice(s, w, k) = Held(b) \o (SubSeq(s, 1, w) \o Slice(s, w, k))
  <2>1. SubSeq(s, 1, w) \in Seq(Byte)
    BY <1>1, FrontIs
  <2>2. Slice(s, w, k) \in Seq(Byte)
    <3>1. k \in Nat /\ w + k <= Len(s)
      BY <1>1, <1>4
    <3> QED
      BY <1>1, <3>1, SliceIs
  <2> DEFINE u == Held(b)
             v == SubSeq(s, 1, w)
             x == Slice(s, w, k)
  <2>3. u \in Seq(Byte) /\ v \in Seq(Byte) /\ x \in Seq(Byte)
    BY <2>1, <2>2
  <2> HIDE DEF u, v, x
  <2>4. (u \o v) \o x = u \o (v \o x)
    BY <2>3, JoinAssociative
  <2> QED
    BY <2>4 DEF u, v, x
<1> QED
  BY <1>4, <1>5, <1>6, <1>7 DEF Took

\* readFd takes what fits in the blocks, and gives the rest to write.
LEMMA ReadFdStep ==
  ASSUME OneFilling, Consistent, NEW s \in Waiting, ReadFd(s)
  PROVE  Consistent' /\ Queue!Put(s)
<1> DEFINE t == IF Len(s) <= writableSize + ExtraSize THEN Len(s) ELSE writableSize + ExtraSize
           here == Place(writestr, writablePos)
           m == Len(mem) \div BlockSize
           p == IF writablePos + t <= BlockSize THEN <<writestr, writablePos + t>> ELSE Unsettled(here + t)
           part == SubSeq(s, 1, t)
           filled == [Buffer EXCEPT !.m = Copied(mem, here, part), !.ws = p[1], !.wp = p[2],
                                    !.writable = @ - t, !.readable = @ + t]
           front == SubSeq(s, 1, writableSize)
           full == [Buffer EXCEPT !.m = Copied(mem, here, front),
                                  !.ws = m, !.wp = IF m = 0 THEN 0 ELSE BlockSize,
                                  !.writable = 0, !.readable = @ + writableSize]
           rest == SubSeq(s, writableSize + 1, t)
           w == Written(full, rest)
<1> BlockSize \in Nat \ {0} /\ ExtraSize \in Nat
  BY SizeAssumption
<1>1. s \in Seq(Byte) /\ Len(s) \in Nat
  BY ByteAssumption, LenProperties
<1>2. ops \in Fillings /\ ops = {"readFd"} /\ Len(mem) < 2 * MaxBlockSize
  BY FillingsAssumption DEF OneFilling, Consistent, ReadFd
<1>3. PICK n \in Nat : BufferOk(Buffer, readablePos, n)
  BY DEF Consistent
<1>4. /\ mem \in Seq(Byte) /\ Len(mem) = n * BlockSize /\ n * BlockSize \in Nat
      /\ writableSize \in Nat /\ usedSize \in Nat /\ readableSize \in Nat
      /\ here = usedSize + readableSize /\ usedSize + readableSize + writableSize = n * BlockSize
      /\ Contents = Held(Buffer) /\ m = n
  BY <1>3, BufferIs, Blocks
<1>5. Held(Buffer) \in Seq(Byte)
  BY <1>3, HeldIs
<1>6. t \in 0..Len(s) /\ t \in Nat
  BY <1>1, <1>4
<1>7. part \in Seq(Byte) /\ Len(part) = t
  BY <1>1, <1>6, FrontIs
<1>8. /\ Buffer.m = mem /\ Buffer.ws = writestr /\ Buffer.wp = writablePos /\ Buffer.rs = readstr
      /\ Buffer.writable = writableSize /\ Buffer.readable = readableSize /\ Buffer.used = usedSize
  BY DEF Buffer
<1>9. offered' = s /\ returned' = << >>
  BY DEF ReadFd
<1>10. t <= writableSize => Become(filled, readablePos) /\ accepted' = t
  BY DEF ReadFd
<1>11. ~(t <= writableSize) => Become(w.buf, readablePos) /\ accepted' = writableSize + w.n
  BY DEF ReadFd
<1> HIDE DEF t, here, m, part
<1>12. CASE t <= writableSize
  <2>1. filled = Filled(Buffer, part, p[1], p[2])
    BY <1>7 DEF Filled, Buffer, here
  <2>2. Position(p[1], p[2], n) /\ Place(p[1], p[2]) = here + Len(part)
    BY <1>3, <1>7, <1>12, ReadFdFits DEF here
  <2> HIDE DEF p, filled
  <2>3. /\ BufferOk(filled, readablePos, n) /\ Held(filled) = Held(Buffer) \o part
        /\ filled.m \in Seq(Byte) /\ Len(filled.m) = Len(mem)
    BY <1>3, <1>7, <1>8, <1>12, <2>1, <2>2, FilledAppends DEF here
  <2>4. Took(filled, t, Buffer, s)
    BY <1>2, <1>6, <2>3 DEF Took, part
  <2>5. Ready(filled, n, ops)
    BY <1>2 DEF Ready
  <2> QED
    BY <1>1, <1>2, <1>4, <1>9, <1>10, <1>12, <2>3, <2>4, <2>5, TookIsPut
<1>13. CASE ~(t <= writableSize)
  <2>1. writableSize \in 0..t /\ writableSize \in 0..Len(s)
    BY <1>1, <1>4, <1>6, <1>13
  <2>2. front \in Seq(Byte) /\ Len(front) = writableSize
    BY <1>1, <2>1, FrontIs
  <2> DEFINE wp == IF m = 0 THEN 0 ELSE BlockSize
  <2>3. full = Filled(Buffer, front, m, wp)
    <3>1. writableSize - writableSize = 0
      BY <1>4
    <3> QED
      BY <2>2, <3>1 DEF Filled, Buffer, here
  <2>4. Position(m, wp, n) /\ Place(m, wp) = here + writableSize /\ (wp = BlockSize => m = n)
    <3>1. here + writableSize = n * BlockSize
      BY <1>4
    <3>2. CASE n = 0
      BY <1>4, <3>1, <3>2 DEF Position, Place
    <3>3. CASE n > 0
      <4>1. n - 1 \in Nat /\ 1 * BlockSize = BlockSize /\ 1 \in Nat /\ 1 <= n
        BY <3>3
      <4>2. (n - 1) * BlockSize = n * BlockSize - 1 * BlockSize
        BY <4>1, Blocks
      <4>3. Place(m, wp) = (n - 1) * BlockSize + BlockSize
        BY <1>4, <3>3 DEF Place
      <4>4. Place(m, wp) = n * BlockSize
        BY <1>4, <4>1, <4>2, <4>3
      <4> QED
        BY <1>4, <3>1, <3>3, <4>4 DEF Position
    <3> QED
      BY <3>2, <3>3
  <2>5. full.ws = m /\ full.wp = wp
    BY DEF Buffer
  <2> HIDE DEF full, wp, front
  <2>6. /\ BufferOk(full, readablePos, n) /\ Held(full) = Held(Buffer) \o front
        /\ full.m \in Seq(Byte) /\ Len(full.m) = Len(mem)
    <3>1. Len(front) <= Buffer.writable /\ Place(m, wp) = Place(Buffer.ws, Buffer.wp) + Len(front)
      BY <1>4, <1>8, <2>2, <2>4 DEF here
    <3> QED
      BY <1>3, <1>8, <2>2, <2>3, <2>4, <3>1, FilledAppends
  <2>7. Settled(full, n)
    BY <2>4, <2>5 DEF Settled
  <2>8. rest \in Seq(Byte)
    <3> DEFINE e == t - writableSize
    <3>1. e \in Nat /\ writableSize + e = t /\ writableSize + e <= Len(s)
      BY <1>1, <1>4, <1>6, <2>1
    <3> HIDE DEF e
    <3>2. rest = Slice(s, writableSize, e)
      BY <3>1 DEF Slice
    <3> QED
      BY <1>1, <1>4, <3>1, <3>2, SliceIs
  <2>9. /\ Took(w.buf, w.n, full, rest)
        /\ \E k \in Nat : BufferOk(w.buf, readablePos, k)
    BY <1>2, <2>6, <2>7, <2>8, WrittenAppends
  <2> HIDE DEF w
  <2>10. Took(w.buf, writableSize + w.n, Buffer, s)
    BY <1>1, <1>5, <1>6, <2>1, <2>6, <2>9, TookMore DEF front
  <2>11. PICK k \in Nat : BufferOk(w.buf, readablePos, k)
    BY <2>9
  <2>12. Ready(w.buf, k, ops)
    BY <1>2 DEF Ready
  <2> QED
    BY <1>1, <1>2, <1>4, <1>9, <1>11, <1>13, <2>10, <2>11, <2>12, TookIsPut
<1> QED
  BY <1>12, <1>13

\* read returns the first bytes and leaves the rest.
LEMMA ReadStep ==
  ASSUME Consistent, NEW len \in Nat, len <= MaxRead, Read(len)
  PROVE  Consistent' /\ Queue!Take
<1> DEFINE l == IF len > readableSize THEN readableSize ELSE len
           place == Place(readstr, readablePos) + l
           p == Settle(place, Len(mem))
<1> BlockSize \in Nat \ {0} /\ MaxRead \in Nat
  BY SizeAssumption, ByteAssumption
<1>1. PICK n \in Nat : BufferOk(Buffer, readablePos, n) /\ Ready(Buffer, n, ops)
  BY DEF Consistent
<1>2. /\ mem \in Seq(Byte) /\ Len(mem) = n * BlockSize /\ n * BlockSize \in Nat
      /\ writableSize \in Nat /\ usedSize \in Nat /\ readableSize \in Nat
      /\ Position(writestr, writablePos, n) /\ usedSize = Place(readstr, readablePos)
      /\ usedSize + readableSize = Place(writestr, writablePos)
      /\ usedSize + readableSize + writableSize = n * BlockSize
      /\ Contents = Held(Buffer)
  BY <1>1, BufferIs, Blocks
<1>3. l \in Nat /\ l <= readableSize /\ l <= len
  BY <1>2
<1>4. /\ readstr' = p[1] /\ readablePos' = p[2]
      /\ readableSize' = readableSize - l /\ usedSize' = usedSize + l
      /\ UNCHANGED <<mem, writestr, writablePos, writableSize, ops>>
      /\ offered' = << >> /\ accepted' = 0 /\ returned' = SubSeq(Contents, 1, l)
  BY DEF Read, Retrieve, Peek
<1>5. place \in 0..n * BlockSize /\ place = usedSize + l
  <2> HIDE DEF l
  <2> QED
    BY <1>2, <1>3
<1>6. Position(p[1], p[2], n) /\ Place(p[1], p[2]) = place
  <2> HIDE DEF place
  <2> QED
    <3>1. Len(mem) = n * BlockSize /\ place \in 0..n * BlockSize
      BY <1>2, <1>5
    <3>2. LET q == Settle(place, n * BlockSize) IN Position(q[1], q[2], n) /\ Place(q[1], q[2]) = place
      BY <3>1, SettlePlaces
    <3> QED
      BY <3>1, <3>2
<1> HIDE DEF l, place, p
<1>7. readableSize - l \in Nat /\ usedSize + l \in Nat
      /\ usedSize + l + (readableSize - l) = usedSize + readableSize
  BY <1>2, <1>3
<1>8. p[1] \in Nat /\ writestr \in Nat /\ writablePos \in Nat
  BY <1>2, <1>6 DEF Position
<1>9. BufferOk(Buffer, readablePos, n)'
  <2>1. Buffer' = [m |-> mem, rs |-> p[1], ws |-> writestr, wp |-> writablePos,
                   writable |-> writableSize, used |-> usedSize + l, readable |-> readableSize - l]
    BY <1>4 DEF Buffer
  <2>2. Buffer' \in BufferType
    BY <1>2, <1>7, <1>8, <2>1 DEF BufferType
  <2>3. BufferOk(Buffer', p[2], n)
    <3>1. usedSize + l + (readableSize - l) + writableSize = n * BlockSize
      BY <1>2, <1>7
    <3> QED
      BY <1>2, <1>5, <1>6, <1>7, <2>1, <2>2, <3>1 DEF BufferOk
  <2>4. BufferOk(Buffer, readablePos, n)' <=> BufferOk(Buffer', readablePos', n)
    BY DEF BufferOk, Place, Position
  <2> QED
    BY <1>4, <2>3, <2>4
<1>10. Consistent'
  <2>1. Ready(Buffer, n, ops)'
    <3>1. "send" \in ops => Settled(Buffer, n)
      <4>1. CASE readableSize > 0
        BY <1>1, <4>1 DEF Ready, Rewound, Buffer
      <4>2. CASE mem = << >>
        <5>1. n = 0
          BY <1>2, <4>2, Blocks, Len(<< >>) = 0
        <5> QED
          BY <1>2, <5>1 DEF Settled, Position, Buffer
      <4> QED
        BY <4>1, <4>2 DEF Read
    <3>2. Settled(Buffer, n) => Settled(Buffer, n)'
      BY <1>4 DEF Settled, Buffer
    <3> QED
      BY <1>1, <1>4, <3>1, <3>2 DEF Ready
  <2>2. ops' \in Fillings /\ Len(mem') < 2 * MaxBlockSize
    BY <1>4 DEF Consistent
  <2> QED
    BY <1>9, <2>1, <2>2 DEF Consistent
<1>11. Contents \in Seq(Byte) /\ Len(Contents) = readableSize
  BY <1>1, <1>2, HeldIs DEF Buffer
<1>12. Contents' = SubSeq(Contents, l + 1, Len(Contents))
  <2> DEFINE e == readableSize - l
  <2>1. Contents' = Slice(mem, usedSize + l, e)
    <3>1. Place(p[1], p[2]) = usedSize + l
      BY <1>5, <1>6
    <3>2. Contents' = SubSeq(mem, Place(p[1], p[2]) + 1, Place(p[1], p[2]) + (readableSize - l))
      BY <1>4 DEF Contents, Place
    <3> QED
      BY <3>1, <3>2 DEF Slice
  <2>2. Contents = Slice(mem, usedSize, readableSize)
    BY <1>2 DEF Held, Buffer
  <2>3. e \in Nat /\ l + e = readableSize /\ l + e <= readableSize /\ usedSize + readableSize <= Len(mem)
    BY <1>2, <1>3
  <2> HIDE DEF e
  <2>4. Slice(Slice(mem, usedSize, readableSize), l, e) = Slice(mem, usedSize + l, e)
    BY <1>2, <1>3, <2>3, SliceOfSlice, SMTT(30)
  <2>5. Slice(Contents, l, e) = SubSeq(Contents, l + 1, Len(Contents))
    BY <1>11, <2>3 DEF Slice
  <2> QED
    BY <2>1, <2>2, <2>4, <2>5
<1>13. Queue!Take
  <2>1. l \in 0..Len(Contents) /\ l <= MaxRead
    BY <1>2, <1>3, <1>11
  <2> QED
    BY <1>4, <1>12, <2>1 DEF Queue!Take
<1> QED
  BY <1>10, <1>13

\* Every step keeps the invariant, and is a step of the byte queue.
LEMMA EveryStep ==
  ASSUME OneFilling, SmallWrites, Consistent, [Next]_vars
  PROVE  Consistent' /\ [Queue!Next]_(Queue!vars)
<1>1. ASSUME NEW s \in Chunk, Write(s) PROVE Consistent' /\ Queue!Next
  <2>1. Consistent' /\ Queue!Put(s)
    BY <1>1, StoreStep
  <2> QED
    BY <2>1 DEF Queue!Next
<1>2. ASSUME NEW s \in Message, Send(s) PROVE Consistent' /\ Queue!Next
  <2>1. ~Write(s)
    BY <1>2, FillingsAssumption DEF OneFilling, Consistent, Write, Send
  <2>2. Consistent' /\ Queue!Put(s)
    BY <1>2, <2>1, StoreStep
  <2> QED
    BY <2>2 DEF Queue!Next
<1>3. ASSUME UNCHANGED <<members, ops>> PROVE Consistent' /\ UNCHANGED Contents
  <2>1. UNCHANGED Contents
    BY <1>3 DEF members, readVars, Contents, Place
  <2>2. Buffer' = Buffer /\ readablePos' = readablePos /\ ops' = ops /\ mem' = mem
    BY <1>3 DEF members, readVars, Buffer
  <2>3. PICK n \in Nat : BufferOk(Buffer, readablePos, n) /\ Ready(Buffer, n, ops)
    BY DEF Consistent
  <2>4. BufferOk(Buffer, readablePos, n)' <=> BufferOk(Buffer', readablePos', n)
    BY DEF BufferOk, Place, Position
  <2>5. Ready(Buffer, n, ops)' <=> Ready(Buffer', n, ops')
    BY DEF Ready, Settled, Rewound
  <2>6. BufferOk(Buffer, readablePos, n)' /\ Ready(Buffer, n, ops)'
    BY <2>2, <2>3, <2>4, <2>5
  <2>7. ops' \in Fillings /\ Len(mem') < 2 * MaxBlockSize
    BY <2>2 DEF Consistent
  <2> QED
    BY <2>1, <2>6, <2>7 DEF Consistent
<1>4. CASE ReadFdFails
  <2>1. Queue!Fail
    BY <1>3, <1>4 DEF ReadFdFails, Queue!Fail
  <2> QED
    BY <1>3, <1>4, <2>1 DEF ReadFdFails, Queue!Next
<1>5. ASSUME NEW s \in Waiting, ReadFd(s) PROVE Consistent' /\ Queue!Next
  <2>1. Consistent' /\ Queue!Put(s)
    BY <1>5, ReadFdStep
  <2> QED
    BY <2>1 DEF Queue!Next
<1>6. ASSUME NEW len \in 0..MaxRead, Read(len) PROVE Consistent' /\ Queue!Next
  <2>1. len \in Nat /\ len <= MaxRead
    BY ByteAssumption
  <2>2. Consistent' /\ Queue!Take
    BY <1>6, <2>1, ReadStep
  <2> QED
    BY <2>2 DEF Queue!Next
<1>7. CASE GetLine
  <2>1. PICK i \in 1..readableSize : i <= MaxRead /\ Read(i)
    BY <1>7 DEF GetLine
  <2>2. i \in 0..MaxRead
    <3>1. readableSize \in Nat
      BY BufferIs DEF Consistent
    <3> QED
      BY <2>1, <3>1, ByteAssumption
  <2> QED
    BY <1>6, <2>1, <2>2
<1>8. CASE UNCHANGED vars
  BY <1>3, <1>8 DEF vars, Queue!vars
<1> QED
  BY <1>1, <1>2, <1>4, <1>5, <1>6, <1>7, <1>8 DEF Next

LEMMA StartsEmpty ==
  ASSUME Init
  PROVE  Consistent /\ Queue!Init
<1>1. 0 \in Nat /\ 0 * BlockSize = 0 /\ Len(<< >>) = 0 /\ << >> \in Seq(Byte)
      /\ BlockSize \in Nat \ {0} /\ MaxBlockSize \in Nat \ {0}
  BY SizeAssumption
<1>2. BufferOk(Buffer, readablePos, 0) /\ Ready(Buffer, 0, ops)
  BY <1>1 DEF Init, BufferOk, Ready, Settled, Buffer, BufferType, Position, Place
<1>3. Consistent
  BY <1>1, <1>2 DEF Consistent, Init
<1>4. Contents = << >>
  <2>1. Contents = SubSeq(<< >>, 1, 0)
    BY DEF Init, Contents, Place
  <2> QED
    BY <2>1, SubSeqEmpty
<1> QED
  BY <1>3, <1>4 DEF Init, Queue!Init
-----------------------------------------------------------------------------
(***************************************************************************)
(* The theorems.                                                           *)
(***************************************************************************)
LEMMA AlwaysConsistent == OneFilling /\ SmallWrites /\ Spec => []Consistent
<1>1. ASSUME OneFilling, SmallWrites PROVE Spec => []Consistent
  <2>1. Consistent /\ [Next]_vars => Consistent'
    BY <1>1, EveryStep
  <2> QED
    BY <2>1, StartsEmpty, PTL DEF Spec
<1> QED
  BY <1>1

\* The types, and the bound on the blocks: twice the limit is never reached,
\* although write may add blocks up to the limit to a list near it.
THEOREM TypeCorrect == OneFilling /\ SmallWrites /\ Spec => []TypeOK
<1>1. Consistent => TypeOK
  <2> SUFFICES ASSUME Consistent PROVE TypeOK
    OBVIOUS
  <2>1. PICK n \in Nat : BufferOk(Buffer, readablePos, n)
    BY DEF Consistent
  <2>2. /\ mem \in Seq(Byte) /\ Len(mem) = n * BlockSize
        /\ writableSize \in Nat /\ usedSize \in Nat /\ readableSize \in Nat
        /\ Position(readstr, readablePos, n) /\ Position(writestr, writablePos, n)
    BY <2>1, BufferIs
  <2>3. Len(mem) % BlockSize = 0 /\ Len(mem) \div BlockSize = n
    BY <2>2, Blocks
  <2> QED
    BY <2>2, <2>3 DEF TypeOK, Consistent, Position
<1> QED
  BY <1>1, AlwaysConsistent, PTL

\* The three sizes are the distances KBuffer.h:127-132 says they are, after
\* any sequence of writes, reads, moves and extensions of the list.
THEOREM SizesAlwaysAgree == OneFilling /\ SmallWrites /\ Spec => []SizesAgree
<1>1. Consistent => SizesAgree
  <2> SUFFICES ASSUME Consistent PROVE SizesAgree
    OBVIOUS
  <2>1. PICK n \in Nat : BufferOk(Buffer, readablePos, n)
    BY DEF Consistent
  <2>2. /\ Len(mem) = n * BlockSize /\ n * BlockSize \in Nat
        /\ writableSize \in Nat /\ usedSize \in Nat /\ readableSize \in Nat
        /\ Position(writestr, writablePos, n)
        /\ usedSize = Place(readstr, readablePos)
        /\ usedSize + readableSize = Place(writestr, writablePos)
        /\ usedSize + readableSize + writableSize = n * BlockSize
    BY <2>1, BufferIs, Blocks
  <2>3. writestr * BlockSize <= n * BlockSize
    <3>1. writestr \in Nat /\ writestr <= n
      BY <2>2 DEF Position
    <3> QED
      BY <3>1, Blocks
  <2> DEFINE x == Place(readstr, readablePos)
             y == Place(writestr, writablePos)
             z == n * BlockSize
  <2>4. /\ usedSize \in Nat /\ readableSize \in Nat /\ writableSize \in Nat
        /\ usedSize = x /\ usedSize + readableSize = y /\ usedSize + readableSize + writableSize = z
    BY <2>2
  <2> HIDE DEF x, y, z
  <2>5. readableSize = y - x /\ writableSize = z - y
    BY <2>4
  <2> QED
    BY <2>2, <2>3, <2>4, <2>5 DEF SizesAgree, x, y, z
<1> QED
  BY <1>1, AlwaysConsistent, PTL

\* The differences of sizes that write computes in size_t, at KBuffer.cpp:149
\* and, for a list below the limit, at KBuffer.cpp:168, do not pass zero.
SubtractionsDoNotWrap ==
  /\ usedSize >= readablePos
  /\ Len(mem) < MaxBlockSize => usedSize - readablePos + writableSize <= MaxBlockSize

THEOREM SubtractionsNeverWrap == OneFilling /\ SmallWrites /\ Spec => []SubtractionsDoNotWrap
<1>1. Consistent => SubtractionsDoNotWrap
  <2> SUFFICES ASSUME Consistent PROVE SubtractionsDoNotWrap
    OBVIOUS
  <2>1. PICK n \in Nat : BufferOk(Buffer, readablePos, n)
    BY DEF Consistent
  <2>2. Buffer.used = usedSize /\ Len(mem) = n * BlockSize /\ n * BlockSize \in Nat
        /\ writableSize \in Nat /\ usedSize \in Nat /\ readableSize \in Nat
        /\ usedSize + readableSize + writableSize = n * BlockSize /\ readablePos \in 0..BlockSize
    BY <2>1, BufferIs, Blocks DEF Buffer, Position
  <2>3. usedSize >= readablePos
    BY <2>1, <2>2, FreeIs
  <2> DEFINE z == n * BlockSize
  <2>4. /\ usedSize + readableSize + writableSize = z /\ usedSize \in Nat /\ readableSize \in Nat
        /\ writableSize \in Nat /\ readablePos \in Nat /\ Len(mem) = z
    BY <2>2, SizeAssumption
  <2> HIDE DEF z
  <2>5. z < MaxBlockSize => usedSize - readablePos + writableSize <= MaxBlockSize
    BY <2>4, SizeAssumption
  <2> QED
    BY <2>3, <2>4, <2>5 DEF SubtractionsDoNotWrap
<1> QED
  BY <1>1, AlwaysConsistent, PTL

\* A write of at most half the limit that leaves a block of the limit free is
\* taken as a whole, also by a buffer that refused a larger one before.  The
\* theorem says nothing of larger writes: write refuses some that would fit.
THEOREM SmallWritesAlwaysTaken == OneFilling /\ SmallWrites /\ Spec => SmallWritesTaken
<1>1. ASSUME OneFilling, SmallWrites PROVE Spec => SmallWritesTaken
  <2> DEFINE Taken == \A s \in Chunk \cup Message :
                        /\ Write(s) \/ Send(s)
                        /\ 2 * Len(s) <= MaxBlockSize /\ readableSize + Len(s) + BlockSize <= MaxBlockSize
                        => accepted' = Len(s)
  <2>1. Consistent => Taken
    <3> SUFFICES ASSUME Consistent, NEW s \in Chunk \cup Message, Write(s) \/ Send(s),
                        2 * Len(s) <= MaxBlockSize,
                        readableSize + Len(s) + BlockSize <= MaxBlockSize
                 PROVE  accepted' = Len(s)
      OBVIOUS
    <3>1. PICK n \in Nat : BufferOk(Buffer, readablePos, n) /\ Ready(Buffer, n, ops)
      BY DEF Consistent
    <3>2. Settled(Buffer, n) \/ Buffer.rs <= 1
      BY <3>1 DEF Ready, Rewound, Write, Send
    <3>3. s \in Seq(Byte)
      BY ByteAssumption
    <3>4. Buffer.readable + Len(s) + BlockSize <= MaxBlockSize
      BY DEF Buffer
    <3>5. Written(Buffer, s).n = Len(s)
      BY <3>1, <3>2, <3>3, <3>4, WrittenTakesAll
    <3> QED
      BY <3>5 DEF Write, Send, Store
  <2> HIDE DEF Taken
  <2>2. Consistent /\ [Next]_vars => [Taken]_vars
    BY <2>1
  <2>3. Spec => []Consistent
    BY <1>1, AlwaysConsistent
  <2>4. Spec => [][Taken]_vars
    BY <2>2, <2>3, PTL DEF Spec
  <2> QED
    BY <2>4 DEF Taken, SmallWritesTaken
<1> QED
  BY <1>1

\* Whatever is written or refused, moved, added and read, and also when a readv
\* fails, the buffer is a byte queue.
THEOREM RefinesByteQueue == OneFilling /\ SmallWrites /\ Spec => ImplementsByteQueue
<1>1. ASSUME OneFilling, SmallWrites PROVE Spec => ImplementsByteQueue
  <2>1. Consistent /\ [Next]_vars => [Queue!Next]_(Queue!vars)
    BY <1>1, EveryStep
  <2>2. Init => Queue!Init
    BY StartsEmpty
  <2>3. Spec => []Consistent
    BY <1>1, AlwaysConsistent
  <2> QED
    BY <2>1, <2>2, <2>3, PTL DEF Spec, ImplementsByteQueue, Queue!Spec
<1> QED
  BY <1>1
=============================================================================
