------------------------- MODULE AsyncSocketProofs -------------------------
(***************************************************************************)
(* What the writes of AsyncSocket do to the bytes of a socket, for any     *)
(* sizes and any part of them that the kernel takes: lemmas for proofs     *)
(* about whoever writes.                                                   *)
(***************************************************************************)
EXTENDS AsyncSocket, SequenceTheorems, TLAPS

Bytes == Seq(Byte)

\* The sockets are of their types, and the amount that getBufferedAmount is off
\* by is within its share.
State(i) == i \in IO /\ \A s \in Sockets : i.removed[s] * EraseShare <= TotalLength(i, s)

\* Nothing is in a cork buffer that nobody has.
Tidy(i) == i.corked = NoSocket => i.cork = <<>>

\* What waits in the cork buffer for s, and everywhere, and all that was sent.
InCork(i, s)  == IF i.corked = s THEN i.cork ELSE <<>>
Waiting(i, s) == i.buffer[s] \o InCork(i, s)
Stream(i, s)  == i.wire[s] \o Waiting(i, s)

\* What the socket alone has to write is polled for; and it is noted that the
\* write of it has failed.
Sendable(i, s) == s \in i.open /\ s \notin i.shut
Watched(i, s) == Sendable(i, s) /\ i.buffer[s] # <<>> => s \in i.polls
Marked(i, s)  == Sendable(i, s) /\ i.buffer[s] # <<>> => i.failed

\* A step from i to j that is about s.
About(i, j, s) ==
  /\ j.open = i.open /\ j.shut = i.shut
  /\ \A r \in Sockets \ {s} : /\ j.wire[r] = i.wire[r] /\ j.buffer[r] = i.buffer[r]
                              /\ r \in j.polls <=> r \in i.polls
  /\ Len(i.wire[s]) <= Len(j.wire[s])
  /\ Refuses(i, s) => j.wire[s] = i.wire[s]
  /\ Watched(i, s) => Watched(j, s)
  /\ i.failed => j.failed

\* s writes b behind what is in its buffer.
Moves(i, j, s, b) ==
  /\ State(j) /\ About(i, j, s)
  /\ j.corked = i.corked /\ j.cork = i.cork
  /\ Marked(i, s) => Marked(j, s)
  /\ j.wire[s] \o j.buffer[s] = (i.wire[s] \o i.buffer[s]) \o b

\* s sends b, to wherever there is room behind what it has sent.
Sends(i, j, s, b) ==
  /\ State(j) /\ Tidy(j) /\ About(i, j, s)
  /\ j.corked \in {i.corked, s, NoSocket}
  /\ \A r \in Sockets \ {s} : InCork(j, r) = InCork(i, r)
  /\ s \in i.open => Stream(j, s) = Stream(i, s) \o b

-----------------------------------------------------------------------------
(* Sequences of bytes.                                                     *)

\* A part of a sequence, and the rest.
LEMMA Split ==
  ASSUME NEW b \in Bytes, NEW n \in 0 .. Len(b)
  PROVE  /\ SubSeq(b, 1, n) \in Bytes /\ Rest(b, n) \in Bytes
         /\ Len(SubSeq(b, 1, n)) = n /\ Len(Rest(b, n)) = Len(b) - n
         /\ SubSeq(b, 1, n) \o Rest(b, n) = b
<1>1. Len(b) \in Nat /\ \A k \in 1 .. Len(b) : b[k] \in Byte
  BY DEF Bytes
<1>2. SubSeq(b, 1, n) \in Bytes /\ Len(SubSeq(b, 1, n)) = n
      /\ \A k \in 1 .. n : SubSeq(b, 1, n)[k] = b[k]
  BY <1>1, SubSeqProperties DEF Bytes
<1>3. Rest(b, n) \in Bytes /\ Len(Rest(b, n)) = Len(b) - n
      /\ \A k \in 1 .. Len(b) - n : Rest(b, n)[k] = b[n + k]
  BY <1>1, SubSeqProperties DEF Bytes, Rest
<1> DEFINE p == SubSeq(b, 1, n)
           q == Rest(b, n)
<1>4. p \o q \in Bytes /\ Len(p \o q) = Len(b)
      /\ \A k \in 1 .. Len(b) : (p \o q)[k] = IF k <= n THEN p[k] ELSE q[k - n]
  BY <1>1, <1>2, <1>3, ConcatProperties DEF Bytes
<1>5. \A k \in 1 .. Len(b) : (p \o q)[k] = b[k]
  BY <1>1, <1>2, <1>3, <1>4
<1>6. p \o q = b
  BY <1>4, <1>5, SeqEqual DEF Bytes
<1> QED BY <1>2, <1>3, <1>6

\* Concatenation.
LEMMA Cat ==
  ASSUME NEW b \in Bytes, NEW c \in Bytes
  PROVE  /\ b \o c \in Bytes /\ Len(b \o c) = Len(b) + Len(c) /\ Len(b) \in Nat
         /\ b \o <<>> = b /\ <<>> \o b = b /\ <<>> \in Bytes
         /\ (Len(b) = 0 <=> b = <<>>)
<1>1. b \o c \in Bytes /\ Len(b \o c) = Len(b) + Len(c)
  BY ConcatProperties DEF Bytes
<1>2. b \o <<>> = b /\ <<>> \o b = b
  BY ConcatEmptySeq DEF Bytes
<1>3. Len(b) \in Nat /\ <<>> \in Bytes /\ (Len(b) = 0 <=> b = <<>>)
  BY EmptySeq DEF Bytes
<1> QED BY <1>1, <1>2, <1>3

\* Concatenation associates.
LEMMA CatAssociates ==
  ASSUME NEW b \in Bytes, NEW c \in Bytes, NEW d \in Bytes
  PROVE  (b \o c) \o d = b \o (c \o d)
BY ConcatAssociative DEF Bytes

\* The share that may be kept is kept: BackPressure::erase compares by division.
LEMMA Share ==
  ASSUME NEW t \in Nat, NEW x \in Nat, ~(x > t \div EraseShare)
  PROVE  x * EraseShare <= t
<1>1. EraseShare \in Nat \ {0}
  BY AsyncSocketAssumption
<1> DEFINE q == t \div EraseShare
<1>2. q \in Nat /\ q * EraseShare <= t
  BY <1>1
<1>3. x <= q
  BY <1>2
<1> HIDE DEF q
<1>4. x * EraseShare <= q * EraseShare
  BY <1>1, <1>2, <1>3
<1>5. x * EraseShare \in Nat /\ q * EraseShare \in Nat
  BY <1>1, <1>2
<1> QED BY <1>2, <1>4, <1>5

-----------------------------------------------------------------------------
(* The operations on the state of the sockets, field by field.             *)

\* The fields and their types.
LEMMA Fields ==
  ASSUME NEW i, State(i)
  PROVE  /\ i \in IO /\ i.open \in SUBSET Sockets /\ i.shut \in SUBSET Sockets /\ i.polls \in SUBSET Sockets
         /\ i.failed \in BOOLEAN /\ i.corked \in Sockets \cup {NoSocket} /\ i.cork \in Bytes
         /\ \A s \in Sockets : /\ i.wire[s] \in Bytes /\ i.buffer[s] \in Bytes /\ i.removed[s] \in Nat
                               /\ InCork(i, s) \in Bytes /\ Waiting(i, s) \in Bytes /\ Stream(i, s) \in Bytes
                               /\ Len(i.buffer[s]) \in Nat
                               /\ (GetBufferedAmount(i, s) = 0 => i.buffer[s] = <<>>)
<1>1. /\ i \in IO /\ i.open \in SUBSET Sockets /\ i.shut \in SUBSET Sockets /\ i.polls \in SUBSET Sockets
      /\ i.failed \in BOOLEAN /\ i.corked \in Sockets \cup {NoSocket} /\ i.cork \in Bytes
      /\ \A s \in Sockets : i.wire[s] \in Bytes /\ i.buffer[s] \in Bytes /\ i.removed[s] \in Nat
  BY DEF State, IO, Bytes
<1>2. <<>> \in Bytes
  BY <1>1, Cat
<1>3. ASSUME NEW s \in Sockets
      PROVE  /\ InCork(i, s) \in Bytes /\ Waiting(i, s) \in Bytes /\ Stream(i, s) \in Bytes
             /\ Len(i.buffer[s]) \in Nat
             /\ (GetBufferedAmount(i, s) = 0 => i.buffer[s] = <<>>)
  <2>1. InCork(i, s) \in Bytes
    BY <1>1, <1>2 DEF InCork
  <2>2. Waiting(i, s) \in Bytes
    BY <1>1, <2>1, Cat DEF Waiting
  <2>3. Stream(i, s) \in Bytes
    BY <1>1, <2>2, Cat DEF Stream
  <2>4. Len(i.buffer[s]) \in Nat /\ (Len(i.buffer[s]) = 0 => i.buffer[s] = <<>>)
    BY <1>1, Cat
  <2>5. GetBufferedAmount(i, s) = 0 => Len(i.buffer[s]) = 0
    BY <1>1, <2>4 DEF GetBufferedAmount, TotalLength
  <2> QED BY <2>1, <2>2, <2>3, <2>4, <2>5
<1> QED BY <1>1, <1>3

\* The fields in which i and j are the same, but for the buffers of s.
SameRest(i, j, s) ==
  /\ j.open = i.open /\ j.shut = i.shut /\ j.corked = i.corked /\ j.cork = i.cork
  /\ \A r \in Sockets \ {s} : j.wire[r] = i.wire[r] /\ j.buffer[r] = i.buffer[r] /\ j.removed[r] = i.removed[r]
                              /\ (r \in j.polls <=> r \in i.polls)

\* A write of which n bytes are taken.
LEMMA WrittenIs ==
  ASSUME NEW i \in IO, NEW s \in Sockets, NEW b \in Bytes, NEW n \in Accepted(i, s, b)
  PROVE  LET j == Written(i, s, b, n)
         IN  /\ j \in IO /\ SameRest(i, j, s) /\ n \in 0 .. Len(b)
             /\ j.wire[s] = i.wire[s] \o SubSeq(b, 1, n)
             /\ j.buffer[s] = i.buffer[s] /\ j.removed[s] = i.removed[s]
             /\ (Refuses(i, s) => j.wire[s] = i.wire[s])
             /\ (s \in i.polls => s \in j.polls) /\ (i.failed => j.failed)
             /\ (n < Len(b) /\ ~Refuses(i, s) => s \in j.polls /\ j.failed)
<1>1. CASE Refuses(i, s)
  <2>1. n = 0 /\ Written(i, s, b, n) = i
    BY <1>1 DEF Accepted, Written
  <2>2. SubSeq(b, 1, 0) = <<>> /\ i.wire[s] \in Bytes /\ Len(b) \in Nat
    BY SubSeqEmpty, Cat DEF IO, Bytes
  <2>3. i.wire[s] \o <<>> = i.wire[s]
    BY ONLY <2>2, Cat
  <2>4. SubSeq(b, 1, n) = <<>>
    BY <2>1, <2>2
  <2> DEFINE j == Written(i, s, b, n)
  <2>5. j = i
    BY <2>1
  <2> HIDE DEF j
  <2>6. SameRest(i, j, s)
    BY <2>5 DEF SameRest
  <2>7. n \in 0 .. Len(b)
    BY <2>1, <2>2
  <2>8. j.wire[s] = i.wire[s] \o SubSeq(b, 1, n)
    BY <2>3, <2>4, <2>5
  <2> QED BY <1>1, <2>5, <2>6, <2>7, <2>8 DEF j
<1>2. CASE ~Refuses(i, s)
  <2>1. n \in 0 .. Len(b)
    BY <1>2 DEF Accepted
  <2> DEFINE p == SubSeq(b, 1, n)
             t == Taken(i, s, b, n)
             j == [t EXCEPT !.failed = @ \/ n < Len(b)]
  <2>2. p \in Bytes /\ i.wire[s] \in Bytes
    BY <2>1, Split DEF IO, Bytes
  <2>3. i.wire[s] \o p \in Bytes
    BY <2>2, Cat
  <2>4. t = [i EXCEPT !.wire[s] = @ \o p, !.polls = IF n < Len(b) THEN @ \cup {s} ELSE @]
    BY DEF Taken
  <2>5. Written(i, s, b, n) = j
    BY <1>2 DEF Written
  <2> HIDE DEF p
  <2> DEFINE w == [i.wire EXCEPT ![s] = @ \o p]
             q == IF n < Len(b) THEN i.polls \cup {s} ELSE i.polls
  <2>w. w \in [Sockets -> Bytes] /\ w[s] = i.wire[s] \o p /\ \A r \in Sockets \ {s} : w[r] = i.wire[r]
    BY <2>3 DEF IO, Bytes
  <2>q. q \in SUBSET Sockets /\ \A r \in Sockets \ {s} : r \in q <=> r \in i.polls
    BY DEF IO
  <2>t. t = [i EXCEPT !.wire = w, !.polls = q]
    BY <2>4 DEF IO
  <2> HIDE DEF w, q
  <2>6. t \in IO /\ SameRest(i, t, s) /\ t.wire[s] = i.wire[s] \o p /\ t.buffer[s] = i.buffer[s]
        /\ t.removed[s] = i.removed[s] /\ t.failed = i.failed /\ t.polls = q
    BY <2>t, <2>w, <2>q DEF IO, SameRest, Bytes
  <2> HIDE DEF t
  <2> HIDE DEF q
  <2>7. j \in IO /\ SameRest(i, j, s) /\ j.wire[s] = t.wire[s] /\ j.buffer[s] = i.buffer[s]
        /\ j.removed[s] = i.removed[s] /\ j.polls = t.polls /\ j.failed = (i.failed \/ n < Len(b))
    BY <2>6 DEF IO, SameRest
  <2> HIDE DEF j
  <2> QED BY <1>2, <2>1, <2>5, <2>6, <2>7, <2>q DEF p, q
<1> QED BY <1>1, <1>2

\* The same for the write of header and payload, which leaves the flag alone.
LEMMA Written2Is ==
  ASSUME NEW i \in IO, NEW s \in Sockets, NEW b \in Bytes, NEW n \in Accepted(i, s, b)
  PROVE  LET j == Written2(i, s, b, n)
         IN  /\ j \in IO /\ SameRest(i, j, s) /\ n \in 0 .. Len(b)
             /\ j.wire[s] = i.wire[s] \o SubSeq(b, 1, n)
             /\ j.buffer[s] = i.buffer[s] /\ j.removed[s] = i.removed[s] /\ j.failed = i.failed
             /\ (Refuses(i, s) => j.wire[s] = i.wire[s])
             /\ (s \in i.polls => s \in j.polls)
             /\ (n < Len(b) /\ ~Refuses(i, s) => s \in j.polls)
<1> DEFINE j == Written2(i, s, b, n)
           k == Written(i, s, b, n)
<1>1. j = [k EXCEPT !.failed = i.failed]
  BY DEF Written, Written2, Taken, IO
<1>2. /\ k \in IO /\ SameRest(i, k, s) /\ n \in 0 .. Len(b)
      /\ k.wire[s] = i.wire[s] \o SubSeq(b, 1, n)
      /\ k.buffer[s] = i.buffer[s] /\ k.removed[s] = i.removed[s]
      /\ (Refuses(i, s) => k.wire[s] = i.wire[s])
      /\ (s \in i.polls => s \in k.polls)
      /\ (n < Len(b) /\ ~Refuses(i, s) => s \in k.polls)
  BY WrittenIs
<1>3. i.failed \in BOOLEAN
  BY DEF IO
<1> HIDE DEF j, k
<1>4. j \in IO /\ j.wire = k.wire /\ j.buffer = k.buffer /\ j.removed = k.removed /\ j.polls = k.polls
      /\ j.failed = i.failed /\ j.open = k.open /\ j.shut = k.shut /\ j.corked = k.corked /\ j.cork = k.cork
  BY <1>1, <1>2, <1>3 DEF IO
<1>5. SameRest(i, j, s)
  BY <1>2, <1>4 DEF SameRest
<1> QED BY <1>2, <1>4, <1>5 DEF j

\* The state with another buffer for s.
WithBuffer(i, s, b, n) == [i EXCEPT !.buffer[s] = b, !.removed[s] = n]

\* It differs from the other one only there.
LEMMA BufferIs ==
  ASSUME NEW i \in IO, NEW s \in Sockets, NEW b \in Bytes, NEW n \in Nat
  PROVE  LET j == WithBuffer(i, s, b, n)
         IN  /\ j \in IO /\ SameRest(i, j, s) /\ j.wire = i.wire /\ j.polls = i.polls /\ j.failed = i.failed
             /\ j.buffer[s] = b /\ j.removed[s] = n
<1> DEFINE p == [i.buffer EXCEPT ![s] = b]
           q == [i.removed EXCEPT ![s] = n]
           j == [i EXCEPT !.buffer = p, !.removed = q]
<1>1. p \in [Sockets -> Bytes] /\ p[s] = b /\ \A r \in Sockets \ {s} : p[r] = i.buffer[r]
  BY DEF IO, Bytes
<1>2. q \in [Sockets -> Nat] /\ q[s] = n /\ \A r \in Sockets \ {s} : q[r] = i.removed[r]
  BY DEF IO
<1>3. WithBuffer(i, s, b, n) = j
  BY DEF WithBuffer
<1> HIDE DEF p, q
<1>4. /\ j \in IO /\ j.wire = i.wire /\ j.polls = i.polls /\ j.failed = i.failed /\ j.buffer = p /\ j.removed = q
      /\ j.open = i.open /\ j.shut = i.shut /\ j.corked = i.corked /\ j.cork = i.cork
  BY <1>1, <1>2 DEF IO, Bytes
<1> HIDE DEF j
<1>5. SameRest(i, j, s)
  BY <1>1, <1>2, <1>4 DEF SameRest
<1> QED BY <1>1, <1>2, <1>3, <1>4, <1>5

\* More is buffered.
LEMMA BufferedIs ==
  ASSUME NEW i \in IO, NEW s \in Sockets, NEW b \in Bytes
  PROVE  LET j == Buffered(i, s, b)
         IN  /\ j \in IO /\ SameRest(i, j, s) /\ j.wire = i.wire /\ j.polls = i.polls /\ j.failed = i.failed
             /\ j.buffer[s] = i.buffer[s] \o b /\ j.removed[s] = i.removed[s]
<1> DEFINE c == i.buffer[s] \o b
           n == i.removed[s]
<1>1. c \in Bytes /\ n \in Nat
  BY Cat DEF IO, Bytes
<1>2. Buffered(i, s, b) = WithBuffer(i, s, c, n)
  BY DEF Buffered, WithBuffer, IO
<1> HIDE DEF c, n
<1>3. LET j == WithBuffer(i, s, c, n)
      IN  /\ j \in IO /\ SameRest(i, j, s) /\ j.wire = i.wire /\ j.polls = i.polls /\ j.failed = i.failed
          /\ j.buffer[s] = c /\ j.removed[s] = n
  BY <1>1, BufferIs
<1> QED BY <1>2, <1>3 DEF c, n

\* Bytes are removed in front.
LEMMA EraseIs ==
  ASSUME NEW i \in IO, NEW s \in Sockets, NEW n \in 0 .. Len(i.buffer[s]),
         i.removed[s] * EraseShare <= TotalLength(i, s)
  PROVE  LET j == Erase(i, s, n)
         IN  /\ j \in IO /\ SameRest(i, j, s) /\ j.wire = i.wire /\ j.polls = i.polls /\ j.failed = i.failed
             /\ j.buffer[s] = Rest(i.buffer[s], n) /\ j.removed[s] * EraseShare <= TotalLength(j, s)
<1> DEFINE c == Rest(i.buffer[s], n)
           x == i.removed[s] + n
           t == TotalLength(i, s)
           m == IF x > t \div EraseShare THEN 0 ELSE x
<1>1. i.buffer[s] \in Bytes /\ i.removed[s] \in Nat /\ EraseShare \in Nat \ {0}
  BY AsyncSocketAssumption DEF IO, Bytes
<1>2. c \in Bytes /\ Len(c) = Len(i.buffer[s]) - n /\ Len(i.buffer[s]) \in Nat
  BY <1>1, Split, Cat
<1>3. x \in Nat /\ t \in Nat /\ t = Len(c) + x
  BY <1>1, <1>2 DEF TotalLength
<1>4. Erase(i, s, n) = WithBuffer(i, s, c, m)
  BY DEF Erase, WithBuffer
<1>5. m \in Nat /\ m * EraseShare <= Len(c) + m
  <2>1. CASE x > t \div EraseShare
    BY <2>1, <1>1, <1>2
  <2>2. CASE ~(x > t \div EraseShare)
    <3>1. m = x
      BY <2>2
    <3> HIDE DEF x, t, m
    <3>2. x * EraseShare <= t
      BY <2>2, <1>3, Share
    <3> QED BY <3>1, <3>2, <1>3
  <2> QED BY <2>1, <2>2
<1> HIDE DEF c, m, x, t
<1> DEFINE j == WithBuffer(i, s, c, m)
<1>6. /\ j \in IO /\ SameRest(i, j, s) /\ j.wire = i.wire /\ j.polls = i.polls /\ j.failed = i.failed
      /\ j.buffer[s] = c /\ j.removed[s] = m
  <2>1. c \in Bytes /\ m \in Nat
    BY <1>2, <1>5
  <2> QED BY ONLY <2>1, i \in IO, s \in Sockets, BufferIs
<1> HIDE DEF j
<1>7. j.removed[s] * EraseShare <= TotalLength(j, s)
  BY <1>5, <1>6 DEF TotalLength
<1> QED BY <1>4, <1>6, <1>7 DEF c, j

\* The share of what is removed is the same or smaller.
LEMMA StateIs ==
  ASSUME NEW i, State(i), NEW j \in IO, NEW s \in Sockets, SameRest(i, j, s),
         j.removed[s] * EraseShare <= TotalLength(j, s)
  PROVE  State(j)
<1> SUFFICES ASSUME NEW r \in Sockets PROVE j.removed[r] * EraseShare <= TotalLength(j, r)
  BY DEF State
<1>1. CASE r = s
  BY <1>1
<1>2. CASE r # s
  BY <1>2 DEF State, SameRest, TotalLength
<1> QED BY <1>1, <1>2

-----------------------------------------------------------------------------
(* Steps.                                                                  *)

\* A step may do nothing.
LEMMA MovesNot ==
  ASSUME NEW i, State(i), NEW s \in Sockets
  PROVE  Moves(i, i, s, <<>>)
<1>1. i.wire[s] \in Bytes /\ i.buffer[s] \in Bytes
  BY Fields
<1>2. i.wire[s] \o i.buffer[s] \in Bytes /\ Len(i.wire[s]) \in Nat
  BY <1>1, Cat
<1>3. (i.wire[s] \o i.buffer[s]) \o <<>> = i.wire[s] \o i.buffer[s]
  BY <1>2, Cat
<1>4. Len(i.wire[s]) <= Len(i.wire[s])
  BY <1>2
<1> QED BY <1>3, <1>4 DEF Moves, About

\* One step after another is about the same socket.
LEMMA AboutAfter ==
  ASSUME NEW i, NEW j, NEW k, State(i), State(j), State(k), NEW s \in Sockets, About(i, j, s), About(j, k, s)
  PROVE  About(i, k, s)
<1>1. /\ Len(i.wire[s]) \in Nat /\ Len(j.wire[s]) \in Nat /\ Len(k.wire[s]) \in Nat
  <2>1. i.wire[s] \in Bytes /\ j.wire[s] \in Bytes /\ k.wire[s] \in Bytes
    BY Fields
  <2> QED BY <2>1, Cat
<1>2. Len(i.wire[s]) <= Len(k.wire[s])
  BY <1>1 DEF About
<1>3. Refuses(i, s) => Refuses(j, s)
  BY DEF About, Refuses
<1>4. Watched(i, s) => Watched(k, s)
  BY DEF About
<1> QED BY <1>2, <1>3, <1>4 DEF About

\* One write after another writes what they write.
LEMMA MovesAfter ==
  ASSUME NEW i, NEW j, NEW k, State(i), NEW s \in Sockets, NEW b \in Bytes, NEW c \in Bytes,
         Moves(i, j, s, b), Moves(j, k, s, c)
  PROVE  Moves(i, k, s, b \o c)
<1>1. State(j) /\ State(k)
  BY DEF Moves
<1>2. About(i, k, s)
  BY <1>1, AboutAfter DEF Moves
<1>3. k.wire[s] \o k.buffer[s] = (i.wire[s] \o i.buffer[s]) \o (b \o c)
  <2> DEFINE u == i.wire[s] \o i.buffer[s]
             v == j.wire[s] \o j.buffer[s]
             w == k.wire[s] \o k.buffer[s]
  <2>1. i.wire[s] \in Bytes /\ i.buffer[s] \in Bytes
    BY Fields
  <2>2. u \in Bytes
    BY <2>1, Cat
  <2>3. v = u \o b /\ w = v \o c
    BY DEF Moves
  <2> HIDE DEF u, v, w
  <2>4. (u \o b) \o c = u \o (b \o c)
    BY <2>2, CatAssociates
  <2>5. w = u \o (b \o c)
    BY <2>3, <2>4
  <2> QED BY <2>5 DEF u, w
<1> QED BY <1>1, <1>2, <1>3 DEF Moves

\* More is buffered behind what is polled for.
LEMMA BufferedMoves ==
  ASSUME NEW i, State(i), NEW s \in Sockets, NEW b \in Bytes, Sendable(i, s) => s \in i.polls /\ i.failed
  PROVE  Moves(i, Buffered(i, s, b), s, b)
<1> DEFINE j == Buffered(i, s, b)
<1>1. /\ j \in IO /\ SameRest(i, j, s) /\ j.wire = i.wire /\ j.polls = i.polls /\ j.failed = i.failed
      /\ j.buffer[s] = i.buffer[s] \o b /\ j.removed[s] = i.removed[s]
  BY BufferedIs DEF State
<1> HIDE DEF j
<1>2. i.wire[s] \in Bytes /\ i.buffer[s] \in Bytes /\ i.removed[s] \in Nat
  BY Fields
<1>3. Len(i.wire[s]) \in Nat /\ Len(i.buffer[s]) \in Nat /\ Len(b) \in Nat
      /\ Len(i.buffer[s] \o b) = Len(i.buffer[s]) + Len(b)
  BY <1>2, Cat
<1>a. i.wire[s] \o (i.buffer[s] \o b) = (i.wire[s] \o i.buffer[s]) \o b
  BY <1>2, CatAssociates
<1>4. j.removed[s] * EraseShare <= TotalLength(j, s)
  <2>1. i.removed[s] * EraseShare <= TotalLength(i, s)
    BY DEF State
  <2>2. i.removed[s] * EraseShare \in Nat
    BY <1>2, AsyncSocketAssumption
  <2>3. TotalLength(j, s) = TotalLength(i, s) + Len(b)
    BY <1>1, <1>2, <1>3 DEF TotalLength
  <2>4. TotalLength(i, s) \in Nat
    BY <1>2, <1>3 DEF TotalLength
  <2>5. j.removed[s] * EraseShare = i.removed[s] * EraseShare
    BY <1>1
  <2> QED BY <2>1, <2>2, <2>3, <2>4, <2>5, <1>3
<1>5. State(j)
  BY <1>1, <1>4, StateIs
<1>6. Watched(j, s) /\ Marked(j, s)
  BY <1>1 DEF Watched, Marked, SameRest, Sendable
<1>7. About(i, j, s)
  BY <1>1, <1>3, <1>6 DEF About, SameRest
<1> QED BY <1>1, <1>a, <1>5, <1>6, <1>7 DEF Moves, SameRest, j

-----------------------------------------------------------------------------
(* write().                                                                *)

\* Of a failed write something is left in the buffer, and polled for; of any
\* other nothing is.
Told(o, s) ==
  /\ o.failed => (Sendable(o.io, s) => s \in o.io.polls /\ o.io.failed)
  /\ ~o.failed => o.io.buffer[s] = <<>>

\* The kernel takes a part of the buffer.
LEMMA FlushMoves ==
  ASSUME NEW i, State(i), NEW s \in Sockets, NEW o \in Flush(i, s)
  PROVE  Moves(i, o.io, s, <<>>) /\ Told(o, s) /\ o.failed \in BOOLEAN
<1>1. CASE i.buffer[s] = <<>>
  <2>1. o = Outcome(i, FALSE)
    BY <1>1 DEF Flush
  <2>2. o.io = i /\ o.failed = FALSE
    BY <2>1 DEF Outcome
  <2> QED BY <1>1, <2>2, MovesNot DEF Told
<1>2. CASE i.buffer[s] # <<>>
  <2> DEFINE b == i.buffer[s]
  <2>0. b \in Bytes /\ i.wire[s] \in Bytes /\ i \in IO
    BY Fields
  <2>1. PICK n \in Accepted(i, s, b) :
          o = (LET after == Written(i, s, b, n)
               IN  IF n < Len(b) THEN Outcome(Erase(after, s, n), TRUE) ELSE Outcome(Clear(after, s), FALSE))
    BY <1>2 DEF Flush
  <2> DEFINE k == Written(i, s, b, n)
             p == SubSeq(b, 1, n)
  <2>2. /\ k \in IO /\ SameRest(i, k, s) /\ n \in 0 .. Len(b)
        /\ k.wire[s] = i.wire[s] \o p
        /\ k.buffer[s] = b /\ k.removed[s] = i.removed[s]
        /\ (Refuses(i, s) => k.wire[s] = i.wire[s])
        /\ (s \in i.polls => s \in k.polls) /\ (i.failed => k.failed)
        /\ (n < Len(b) /\ ~Refuses(i, s) => s \in k.polls /\ k.failed)
    BY ONLY <2>0, s \in Sockets, n \in Accepted(i, s, b), WrittenIs
  <2>3. o = IF n < Len(b) THEN Outcome(Erase(k, s, n), TRUE) ELSE Outcome(Clear(k, s), FALSE)
    BY <2>1
  <2>4. k.removed[s] * EraseShare <= TotalLength(k, s)
    BY <2>2 DEF State, TotalLength
  <2>5. p \in Bytes /\ Rest(b, n) \in Bytes /\ p \o Rest(b, n) = b /\ Len(b) \in Nat /\ Len(p) = n
        /\ Len(Rest(b, n)) = Len(b) - n
    BY <2>0, <2>2, Split, Cat
  <2>6. Len(i.wire[s]) <= Len(i.wire[s] \o p)
    <3> DEFINE w == i.wire[s]
    <3>1. w \in Bytes /\ p \in Bytes
      BY <2>0, <2>5
    <3> HIDE DEF w, p
    <3>2. Len(w \o p) = Len(w) + Len(p) /\ Len(w) \in Nat /\ Len(p) \in Nat
      BY ONLY <3>1, Cat
    <3> QED BY <3>2 DEF w
  <2>7. (i.wire[s] \o p) \o Rest(b, n) = (i.wire[s] \o b) \o <<>>
    <3>1. (i.wire[s] \o p) \o Rest(b, n) = i.wire[s] \o (p \o Rest(b, n))
      BY <2>0, <2>5, CatAssociates
    <3>2. i.wire[s] \o b \in Bytes
      BY <2>0, Cat
    <3>3. (i.wire[s] \o b) \o <<>> = i.wire[s] \o b
      BY <3>2, Cat
    <3> QED BY <3>1, <3>3, <2>5
  <2>8. n < Len(b) \/ (n = Len(b) /\ Rest(b, n) = <<>>)
    BY <2>2, <2>5, Cat
  <2> HIDE DEF p, k, b
  <2> DEFINE j == o.io
  <2>9. /\ j \in IO /\ SameRest(k, j, s) /\ j.wire = k.wire /\ j.polls = k.polls /\ j.failed = k.failed
        /\ j.buffer[s] = Rest(b, n) /\ j.removed[s] * EraseShare <= TotalLength(j, s)
        /\ o.failed = (n < Len(b))
    <3>1. CASE n < Len(b)
      <4>1. j = Erase(k, s, n) /\ o.failed = TRUE
        BY <2>3, <3>1 DEF Outcome
      <4>2. n \in 0 .. Len(k.buffer[s])
        BY <2>2
      <4>3. LET e == Erase(k, s, n)
            IN  /\ e \in IO /\ SameRest(k, e, s) /\ e.wire = k.wire /\ e.polls = k.polls /\ e.failed = k.failed
                /\ e.buffer[s] = Rest(k.buffer[s], n) /\ e.removed[s] * EraseShare <= TotalLength(e, s)
        BY ONLY <2>2, <2>4, <4>2, s \in Sockets, EraseIs
      <4> QED BY <4>1, <4>3, <2>2, <3>1
    <3>2. CASE ~(n < Len(b))
      <4>1. j = Clear(k, s) /\ o.failed = FALSE
        BY <2>3, <3>2 DEF Outcome
      <4>2. j = WithBuffer(k, s, <<>>, 0)
        BY <4>1 DEF Clear, WithBuffer
      <4>3. <<>> \in Bytes
        BY <2>0, Cat
      <4> HIDE DEF j
      <4>4. /\ j \in IO /\ SameRest(k, j, s) /\ j.wire = k.wire /\ j.polls = k.polls /\ j.failed = k.failed
            /\ j.buffer[s] = <<>> /\ j.removed[s] = 0
        BY ONLY <2>2, <4>2, <4>3, s \in Sockets, BufferIs
      <4>5. Rest(b, n) = <<>> /\ Len(<<>>) = 0
        BY <2>8, <3>2
      <4>6. j.removed[s] * EraseShare <= TotalLength(j, s)
        <5>1. j.removed[s] * EraseShare = 0
          BY <4>4, AsyncSocketAssumption
        <5>2. TotalLength(j, s) = 0
          BY <4>4, <4>5 DEF TotalLength
        <5> QED BY <5>1, <5>2
      <4>7. o.failed = (n < Len(b))
        <5>1. (n < Len(b)) = FALSE
          BY <3>2
        <5>2. o.failed = FALSE
          BY <4>1
        <5> QED BY ONLY <5>1, <5>2
      <4> QED BY <4>4, <4>5, <4>6, <4>7
    <3> QED BY <3>1, <3>2
  <2> HIDE DEF j
  <2>10. SameRest(i, j, s)
    BY <2>2, <2>9 DEF SameRest
  <2>11. State(j)
    BY <2>9, <2>10, StateIs
  <2>12. Sendable(i, s) => ~Refuses(i, s)
    BY DEF Sendable, Refuses
  <2>13. Sendable(j, s) <=> Sendable(i, s)
    BY <2>10 DEF Sendable, SameRest
  <2>14. Sendable(j, s) /\ n < Len(b) => s \in j.polls /\ j.failed
    BY <2>2, <2>9, <2>12, <2>13
  <2>15. Watched(j, s) /\ Marked(j, s)
    BY <2>8, <2>9, <2>14 DEF Watched, Marked
  <2>16. About(i, j, s)
    BY <2>2, <2>6, <2>9, <2>10, <2>15 DEF About, SameRest
  <2>17. j.wire[s] \o j.buffer[s] = (i.wire[s] \o i.buffer[s]) \o <<>>
    BY <2>2, <2>7, <2>9 DEF b
  <2>18. Moves(i, j, s, <<>>)
    BY <2>10, <2>11, <2>15, <2>16, <2>17 DEF Moves, SameRest
  <2>19. Told(o, s)
    BY <2>8, <2>9, <2>14 DEF Told, j
  <2> QED BY <2>9, <2>18, <2>19 DEF j
<1> QED BY <1>1, <1>2

\* The kernel takes a part of what is new.
LEMMA SyscallMoves ==
  ASSUME NEW i, State(i), NEW s \in Sockets, i.buffer[s] = <<>>, NEW b \in Bytes, NEW o \in Syscall(i, s, b)
  PROVE  Moves(i, o.io, s, b) /\ Told(o, s) /\ o.failed \in BOOLEAN
<1>0. i.wire[s] \in Bytes /\ i \in IO /\ <<>> \in Bytes
  BY Fields
<1>1. CASE b = <<>>
  <2>1. o = Outcome(i, FALSE)
    BY <1>1 DEF Syscall
  <2>2. o.io = i /\ o.failed = FALSE
    BY <2>1 DEF Outcome
  <2> QED BY <1>1, <2>2, MovesNot DEF Told
<1>2. CASE b # <<>>
  <2>1. PICK n \in Accepted(i, s, b) : o = Outcome(Buffered(Written(i, s, b, n), s, Rest(b, n)), n < Len(b))
    BY <1>2 DEF Syscall
  <2> DEFINE k == Written(i, s, b, n)
             p == SubSeq(b, 1, n)
             q == Rest(b, n)
             j == Buffered(k, s, q)
  <2>2. /\ k \in IO /\ SameRest(i, k, s) /\ n \in 0 .. Len(b)
        /\ k.wire[s] = i.wire[s] \o p
        /\ k.buffer[s] = i.buffer[s] /\ k.removed[s] = i.removed[s]
        /\ (Refuses(i, s) => k.wire[s] = i.wire[s])
        /\ (s \in i.polls => s \in k.polls) /\ (i.failed => k.failed)
        /\ (n < Len(b) /\ ~Refuses(i, s) => s \in k.polls /\ k.failed)
    BY ONLY <1>0, s \in Sockets, b \in Bytes, n \in Accepted(i, s, b), WrittenIs
  <2>3. o.io = j /\ o.failed = (n < Len(b))
    BY <2>1 DEF Outcome
  <2>5. p \in Bytes /\ q \in Bytes /\ p \o q = b /\ Len(b) \in Nat /\ Len(p) = n /\ Len(q) = Len(b) - n
    BY <2>2, Split, Cat
  <2>6. Len(i.wire[s]) <= Len(i.wire[s] \o p)
    BY <1>0, <2>2, <2>5, Cat
  <2>7. (i.wire[s] \o p) \o q = i.wire[s] \o b
    <3>1. (i.wire[s] \o p) \o q = i.wire[s] \o (p \o q)
      BY <1>0, <2>5, CatAssociates
    <3> QED BY <3>1, <2>5
  <2>8. n < Len(b) \/ (n = Len(b) /\ q = <<>>)
    BY <2>2, <2>5, Cat
  <2>b. <<>> \o q = q /\ i.wire[s] \o <<>> = i.wire[s]
    BY <1>0, <2>5, Cat
  <2> HIDE DEF p, q, k
  <2>9. /\ j \in IO /\ SameRest(k, j, s) /\ j.wire = k.wire /\ j.polls = k.polls /\ j.failed = k.failed
        /\ j.buffer[s] = k.buffer[s] \o q /\ j.removed[s] = k.removed[s]
    BY ONLY <2>2, <2>5, s \in Sockets, BufferedIs
  <2> HIDE DEF j
  <2>c. j.buffer[s] = q
    BY <2>2, <2>9, <2>b
  <2>10. SameRest(i, j, s)
    BY <2>2, <2>9 DEF SameRest
  <2>d. j.removed[s] * EraseShare <= TotalLength(j, s)
    <3>1. i.removed[s] * EraseShare <= 0 + i.removed[s]
      BY DEF State, TotalLength
    <3>2. j.removed[s] = i.removed[s] /\ i.removed[s] \in Nat /\ i.removed[s] * EraseShare \in Nat
      BY <2>2, <2>9, Fields, AsyncSocketAssumption
    <3>3. Len(q) \in Nat
      BY <2>5, Cat
    <3> QED BY <3>1, <3>2, <3>3, <2>c DEF TotalLength
  <2>11. State(j)
    BY <2>9, <2>10, <2>d, StateIs
  <2>12. Sendable(i, s) => ~Refuses(i, s)
    BY DEF Sendable, Refuses
  <2>13. Sendable(j, s) <=> Sendable(i, s)
    BY <2>10 DEF Sendable, SameRest
  <2>14. Sendable(j, s) /\ n < Len(b) => s \in j.polls /\ j.failed
    BY <2>2, <2>9, <2>12, <2>13
  <2>15. Watched(j, s) /\ Marked(j, s)
    BY <2>8, <2>c, <2>14 DEF Watched, Marked
  <2>16. About(i, j, s)
    BY <2>2, <2>6, <2>9, <2>10, <2>15 DEF About, SameRest
  <2>17. j.wire[s] \o j.buffer[s] = (i.wire[s] \o i.buffer[s]) \o b
    BY <2>2, <2>7, <2>9, <2>c, <2>b
  <2>18. Moves(i, j, s, b)
    BY <2>10, <2>11, <2>15, <2>16, <2>17 DEF Moves, SameRest
  <2>19. Told(o, s)
    BY <2>3, <2>8, <2>c, <2>14 DEF Told
  <2> QED BY <2>3, <2>18, <2>19
<1> QED BY <1>1, <1>2

\* write(), of an open socket: the buffer goes first.
LEMMA WriteMoves ==
  ASSUME NEW i, State(i), NEW s \in Sockets, s \in i.open, NEW b \in Bytes, NEW o \in Write(i, s, b)
  PROVE  Moves(i, o.io, s, b) /\ Told(o, s) /\ o.failed \in BOOLEAN
<1>1. PICK f \in Flush(i, s) :
        o \in IF f.failed THEN {Outcome(Buffered(f.io, s, b), TRUE)} ELSE Syscall(f.io, s, b)
  BY DEF Write
<1>2. Moves(i, f.io, s, <<>>) /\ Told(f, s) /\ f.failed \in BOOLEAN
  BY FlushMoves
<1>3. State(f.io)
  BY <1>2 DEF Moves
<1>4. <<>> \in Bytes /\ <<>> \o b = b
  BY Cat
<1>5. Moves(f.io, o.io, s, b) /\ Told(o, s) /\ o.failed \in BOOLEAN
  <2>1. CASE f.failed
    <3>1. o = Outcome(Buffered(f.io, s, b), TRUE)
      BY <1>1, <2>1
    <3>2. o.io = Buffered(f.io, s, b) /\ o.failed = TRUE
      BY <3>1 DEF Outcome
    <3>3. Sendable(f.io, s) => s \in f.io.polls /\ f.io.failed
      BY <1>2, <2>1 DEF Told
    <3>4. Moves(f.io, o.io, s, b)
      BY <1>3, <3>2, <3>3, BufferedMoves
    <3>5. o.io.polls = f.io.polls /\ o.io.failed = f.io.failed /\ o.io.open = f.io.open /\ o.io.shut = f.io.shut
      <4>1. f.io \in IO
        BY <1>3 DEF State
      <4>2. LET j == Buffered(f.io, s, b) IN j.polls = f.io.polls /\ j.failed = f.io.failed /\ SameRest(f.io, j, s)
        BY <4>1, BufferedIs
      <4> QED BY <3>2, <4>2 DEF SameRest
    <3>6. Told(o, s)
      BY <3>2, <3>3, <3>5 DEF Told, Sendable
    <3> QED BY <3>2, <3>4, <3>6
  <2>2. CASE ~f.failed
    <3>1. o \in Syscall(f.io, s, b) /\ f.io.buffer[s] = <<>>
      BY <1>1, <1>2, <2>2 DEF Told
    <3> QED BY <1>3, <3>1, SyscallMoves
  <2> QED BY <1>2, <2>1, <2>2
<1>6. Moves(i, o.io, s, <<>> \o b)
  BY <1>2, <1>4, <1>5, MovesAfter
<1> QED BY <1>4, <1>5, <1>6

-----------------------------------------------------------------------------
(* The cork buffer.                                                        *)

\* The state with another holder of, or with other bytes in, the cork buffer.
WithCork(i, c, b) == [i EXCEPT !.corked = c, !.cork = b]

\* It differs from the other one only there.
LEMMA CorkIs ==
  ASSUME NEW i, State(i), NEW c \in Sockets \cup {NoSocket}, NEW b \in Bytes
  PROVE  LET j == WithCork(i, c, b)
         IN  /\ State(j) /\ j.open = i.open /\ j.shut = i.shut /\ j.wire = i.wire /\ j.buffer = i.buffer
             /\ j.removed = i.removed /\ j.polls = i.polls /\ j.failed = i.failed /\ j.corked = c /\ j.cork = b
<1> DEFINE j == WithCork(i, c, b)
<1>1. i \in IO
  BY Fields
<1>2. /\ j \in IO /\ j.open = i.open /\ j.shut = i.shut /\ j.wire = i.wire /\ j.buffer = i.buffer
      /\ j.removed = i.removed /\ j.polls = i.polls /\ j.failed = i.failed /\ j.corked = c /\ j.cork = b
  BY <1>1 DEF WithCork, IO, Bytes
<1> HIDE DEF j
<1>3. State(j)
  BY <1>2 DEF State, TotalLength
<1> QED BY <1>2, <1>3 DEF j

\* A step that leaves the sockets alone and does not give s other bytes.
LEMMA SendsNot ==
  ASSUME NEW i, State(i), NEW j, State(j), Tidy(j), NEW s \in Sockets,
         j.open = i.open, j.shut = i.shut, j.wire = i.wire, j.buffer = i.buffer, j.polls = i.polls,
         j.failed = i.failed, j.corked \in {i.corked, s, NoSocket},
         \A r \in Sockets : InCork(j, r) = InCork(i, r)
  PROVE  Sends(i, j, s, <<>>)
<1>1. i.wire[s] \in Bytes /\ Stream(i, s) \in Bytes
  BY Fields
<1>2. Len(i.wire[s]) \in Nat /\ Stream(i, s) \o <<>> = Stream(i, s)
  BY <1>1, Cat
<1>3. Stream(j, s) = Stream(i, s)
  BY DEF Stream, Waiting
<1>4. About(i, j, s)
  BY <1>2 DEF About, Watched, Sendable
<1> QED BY <1>2, <1>3, <1>4 DEF Sends

\* One step after another sends what they send.
LEMMA SendsAfter ==
  ASSUME NEW i, NEW j, NEW k, State(i), NEW s \in Sockets, NEW b \in Bytes, NEW c \in Bytes,
         Sends(i, j, s, b), Sends(j, k, s, c)
  PROVE  Sends(i, k, s, b \o c)
<1>1. State(j) /\ State(k)
  BY DEF Sends
<1>2. About(i, k, s)
  BY <1>1, AboutAfter DEF Sends
<1>3. s \in i.open => s \in j.open
  BY DEF Sends, About
<1>4. ASSUME s \in i.open PROVE Stream(k, s) = Stream(i, s) \o (b \o c)
  <2>1. Stream(j, s) = Stream(i, s) \o b /\ Stream(k, s) = Stream(j, s) \o c
    BY <1>3, <1>4 DEF Sends
  <2>2. Stream(i, s) \in Bytes
    BY Fields
  <2>3. (Stream(i, s) \o b) \o c = Stream(i, s) \o (b \o c)
    BY <2>2, CatAssociates
  <2> QED BY <2>1, <2>3
<1> QED BY <1>1, <1>2, <1>4 DEF Sends

\* Corking takes the buffer from nobody who has bytes in it.
LEMMA CorkSends ==
  ASSUME NEW i, State(i), Tidy(i), NEW s \in Sockets, ~CorkTerminates(i, s)
  PROVE  LET j == Cork(i, s)
         IN  /\ Sends(i, j, s, <<>>) /\ j.corked = s /\ j.cork = i.cork
             /\ j.failed = i.failed /\ j.buffer = i.buffer /\ j.polls = i.polls /\ j.wire = i.wire
<1> DEFINE j == Cork(i, s)
<1>1. i.cork \in Bytes /\ i \in IO
  BY Fields
<1>2. j = WithCork(i, s, i.cork)
  BY <1>1 DEF Cork, WithCork, IO
<1> HIDE DEF j
<1>3. /\ State(j) /\ j.open = i.open /\ j.shut = i.shut /\ j.wire = i.wire /\ j.buffer = i.buffer
      /\ j.removed = i.removed /\ j.polls = i.polls /\ j.failed = i.failed /\ j.corked = s /\ j.cork = i.cork
  BY <1>1, <1>2, CorkIs
<1>4. Tidy(j)
  BY <1>3, AsyncSocketAssumption DEF Tidy
<1>5. \A r \in Sockets : InCork(j, r) = InCork(i, r)
  BY <1>3, AsyncSocketAssumption DEF InCork, CorkTerminates, Tidy
<1>6. Sends(i, j, s, <<>>)
  BY <1>3, <1>4, <1>5, SendsNot
<1> QED BY <1>3, <1>6 DEF j

\* What s writes while it has no bytes in the cork buffer, it sends.
LEMMA MovesSends ==
  ASSUME NEW i, State(i), Tidy(i), NEW j, NEW s \in Sockets, NEW b \in Bytes, InCork(i, s) = <<>>,
         Moves(i, j, s, b)
  PROVE  Sends(i, j, s, b)
<1>1. State(j)
  BY DEF Moves
<1>2. \A r \in Sockets : InCork(j, r) = InCork(i, r)
  BY DEF Moves, InCork
<1>3. i.buffer[s] \in Bytes /\ j.buffer[s] \in Bytes
  BY <1>1, Fields
<1>4. i.buffer[s] \o <<>> = i.buffer[s] /\ j.buffer[s] \o <<>> = j.buffer[s]
  BY <1>3, Cat
<1>5. Waiting(i, s) = i.buffer[s] /\ Waiting(j, s) = j.buffer[s]
  BY <1>2, <1>4 DEF Waiting
<1>6. Stream(j, s) = Stream(i, s) \o b
  BY <1>5 DEF Stream, Moves
<1>7. Tidy(j)
  BY DEF Tidy, Moves
<1> QED BY <1>1, <1>2, <1>6, <1>7 DEF Sends, Moves

\* uncork() gives the cork buffer back and writes what was in it.
LEMMA UncorkSends ==
  ASSUME NEW i, State(i), Tidy(i), NEW s \in Sockets, NEW o \in Uncork(i, s, <<>>)
  PROVE  /\ Sends(i, o.io, s, <<>>) /\ o.io.corked # s /\ o.io.corked \in {i.corked, NoSocket}
         /\ (Marked(i, s) => Marked(o.io, s)) /\ o.failed \in BOOLEAN
         /\ (i.corked = s /\ s \in i.open /\ ~o.failed => o.io.buffer[s] = <<>>)
         /\ (i.corked # s => o.io = i)
<1>1. CASE i.corked # s
  <2>1. o = Outcome(i, FALSE)
    BY <1>1 DEF Uncork
  <2>2. o.io = i /\ o.failed = FALSE
    BY <2>1 DEF Outcome
  <2>3. Sends(i, i, s, <<>>)
    BY SendsNot
  <2> QED BY <1>1, <2>2, <2>3
<1>2. CASE i.corked = s
  <2> DEFINE e == WithCork(i, NoSocket, i.cork)
             c == i.cork
  <2>1. c \in Bytes /\ <<>> \in Bytes /\ i \in IO /\ NoSocket \notin Sockets
    BY Fields, Cat, AsyncSocketAssumption
  <2>2. [i EXCEPT !.corked = NoSocket] = e
    BY <2>1 DEF WithCork, IO
  <2> HIDE DEF e, c
  <2>3. /\ State(e) /\ e.open = i.open /\ e.shut = i.shut /\ e.wire = i.wire /\ e.buffer = i.buffer
        /\ e.removed = i.removed /\ e.polls = i.polls /\ e.failed = i.failed /\ e.corked = NoSocket /\ e.cork = c
    BY ONLY <2>1, State(i), CorkIs DEF e, c
  <2> DEFINE flushed == IF c = <<>> THEN {Outcome(e, FALSE)} ELSE Write(e, s, c)
  <2>4. PICK f \in flushed :
          o \in LET w == [f.io EXCEPT !.cork = <<>>]
                IN  IF f.failed THEN {Outcome(Buffered(w, s, <<>>), TRUE)} ELSE Write(w, s, <<>>)
    BY <1>2, <2>2 DEF Uncork, c
  <2> DEFINE k == f.io
             w == WithCork(k, NoSocket, <<>>)
  <2>5. /\ State(k) /\ f.failed \in BOOLEAN /\ k.corked = NoSocket
        /\ s \in i.open => Moves(e, k, s, c)
        /\ s \notin i.open => k = e /\ ~f.failed
        /\ s \in i.open /\ f.failed => (Sendable(k, s) => s \in k.polls /\ k.failed)
    <3>1. CASE c = <<>>
      <4>1. f = Outcome(e, FALSE)
        BY <3>1
      <4>2. k = e /\ f.failed = FALSE
        BY <4>1 DEF Outcome
      <4> QED BY <2>3, <3>1, <4>2, MovesNot
    <3>2. CASE c # <<>> /\ s \notin i.open
      <4>1. f = Outcome(e, FALSE)
        BY <2>3, <3>2 DEF Write
      <4>2. k = e /\ f.failed = FALSE
        BY <4>1 DEF Outcome
      <4> QED BY <2>3, <3>2, <4>2
    <3>3. CASE c # <<>> /\ s \in i.open
      <4>1. f \in Write(e, s, c) /\ s \in e.open
        BY <2>3, <3>3
      <4>2. Moves(e, f.io, s, c) /\ Told(f, s) /\ f.failed \in BOOLEAN
        BY ONLY <2>1, <2>3, <4>1, s \in Sockets, WriteMoves
      <4> QED BY <2>3, <3>3, <4>2 DEF Moves, Told
    <3> QED BY <3>1, <3>2, <3>3
  <2>6. [k EXCEPT !.cork = <<>>] = w
    BY <2>5 DEF WithCork, State, IO
  <2>7. o \in IF f.failed THEN {Outcome(Buffered(w, s, <<>>), TRUE)} ELSE Write(w, s, <<>>)
    BY <2>4, <2>6
  <2> HIDE DEF k, w
  <2>8. /\ State(w) /\ w.open = k.open /\ w.shut = k.shut /\ w.wire = k.wire /\ w.buffer = k.buffer
        /\ w.removed = k.removed /\ w.polls = k.polls /\ w.failed = k.failed /\ w.corked = NoSocket /\ w.cork = <<>>
    BY ONLY <2>1, <2>5, CorkIs DEF w
    \* All that is corked is in the buffer or written.
  <2>9. Tidy(w) /\ Sends(i, w, s, <<>>) /\ (Marked(i, s) => Marked(w, s))
    <3>1. Tidy(w)
      BY <2>8 DEF Tidy
    <3>2. \A r \in Sockets \ {s} : InCork(w, r) = InCork(i, r)
      BY <1>2, <2>1, <2>8 DEF InCork
    <3>3. i.wire[s] \in Bytes /\ i.buffer[s] \in Bytes /\ Stream(i, s) \in Bytes
      BY Fields
    <3>4. i.wire[s] \o (i.buffer[s] \o c) = (i.wire[s] \o i.buffer[s]) \o c
      BY <2>1, <3>3, CatAssociates
    <3>5. Len(i.wire[s]) \in Nat /\ Stream(i, s) \o <<>> = Stream(i, s)
      BY <3>3, Cat
    <3>6. CASE s \notin i.open
      <4>1. w.open = i.open /\ w.shut = i.shut /\ w.wire = i.wire /\ w.buffer = i.buffer /\ w.polls = i.polls
            /\ w.failed = i.failed
        BY <2>3, <2>5, <2>8, <3>6 DEF k
      <4>2. About(i, w, s)
        BY <3>5, <3>6, <4>1 DEF About, Watched, Sendable
      <4>3. Marked(w, s)
        BY <3>6, <4>1 DEF Marked, Sendable
      <4> QED BY <2>8, <3>1, <3>2, <3>6, <4>2, <4>3 DEF Sends
    <3>7. CASE s \in i.open
      <4>1. Moves(e, k, s, c)
        BY <2>5, <3>7
      <4>2. About(i, w, s)
        BY <2>3, <2>8, <4>1 DEF Moves, About, Watched, Sendable, Refuses
      <4>3. w.wire[s] \o w.buffer[s] = (i.wire[s] \o i.buffer[s]) \o c
        BY <2>3, <2>8, <4>1 DEF Moves
      <4>4. InCork(w, s) = <<>> /\ InCork(i, s) = c
        BY <1>2, <2>1, <2>8 DEF InCork, c
      <4>5. w.buffer[s] \in Bytes
        BY <2>8, Fields
      <4>6. w.buffer[s] \o <<>> = w.buffer[s]
        BY <4>5, Cat
      <4>7. Stream(w, s) = Stream(i, s)
        BY <3>4, <4>3, <4>4, <4>6 DEF Stream, Waiting
      <4>8. Marked(i, s) => Marked(w, s)
        BY <2>3, <2>8, <4>1 DEF Moves, Marked, Sendable
      <4> QED BY <2>8, <3>1, <3>2, <3>5, <4>2, <4>7, <4>8 DEF Sends
    <3> QED BY <3>6, <3>7
  <2>10. CASE s \notin i.open
    <3>1. ~f.failed /\ s \notin w.open
      BY <2>3, <2>5, <2>8, <2>10 DEF k
    <3>2. o = Outcome(w, FALSE)
      BY <2>7, <3>1 DEF Write
    <3>3. o.io = w /\ o.failed = FALSE
      BY <3>2 DEF Outcome
    <3> QED BY <1>2, <2>1, <2>8, <2>9, <2>10, <3>3
  <2>11. CASE s \in i.open
    <3>1. s \in w.open /\ s \in k.open
      BY <2>9, <2>8, <2>11 DEF Sends, About
    <3>2. Moves(w, o.io, s, <<>>) /\ o.failed \in BOOLEAN /\ (~o.failed => o.io.buffer[s] = <<>>)
      <4>1. CASE f.failed
        <5>1. o = Outcome(Buffered(w, s, <<>>), TRUE)
          BY <2>7, <4>1
        <5>2. o.io = Buffered(w, s, <<>>) /\ o.failed = TRUE
          BY <5>1 DEF Outcome
        <5>3. Sendable(w, s) => s \in w.polls /\ w.failed
          BY <2>5, <2>8, <2>11, <4>1 DEF Sendable, k
        <5>4. Moves(w, Buffered(w, s, <<>>), s, <<>>)
          BY ONLY <2>1, <2>8, <5>3, s \in Sockets, BufferedMoves
        <5> QED BY <5>2, <5>4
      <4>2. CASE ~f.failed
        <5>1. o \in Write(w, s, <<>>)
          BY <2>7, <4>2
        <5>2. Moves(w, o.io, s, <<>>) /\ Told(o, s) /\ o.failed \in BOOLEAN
          BY ONLY <2>1, <2>8, <3>1, <5>1, s \in Sockets, WriteMoves
        <5> QED BY <5>2 DEF Told
      <4> QED BY <4>1, <4>2
    <3>3. InCork(w, s) = <<>>
      BY <2>8 DEF InCork
    <3>4. Sends(w, o.io, s, <<>>)
      BY <2>1, <2>8, <2>9, <3>2, <3>3, MovesSends
    <3>5. <<>> \o <<>> = <<>>
      BY <2>1, Cat
    <3>6. Sends(i, o.io, s, <<>> \o <<>>)
      BY <2>1, <2>9, <3>4, SendsAfter
    <3>7. o.io.corked = NoSocket
      BY <2>8, <3>2 DEF Moves
    <3>8. Marked(i, s) => Marked(o.io, s)
      BY <2>9, <3>2 DEF Moves
    <3> QED BY <1>2, <2>1, <3>2, <3>5, <3>6, <3>7, <3>8
  <2> QED BY <2>10, <2>11
<1> QED BY <1>1, <1>2

\* getSendBuffer() finds room for a frame that s sends; what the caller has to
\* do then is to uncork, to drain, or nothing.
LEMMA PlaceSends ==
  ASSUME NEW i, State(i), Tidy(i), NEW s \in Sockets, NEW b \in Bytes
  PROVE  LET p == Place(i, s, b)
             j == p.io
         IN  /\ p.needs \in {"nothing", "uncork", "drain"} /\ State(j)
             /\ j.open = i.open /\ j.shut = i.shut /\ j.wire = i.wire /\ j.polls = i.polls /\ j.failed = i.failed
             /\ \A r \in Sockets \ {s} : InCork(j, r) = InCork(i, r) /\ j.buffer[r] = i.buffer[r]
             /\ Stream(j, s) = Stream(i, s) \o b
             /\ p.needs = "nothing" => i.corked = s /\ j.corked = s /\ j.buffer = i.buffer
             /\ p.needs = "uncork" => i.corked = NoSocket /\ j.corked = s /\ j.buffer = i.buffer /\ j.buffer[s] = <<>>
             /\ p.needs = "drain" => j.corked = i.corked /\ InCork(j, s) = <<>> /\ Tidy(j)
<1> DEFINE p == Place(i, s, b)
           j == p.io
           own == InCork(i, s)
<1>0. /\ i \in IO /\ i.cork \in Bytes /\ i.wire[s] \in Bytes /\ i.buffer[s] \in Bytes /\ own \in Bytes
      /\ i.corked \in Sockets \cup {NoSocket} /\ NoSocket \notin Sockets /\ <<>> \in Bytes
      /\ Waiting(i, s) \in Bytes
  BY Fields, Cat, AsyncSocketAssumption
<1>a. /\ (i.buffer[s] \o own) \o b = i.buffer[s] \o (own \o b)
      /\ (i.wire[s] \o Waiting(i, s)) \o b = i.wire[s] \o (Waiting(i, s) \o b)
  <2> DEFINE u == i.buffer[s]
             v == own
             w == i.wire[s]
             x == Waiting(i, s)
  <2>1. u \in Bytes /\ v \in Bytes /\ w \in Bytes /\ x \in Bytes
    BY <1>0
  <2> HIDE DEF u, v, w, x
  <2>2. (u \o v) \o b = u \o (v \o b)
    BY ONLY <2>1, b \in Bytes, CatAssociates
  <2>3. (w \o x) \o b = w \o (x \o b)
    BY ONLY <2>1, b \in Bytes, CatAssociates
  <2> QED BY <2>2, <2>3 DEF u, v, w, x
<1>1. CASE FitsCork(i, s, b)
  <2> DEFINE c == i.cork \o b
             w == WithCork(i, s, c)
  <2>1. c \in Bytes
    BY <1>0, Cat
  <2>2. [i EXCEPT !.corked = s, !.cork = @ \o b] = w
    BY <1>0 DEF WithCork, IO
  <2> HIDE DEF w, c
  <2>3. p = [io |-> w, needs |-> IF i.corked = s THEN "nothing" ELSE "uncork"]
    BY <1>1, <2>2 DEF Place
  <2>4. j = w /\ p.needs = IF i.corked = s THEN "nothing" ELSE "uncork"
    BY <2>3
  <2>5. /\ State(w) /\ w.open = i.open /\ w.shut = i.shut /\ w.wire = i.wire /\ w.buffer = i.buffer
        /\ w.removed = i.removed /\ w.polls = i.polls /\ w.failed = i.failed /\ w.corked = s /\ w.cork = c
    BY ONLY <2>1, State(i), s \in Sockets, CorkIs DEF w
  <2>6. i.buffer[s] = <<>> /\ i.corked \in {s, NoSocket}
    BY <1>1 DEF FitsCork
  <2>7. own = i.cork
    BY <1>0, <2>6 DEF InCork, Tidy
  <2>8. \A r \in Sockets \ {s} : InCork(w, r) = InCork(i, r)
    BY <1>0, <2>5, <2>6 DEF InCork
  <2>9. Stream(w, s) = Stream(i, s) \o b
    <3>1. InCork(w, s) = own \o b
      BY <2>5, <2>7 DEF InCork, c
    <3>2. i.buffer[s] \o (own \o b) = (i.buffer[s] \o own) \o b
      BY <1>a
    <3>3. i.wire[s] \o (Waiting(i, s) \o b) = (i.wire[s] \o Waiting(i, s)) \o b
      BY <1>a
    <3>4. Waiting(w, s) = Waiting(i, s) \o b
      BY <2>5, <3>1, <3>2 DEF Waiting
    <3> QED BY <2>5, <3>3, <3>4 DEF Stream
  <2> HIDE DEF p
  <2> QED BY <2>4, <2>5, <2>6, <2>8, <2>9 DEF p
<1>2. CASE ~FitsCork(i, s, b)
  <2> DEFINE c == IF i.corked = s THEN <<>> ELSE i.cork
             w == WithCork(i, i.corked, c)
             n == own \o b
             k == Buffered(w, s, n)
  <2>1. c \in Bytes /\ n \in Bytes
    BY <1>0, Cat
  <2>2. p.io = [i EXCEPT !.cork = c, !.buffer[s] = @ \o own \o b] /\ p.needs = "drain"
    BY <1>2 DEF Place, InCork
  <2>3. (i.buffer[s] \o own) \o b = i.buffer[s] \o n
    BY <1>a
  <2>4. p.io = k
    <3>1. [i EXCEPT !.cork = c, !.buffer[s] = @ \o own \o b] = [i EXCEPT !.cork = c, !.buffer[s] = @ \o n]
      BY <2>3, <1>0 DEF IO
    <3> HIDE DEF c, n
    <3>2. [i EXCEPT !.cork = c, !.buffer[s] = @ \o n] = k
      BY <1>0 DEF Buffered, WithCork, IO
    <3> QED BY <2>2, <3>1, <3>2
  <2>a. j = k
    BY <2>4
  <2>b. p.needs = "drain"
    BY <2>2
  <2> HIDE DEF w, c, n, k, p, j
  <2>5. /\ State(w) /\ w.open = i.open /\ w.shut = i.shut /\ w.wire = i.wire /\ w.buffer = i.buffer
        /\ w.removed = i.removed /\ w.polls = i.polls /\ w.failed = i.failed /\ w.corked = i.corked /\ w.cork = c
    BY ONLY <1>0, <2>1, State(i), CorkIs DEF w
  <2>6. w \in IO
    BY <2>5 DEF State
  <2>7. /\ k \in IO /\ SameRest(w, k, s) /\ k.wire = w.wire /\ k.polls = w.polls /\ k.failed = w.failed
        /\ k.buffer[s] = w.buffer[s] \o n /\ k.removed[s] = w.removed[s]
    BY ONLY <2>1, <2>6, s \in Sockets, BufferedIs DEF k
  <2>8. State(k)
    <3>1. Len(w.buffer[s] \o n) = Len(w.buffer[s]) + Len(n) /\ Len(n) \in Nat /\ Len(w.buffer[s]) \in Nat
      BY <1>0, <2>1, <2>5, Cat
    <3>2. w.removed[s] \in Nat /\ w.removed[s] * EraseShare \in Nat
      BY <2>5, Fields, AsyncSocketAssumption
    <3>3. w.removed[s] * EraseShare <= TotalLength(w, s)
      BY <2>5 DEF State
    <3>4. k.removed[s] * EraseShare <= TotalLength(k, s)
      BY <2>7, <3>1, <3>2, <3>3 DEF TotalLength
    <3> QED BY <2>5, <2>7, <3>4, StateIs
  <2>9. k.corked = i.corked /\ k.cork = c /\ k.open = i.open /\ k.shut = i.shut
        /\ \A r \in Sockets \ {s} : k.buffer[r] = i.buffer[r]
    BY <2>5, <2>7 DEF SameRest
  <2>10. InCork(k, s) = <<>> /\ \A r \in Sockets \ {s} : InCork(k, r) = InCork(i, r)
    BY <2>9 DEF InCork, c
  <2>11. Tidy(k)
    BY <1>0, <2>9 DEF Tidy, c
  <2>12. Stream(k, s) = Stream(i, s) \o b
    <3>1. k.buffer[s] = i.buffer[s] \o n
      BY <2>5, <2>7
    <3>2. k.buffer[s] \in Bytes
      BY <2>8, Fields
    <3>3. k.buffer[s] \o <<>> = k.buffer[s]
      BY <3>2, Cat
    <3>4. Waiting(k, s) = i.buffer[s] \o n
      BY <2>10, <3>1, <3>3 DEF Waiting
    <3>5. Waiting(k, s) = Waiting(i, s) \o b
      BY <2>3, <3>4 DEF Waiting
    <3>6. i.wire[s] \o (Waiting(i, s) \o b) = (i.wire[s] \o Waiting(i, s)) \o b
      BY <1>a
    <3>7. k.wire[s] = i.wire[s]
      BY <2>5, <2>7
    <3> QED BY <3>5, <3>6, <3>7 DEF Stream
  <2>13. k.wire = i.wire /\ k.polls = i.polls /\ k.failed = i.failed
    BY <2>5, <2>7
  <2> QED BY <2>a, <2>b, <2>8, <2>9, <2>10, <2>11, <2>12, <2>13 DEF p, j
<1> QED BY <1>1, <1>2

=============================================================================
