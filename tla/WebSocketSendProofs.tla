------------------------ MODULE WebSocketSendProofs ------------------------
(***************************************************************************)
(* Theorems about WebSocketSend, for any number of sockets and nested      *)
(* handlers, and any sizes.  What some calls in some handlers break is     *)
(* proved of the applications that do not make them there.                 *)
(***************************************************************************)
EXTENDS WebSocketSend, AsyncSocketProofs

\* Dropped handlers start no drain of another socket; they end nobody; drain
\* handlers send no long message.
NoNestedDrain == MaxBackpressure = 0 \/ "drain" \notin DroppedCalls
NoEndInDrop   == MaxBackpressure = 0 \/ "end" \notin DroppedCalls
NoLongInDrain == "sendLong" \notin DrainCalls

-----------------------------------------------------------------------------
(* The inductive invariant.                                                *)

\* The first n bytes sent on s.
Canon(s, n) == [k \in 1 .. n |-> <<s, k>>]

\* What holds of the state i of the sockets if those of e are ending and c counts
\* what was sent.
Good(i, e, c) ==
  /\ State(i) /\ Tidy(i)
  /\ NoNestedDrain => \A s \in i.open : Stream(i, s) = Canon(s, c[s])
  /\ NoLongInDrain => \A s \in Sockets : Watched(i, s)
  /\ MaxBackpressure = 0 => /\ i.shut \subseteq e
                            /\ \A s \in i.shut \cap i.open : Waiting(i, s) = <<>>

\* f may be right above g on the stack.
Over(f, g) ==
  /\ f.kind \notin {"consume", "writable"}
  /\ f.kind = "dropped" <=> g.kind = "batch"
  /\ g.kind = "batch" => g.left = 0
  /\ g.kind \in {"send", "end"} => f.kind = "batch"

Nested(st) ==
  /\ \A n \in 1 .. Len(st) - 1 : Over(st[n], st[n + 1])
  /\ st # <<>> => st[Len(st)].kind # "dropped"

OneBatch(st) == \A n, m \in DOMAIN st : st[n].kind = "batch" /\ st[m].kind = "batch" => n = m

Frames(st) == {st[n] : n \in DOMAIN st}

Has(F, kind, s) == \E f \in F : f.kind = kind /\ f.sub = s

\* A frame f of F.
Fits(f, F, i, e) ==
  /\ f.kind = "dropped" => MaxBackpressure # 0
  /\ f.kind = "send" => /\ f.sub \in Subscribed
                        /\ NoEndInDrop => f.sub \notin e \/ f.sub \notin i.open
  /\ f.kind = "end" => /\ f.sub \in e
                       /\ MaxBackpressure = 0 => f.sub \notin i.shut
  /\ f.kind = "batch" /\ f.left > 0 => f.sub \notin e \/ Has(F, "end", f.sub)
  /\ f.kind = "writable" /\ NoLongInDrain => Marked(i, f.sub)

\* Whoever has the cork buffer gives it back when one of its frames returns.
Lent(F, i, u) ==
  i.corked # NoSocket =>
    \E f \in F : /\ f.sub = i.corked
                 /\ f.kind \in {"consume", "cork"} \/ (f.kind = "batch" /\ u)

\* What holds of the stack st.
Framed(st, i, e) == Nested(st) /\ \A f \in Frames(st) : Fits(f, Frames(st), i, e)

Stacked(st, i, e, u) ==
  /\ Framed(st, i, e)
  /\ NoNestedDrain => OneBatch(st) /\ Lent(Frames(st), i, u)

Typed ==
  /\ ending \in SUBSET Sockets /\ timedOut \in SUBSET Sockets /\ needsUncork \in BOOLEAN
  /\ sent \in [Sockets -> Nat] /\ stack \in Seq(Frame) /\ fault \in Faults

IInv ==
  /\ Typed /\ Good(io, ending, sent) /\ Stacked(stack, io, ending, needsUncork)
  /\ NoNestedDrain => NoForeignCork

-----------------------------------------------------------------------------
(* Bytes.                                                                  *)

\* What was sent, and m more bytes of s.
New(s, n, m) == [k \in 1 .. m |-> <<s, n + k>>]

\* The bytes of a send are as many as it has and follow those before it.
LEMMA NewIs ==
  ASSUME NEW s \in Sockets, NEW n \in Nat, NEW m \in Nat
  PROVE  /\ New(s, n, m) \in Bytes /\ Len(New(s, n, m)) = m /\ (m = 0 => New(s, n, m) = <<>>)
         /\ Canon(s, n) \in Bytes /\ Canon(s, n) \o New(s, n, m) = Canon(s, n + m)
<1> DEFINE b == New(s, n, m)
           c == Canon(s, n)
           d == Canon(s, n + m)
<1>1. b \in Bytes /\ Len(b) = m /\ \A k \in 1 .. m : b[k] = <<s, n + k>>
  <2>1. b \in [1 .. m -> Byte] /\ \A k \in 1 .. m : b[k] = <<s, n + k>>
    BY DEF New, Byte
  <2> QED BY <2>1 DEF Bytes
<1>2. c \in Bytes /\ Len(c) = n /\ \A k \in 1 .. n : c[k] = <<s, k>>
  <2>1. c \in [1 .. n -> Byte] /\ \A k \in 1 .. n : c[k] = <<s, k>>
    BY DEF Canon, Byte
  <2> QED BY <2>1 DEF Bytes
<1>3. d \in Bytes /\ Len(d) = n + m /\ \A k \in 1 .. n + m : d[k] = <<s, k>>
  <2>1. d \in [1 .. n + m -> Byte] /\ \A k \in 1 .. n + m : d[k] = <<s, k>>
    BY DEF Canon, Byte
  <2> QED BY <2>1 DEF Bytes
<1> HIDE DEF b, c, d
<1>4. c \o b \in Bytes /\ Len(c \o b) = n + m
      /\ \A k \in 1 .. n + m : (c \o b)[k] = IF k <= n THEN c[k] ELSE b[k - n]
  BY <1>1, <1>2, ConcatProperties DEF Bytes
<1>5. ASSUME NEW k \in 1 .. n + m PROVE (c \o b)[k] = d[k]
  <2>1. (c \o b)[k] = (IF k <= n THEN c[k] ELSE b[k - n]) /\ d[k] = <<s, k>>
    BY ONLY <1>3, <1>4, k \in 1 .. n + m
  <2>2. CASE k <= n
    <3>1. k \in 1 .. n
      BY <2>2
    <3>2. c[k] = <<s, k>>
      BY ONLY <1>2, <3>1
    <3> QED BY <2>1, <2>2, <3>2
  <2>3. CASE ~(k <= n)
    <3>1. k - n \in 1 .. m /\ n + (k - n) = k
      BY <2>3
    <3>2. b[k - n] = <<s, n + (k - n)>>
      BY ONLY <1>1, <3>1
    <3> QED BY <2>1, <2>3, <3>1, <3>2
  <2> QED BY <2>2, <2>3
<1>6. c \o b = d
  BY <1>3, <1>4, <1>5, SeqEqual DEF Bytes
<1>7. m = 0 => b = <<>>
  BY <1>1, EmptySeq DEF Bytes
<1> QED BY <1>1, <1>2, <1>6, <1>7 DEF b, c, d

\* The first bytes of what was sent on s are the first of what will be.
LEMMA CanonPrefix ==
  ASSUME NEW s \in Sockets, NEW n \in Nat, NEW m \in Nat, n <= m
  PROVE  Len(Canon(s, n)) = n /\ SubSeq(Canon(s, m), 1, n) = Canon(s, n)
<1>1. Canon(s, n) \in [1 .. n -> Byte] /\ \A k \in 1 .. n : Canon(s, n)[k] = <<s, k>>
  BY DEF Canon, Byte
<1>2. Canon(s, m) \in [1 .. m -> Byte] /\ \A k \in 1 .. m : Canon(s, m)[k] = <<s, k>>
  BY DEF Canon, Byte
<1> DEFINE c == Canon(s, n)
           d == Canon(s, m)
           p == SubSeq(d, 1, n)
<1>3. c \in Bytes /\ d \in Bytes /\ Len(c) = n /\ Len(d) = m
  BY <1>1, <1>2 DEF Bytes
<1> HIDE DEF c, d
<1>4. p \in Bytes /\ Len(p) = n /\ \A k \in 1 .. n : p[k] = d[k]
  <2>1. \A k \in 1 .. n : d[k] \in Byte
    BY <1>3 DEF Bytes
  <2> QED BY <2>1, SubSeqProperties DEF Bytes
<1> HIDE DEF p
<1>5. ASSUME NEW k \in 1 .. n PROVE p[k] = c[k]
  <2>1. k \in 1 .. m
    OBVIOUS
  <2>2. c[k] = <<s, k>> /\ d[k] = <<s, k>>
    BY <2>1, <1>1, <1>2 DEF c, d
  <2> QED BY <1>4, <2>2
<1>6. p = c
  BY <1>3, <1>4, <1>5, SeqEqual DEF Bytes
<1> QED BY <1>3, <1>6 DEF c, d, p

-----------------------------------------------------------------------------
(* The sockets.                                                            *)

\* A step of the sockets, seen from the streams: s moves on, others do not.
Passes(i, j, s) ==
  /\ j.open = i.open /\ j.shut \in {i.shut, i.shut \cup {s}}
  /\ \A r \in Sockets \ {s} : j.wire[r] = i.wire[r] /\ Waiting(j, r) = Waiting(i, r)
  /\ Len(i.wire[s]) <= Len(j.wire[s])
  /\ Refuses(i, s) => j.wire[s] = i.wire[s] /\ j.shut = i.shut

\* m bytes more are sent on s.
More(c, d, s, m) == d = [c EXCEPT ![s] = @ + m]

\* What s sends passes by the other sockets.
LEMMA PassesSends ==
  ASSUME NEW i, NEW j, NEW s \in Sockets, NEW b, Sends(i, j, s, b)
  PROVE  Passes(i, j, s)
BY DEF Sends, About, Passes, Waiting

\* One step of s after another is a step of s.
LEMMA PassesAfter ==
  ASSUME NEW i, NEW j, NEW k, State(i), State(j), State(k), NEW s \in Sockets, Passes(i, j, s), Passes(j, k, s)
  PROVE  Passes(i, k, s)
<1>1. /\ Len(i.wire[s]) \in Nat /\ Len(j.wire[s]) \in Nat /\ Len(k.wire[s]) \in Nat
  <2>1. i.wire[s] \in Bytes /\ j.wire[s] \in Bytes /\ k.wire[s] \in Bytes
    BY Fields
  <2> QED BY <2>1, Cat
<1>2. Len(i.wire[s]) <= Len(k.wire[s])
  BY <1>1 DEF Passes
<1>3. Refuses(i, s) => Refuses(j, s)
  BY DEF Passes, Refuses
<1>4. k.shut \in {i.shut, i.shut \cup {s}} /\ k.open = i.open
  BY DEF Passes
<1> QED BY <1>2, <1>3, <1>4 DEF Passes

\* Sending keeps the sockets good.
LEMMA GoodSends ==
  ASSUME NEW i, NEW j, NEW e, NEW c \in [Sockets -> Nat], NEW d, NEW s \in Sockets, NEW m \in Nat,
         Good(i, e, c), Sends(i, j, s, New(s, c[s], m)), More(c, d, s, m),
         MaxBackpressure = 0 /\ s \in i.shut /\ s \in i.open => m = 0
  PROVE  Good(j, e, d) /\ d \in [Sockets -> Nat]
<1> DEFINE b == New(s, c[s], m)
<1>0. State(i) /\ State(j) /\ Tidy(j) /\ j.open = i.open /\ j.shut = i.shut
      /\ \A r \in Sockets : Waiting(i, r) \in Bytes /\ Waiting(j, r) \in Bytes
  BY Fields DEF Good, Sends, About
<1>1. d \in [Sockets -> Nat] /\ d[s] = c[s] + m /\ \A r \in Sockets \ {s} : d[r] = c[r]
  BY DEF More
<1>2. /\ b \in Bytes /\ Canon(s, c[s]) \o b = Canon(s, c[s] + m) /\ (m = 0 => b = <<>>)
  BY NewIs
<1> HIDE DEF b
<1>3. \A r \in Sockets \ {s} : Waiting(j, r) = Waiting(i, r) /\ Stream(j, r) = Stream(i, r)
  BY DEF Sends, About, Waiting, Stream
<1>4. ASSUME NoNestedDrain, NEW r \in j.open PROVE Stream(j, r) = Canon(r, d[r])
  <2>0. r \in Sockets /\ r \in i.open
    BY <1>0, Fields
  <2>1. Stream(i, r) = Canon(r, c[r])
    BY <1>4, <2>0 DEF Good
  <2>2. CASE r = s
    <3>1. Stream(j, s) = Stream(i, s) \o b
      BY <2>0, <2>2 DEF Sends, b
    <3> QED BY <1>1, <1>2, <2>1, <2>2, <3>1
  <2>3. CASE r # s
    BY <1>1, <1>3, <2>0, <2>1, <2>3
  <2> QED BY <2>2, <2>3
<1>5. ASSUME NoLongInDrain, NEW r \in Sockets PROVE Watched(j, r)
  <2>1. Watched(i, r)
    BY <1>5 DEF Good
  <2>2. CASE r = s
    BY <2>1, <2>2 DEF Sends, About
  <2>3. CASE r # s
    BY <2>1, <2>3 DEF Sends, About, Watched, Sendable
  <2> QED BY <2>2, <2>3
<1>6. ASSUME MaxBackpressure = 0 PROVE j.shut \subseteq e /\ \A r \in j.shut \cap j.open : Waiting(j, r) = <<>>
  <2>1. i.shut \subseteq e /\ \A r \in i.shut \cap i.open : Waiting(i, r) = <<>> /\ r \in Sockets
    BY <1>0, <1>6, Fields DEF Good
  <2>2. ASSUME NEW r \in j.shut \cap j.open PROVE Waiting(j, r) = <<>>
    <3>1. CASE r # s
      BY <1>0, <1>3, <2>1, <3>1, <2>2
    <3>2. CASE r = s
      <4>0. s \in i.shut /\ s \in i.open
        BY <1>0, <3>2, <2>2
      <4>1. m = 0 /\ Refuses(i, s)
        BY <1>6, <4>0 DEF Refuses
      <4>2. j.wire[s] = i.wire[s]
        BY <4>1 DEF Sends, About
      <4>3. Stream(j, s) = Stream(i, s) \o b
        BY <4>0 DEF Sends, b
      <4>4. Stream(i, s) \in Bytes /\ i.wire[s] \in Bytes
        BY <1>0, Fields
      <4>5. Stream(i, s) \o <<>> = Stream(i, s) /\ i.wire[s] \o <<>> = i.wire[s]
        BY <4>4, Cat
      <4>6. Stream(j, s) = Stream(i, s)
        BY <1>2, <4>1, <4>3, <4>5
      <4>7. i.wire[s] \o Waiting(j, s) = i.wire[s]
        BY <2>1, <4>0, <4>2, <4>5, <4>6 DEF Stream
      <4>8. Waiting(j, s) = <<>>
        <5> DEFINE u == i.wire[s]
                   v == Waiting(j, s)
        <5>1. u \in Bytes /\ v \in Bytes /\ u \o v = u
          BY <1>0, <4>4, <4>7
        <5> HIDE DEF u, v
        <5>2. v = <<>>
          BY <5>1, ConcatEqualIffEmpty DEF Bytes
        <5> QED BY <5>2 DEF v
      <4> QED BY <3>2, <4>8
    <3> QED BY <3>1, <3>2
  <2> QED BY <1>0, <2>1, <2>2
<1> QED BY <1>0, <1>1, <1>4, <1>5, <1>6 DEF Good

\* Two states with the same bytes in the same places.
Same(i, j) == j.wire = i.wire /\ j.buffer = i.buffer /\ j.removed = i.removed /\ j.corked = i.corked /\ j.cork = i.cork

\* What keeps the bytes keeps the streams.
LEMMA SameBytes ==
  ASSUME NEW i, State(i), Tidy(i), NEW j \in IO, Same(i, j)
  PROVE  /\ State(j) /\ Tidy(j)
         /\ \A s \in Sockets : Waiting(j, s) = Waiting(i, s) /\ Stream(j, s) = Stream(i, s)
BY DEF State, Tidy, Same, TotalLength, Waiting, InCork, Stream

\* FIN is sent for a socket that is ending and has nothing left.
LEMMA GoodShutdown ==
  ASSUME NEW i, NEW e, NEW c, NEW s \in Sockets, Good(i, e, c), s \in e,
         MaxBackpressure = 0 /\ ~Refuses(i, s) => Waiting(i, s) = <<>>, NEW j, j = Shutdown(i, s)
  PROVE  /\ Good(j, e, c) /\ Passes(i, j, s) /\ Same(i, j) /\ j.open = i.open /\ j.failed = i.failed
         /\ j.shut \in {i.shut, i.shut \cup {s}} /\ (Marked(i, s) => Marked(j, s))
<1>0. State(i) /\ Tidy(i) /\ i \in IO /\ Len(i.wire[s]) \in Nat /\ i.open \in SUBSET Sockets
  BY Fields, Cat DEF Good
<1>1. CASE Refuses(i, s)
  <2>1. j = i
    BY <1>1 DEF Shutdown
  <2>2. Passes(i, i, s) /\ Same(i, i)
    BY <1>0 DEF Passes, Same
  <2> QED BY <1>1, <2>1, <2>2
<1>2. CASE ~Refuses(i, s)
  <2>1. j = [i EXCEPT !.shut = @ \cup {s}, !.polls = @ \ {s}]
    BY <1>2 DEF Shutdown
  <2>2. /\ j \in IO /\ Same(i, j) /\ j.open = i.open /\ j.failed = i.failed /\ j.shut = i.shut \cup {s}
        /\ j.polls = i.polls \ {s}
    BY ONLY <1>0, <2>1, s \in Sockets DEF IO, Same
  <2>3. /\ State(j) /\ Tidy(j)
        /\ \A r \in Sockets : Waiting(j, r) = Waiting(i, r) /\ Stream(j, r) = Stream(i, r)
    BY <1>0, <2>2, SameBytes
  <2>4. Passes(i, j, s)
    BY <1>0, <1>2, <2>2, <2>3 DEF Passes, Same
  <2>6. Marked(j, s)
    BY <2>2 DEF Marked, Sendable
  <2>7. ASSUME NoNestedDrain, NEW r \in j.open PROVE Stream(j, r) = Canon(r, c[r])
    BY <1>0, <2>2, <2>3, <2>7 DEF Good
  <2>8. ASSUME NoLongInDrain, NEW r \in Sockets PROVE Watched(j, r)
    BY <2>2, <2>8 DEF Good, Watched, Sendable, Same
  <2>9. ASSUME MaxBackpressure = 0
        PROVE  j.shut \subseteq e /\ \A r \in j.shut \cap j.open : Waiting(j, r) = <<>>
    <3>1. i.shut \subseteq e /\ \A r \in i.shut \cap i.open : Waiting(i, r) = <<>>
      BY <2>9 DEF Good
    <3> QED BY <1>0, <1>2, <2>2, <2>3, <2>9, <3>1
  <2>10. Good(j, e, c)
    BY <2>3, <2>7, <2>8, <2>9 DEF Good
  <2> QED BY <2>2, <2>4, <2>6, <2>10
<1> QED BY <1>1, <1>2

\* The socket is closed.
LEMMA GoodClosed ==
  ASSUME NEW i, NEW e, NEW c, NEW s \in Sockets, Good(i, e, c), NEW j, j = Closed(i, s)
  PROVE  /\ Good(j, e \cup {s}, c) /\ j.open = i.open \ {s} /\ j.shut = i.shut /\ j.failed = i.failed
         /\ j.corked = i.corked /\ j.cork = i.cork /\ j.wire = i.wire
         /\ \A r \in Sockets \ {s} : Waiting(j, r) = Waiting(i, r) /\ j.buffer[r] = i.buffer[r]
<1> DEFINE w == WithBuffer(i, s, <<>>, 0)
<1>0. State(i) /\ Tidy(i) /\ i \in IO /\ i.open \in SUBSET Sockets /\ <<>> \in Bytes
  BY Fields, Cat DEF Good
<1>1. j = [w EXCEPT !.open = i.open \ {s}, !.polls = i.polls \ {s}]
  BY <1>0 DEF Closed, WithBuffer, IO
<1> HIDE DEF w
<1>2. /\ w \in IO /\ SameRest(i, w, s) /\ w.wire = i.wire /\ w.polls = i.polls /\ w.failed = i.failed
      /\ w.buffer[s] = <<>> /\ w.removed[s] = 0
  BY ONLY <1>0, s \in Sockets, BufferIs DEF w
<1>3. /\ j \in IO /\ Same(w, j) /\ j.open = i.open \ {s} /\ j.polls = i.polls \ {s} /\ j.shut = w.shut
      /\ j.failed = w.failed
  BY ONLY <1>0, <1>1, <1>2, s \in Sockets DEF IO, Same
<1>4. State(w) /\ Tidy(w)
  <2>1. w.removed[s] * EraseShare = 0
    BY <1>2, AsyncSocketAssumption
  <2>2. TotalLength(w, s) = 0
    BY <1>2 DEF TotalLength
  <2>3. State(w)
    BY <1>0, <1>2, <2>1, <2>2, StateIs
  <2> QED BY <1>0, <1>2, <2>3 DEF Tidy, SameRest
<1>5. /\ State(j) /\ Tidy(j) /\ \A r \in Sockets : Waiting(j, r) = Waiting(w, r) /\ Stream(j, r) = Stream(w, r)
  BY <1>3, <1>4, SameBytes
<1>6. \A r \in Sockets \ {s} : Waiting(w, r) = Waiting(i, r) /\ Stream(w, r) = Stream(i, r)
  BY <1>2 DEF SameRest, Waiting, InCork, Stream
<1>7. ASSUME NoNestedDrain, NEW r \in j.open PROVE Stream(j, r) = Canon(r, c[r])
  BY <1>0, <1>3, <1>5, <1>6, <1>7 DEF Good
<1>8. ASSUME NoLongInDrain, NEW r \in Sockets PROVE Watched(j, r)
  BY <1>2, <1>3, <1>8 DEF Good, Watched, Sendable, Same, SameRest
<1>9. ASSUME MaxBackpressure = 0
      PROVE  j.shut \subseteq e \cup {s} /\ \A r \in j.shut \cap j.open : Waiting(j, r) = <<>>
  <2>1. i.shut \subseteq e /\ \A r \in i.shut \cap i.open : Waiting(i, r) = <<>>
    BY <1>9 DEF Good
  <2> QED BY <1>0, <1>2, <1>3, <1>5, <1>6, <2>1 DEF SameRest
<1>10. Good(j, e \cup {s}, c)
  BY <1>5, <1>7, <1>8, <1>9 DEF Good
<1>11. \A r \in Sockets \ {s} : j.buffer[r] = i.buffer[r]
  BY <1>2, <1>3 DEF SameRest, Same
<1> QED BY <1>2, <1>3, <1>5, <1>6, <1>10, <1>11 DEF SameRest, Same

\* The loop stops polling a socket whose writes have not failed.
LEMMA GoodStops ==
  ASSUME NEW i, NEW e, NEW c, NEW s \in Sockets, Good(i, e, c), NoLongInDrain => Marked(i, s),
         NEW j, j = StopPolling(i, s)
  PROVE  /\ Good(j, e, c) /\ Passes(i, j, s) /\ Same(i, j) /\ j.open = i.open /\ j.shut = i.shut
         /\ j.failed = i.failed
<1>0. State(i) /\ Tidy(i) /\ i \in IO /\ Len(i.wire[s]) \in Nat
  BY Fields, Cat DEF Good
<1>1. CASE ~(s \in i.open /\ (~i.failed \/ s \in i.shut))
  <2>1. j = i
    BY <1>1 DEF StopPolling
  <2>2. Passes(i, i, s) /\ Same(i, i)
    BY <1>0 DEF Passes, Same
  <2> QED BY <2>1, <2>2
<1>2. CASE s \in i.open /\ (~i.failed \/ s \in i.shut)
  <2>1. j = [i EXCEPT !.polls = @ \ {s}]
    BY <1>2 DEF StopPolling
  <2>2. /\ j \in IO /\ Same(i, j) /\ j.open = i.open /\ j.failed = i.failed /\ j.shut = i.shut
        /\ j.polls = i.polls \ {s}
    BY ONLY <1>0, <2>1, s \in Sockets DEF IO, Same
  <2>3. /\ State(j) /\ Tidy(j)
        /\ \A r \in Sockets : Waiting(j, r) = Waiting(i, r) /\ Stream(j, r) = Stream(i, r)
    BY <1>0, <2>2, SameBytes
  <2>4. Passes(i, j, s)
    BY <1>0, <2>2, <2>3 DEF Passes, Same
  <2>5. ASSUME NoLongInDrain, NEW r \in Sockets PROVE Watched(j, r)
    <3>1. Watched(i, r)
      BY <2>5 DEF Good
    <3>2. CASE r = s
      BY <1>2, <2>2, <2>5, <3>2 DEF Marked, Watched, Sendable, Same
    <3>3. CASE r # s
      BY <2>2, <3>1, <3>3 DEF Watched, Sendable, Same
    <3> QED BY <3>2, <3>3
  <2>6. Good(j, e, c)
    <3>1. i.open \in SUBSET Sockets
      BY <1>0, Fields
    <3>2. \A r \in i.open : r \in Sockets
      BY <3>1
    <3>3. NoNestedDrain => \A r \in j.open : Stream(j, r) = Canon(r, c[r])
      BY <2>2, <2>3, <3>2 DEF Good
    <3>4. MaxBackpressure = 0 => j.shut \subseteq e /\ \A r \in j.shut \cap j.open : Waiting(j, r) = <<>>
      BY <2>2, <2>3, <3>2 DEF Good
    <3> QED BY <2>3, <2>5, <3>3, <3>4 DEF Good
  <2> QED BY <2>2, <2>4, <2>6
<1> QED BY <1>1, <1>2

\* The loop forgets a failed write before it tells that there is room.
LEMMA GoodUnfailed ==
  ASSUME NEW i, NEW e, NEW c, NEW s \in Sockets, Good(i, e, c), NEW j, j = [i EXCEPT !.failed = FALSE]
  PROVE  /\ Good(j, e, c) /\ Passes(i, j, s) /\ Same(i, j) /\ j.open = i.open /\ j.shut = i.shut
         /\ j.polls = i.polls
<1>0. State(i) /\ Tidy(i) /\ i \in IO /\ Len(i.wire[s]) \in Nat /\ i.open \in SUBSET Sockets
  BY Fields, Cat DEF Good
<1>2. /\ j \in IO /\ Same(i, j) /\ j.open = i.open /\ j.shut = i.shut /\ j.polls = i.polls
  BY <1>0 DEF IO, Same
<1>3. /\ State(j) /\ Tidy(j)
      /\ \A r \in Sockets : Waiting(j, r) = Waiting(i, r) /\ Stream(j, r) = Stream(i, r)
  BY <1>0, <1>2, SameBytes
<1>4. Passes(i, j, s)
  BY ONLY <1>0, <1>2, <1>3, s \in Sockets DEF Passes, Same
<1>5. ASSUME NoLongInDrain, NEW r \in Sockets PROVE Watched(j, r)
  BY <1>2, <1>5 DEF Good, Watched, Sendable, Same
<1>6. \A r \in i.open : r \in Sockets
  BY <1>0
<1>7. NoNestedDrain => \A r \in j.open : Stream(j, r) = Canon(r, c[r])
  BY <1>2, <1>3, <1>6 DEF Good
<1>8. MaxBackpressure = 0 => j.shut \subseteq e /\ \A r \in j.shut \cap j.open : Waiting(j, r) = <<>>
  BY <1>2, <1>3, <1>6 DEF Good
<1>9. Good(j, e, c)
  BY <1>3, <1>5, <1>7, <1>8 DEF Good
<1> QED BY <1>2, <1>4, <1>9

\* More sockets may be ending.
LEMMA GoodEnding ==
  ASSUME NEW i, NEW e, NEW d, NEW c, Good(i, e, c), e \subseteq d
  PROVE  Good(i, d, c)
BY DEF Good

-----------------------------------------------------------------------------
(* send().                                                                 *)

\* What a send of b may come to.
SendsFrame(i, o, s, b) ==
  /\ Sends(i, o.io, s, b) /\ o.status \in {"success", "backpressure"}
  /\ o.io.corked \in {i.corked, NoSocket}
  /\ s \in i.open /\ o.status = "success" /\ o.io.corked # s => Waiting(o.io, s) = <<>>

\* The short path of send: getSendBuffer, and uncork or drain.
LEMMA SendBufferedIs ==
  ASSUME NEW i, State(i), Tidy(i), NEW s \in Sockets, NEW b \in Bytes, NEW o \in SendBuffered(i, s, b)
  PROVE  SendsFrame(i, o, s, b) /\ (Marked(i, s) => Marked(o.io, s))
<1> DEFINE p == Place(i, s, b)
           k == p.io
<1>1. /\ p.needs \in {"nothing", "uncork", "drain"} /\ State(k)
      /\ k.open = i.open /\ k.shut = i.shut /\ k.wire = i.wire /\ k.polls = i.polls /\ k.failed = i.failed
      /\ \A r \in Sockets \ {s} : InCork(k, r) = InCork(i, r) /\ k.buffer[r] = i.buffer[r]
      /\ Stream(k, s) = Stream(i, s) \o b
      /\ p.needs = "nothing" => i.corked = s /\ k.corked = s /\ k.buffer = i.buffer
      /\ p.needs = "uncork" => i.corked = NoSocket /\ k.corked = s /\ k.buffer = i.buffer /\ k.buffer[s] = <<>>
      /\ p.needs = "drain" => k.corked = i.corked /\ InCork(k, s) = <<>> /\ Tidy(k)
  BY PlaceSends
<1>2. PICK u \in CASE p.needs = "nothing" -> {Outcome(p.io, FALSE)}
                   [] p.needs = "uncork"  -> Uncork(p.io, s, <<>>)
                   [] p.needs = "drain"   -> Write(p.io, s, <<>>) :
             o = Sent(u.io, IF u.failed THEN "backpressure" ELSE "success")
  BY DEF SendBuffered
<1>3. o.io = u.io /\ o.status = IF u.failed THEN "backpressure" ELSE "success"
  BY <1>2 DEF Sent
<1>4. /\ s # NoSocket /\ <<>> \in Bytes /\ b \o <<>> = b
      /\ i.wire[s] \in Bytes /\ Len(i.wire[s]) \in Nat /\ i.corked \in Sockets \cup {NoSocket}
  BY Fields, Cat, AsyncSocketAssumption
<1> HIDE DEF p
<1>5. CASE p.needs = "nothing"
  <2>1. u = Outcome(k, FALSE)
    BY <1>2, <1>5
  <2>2. u.io = k /\ u.failed = FALSE
    BY <2>1 DEF Outcome
  <2> HIDE DEF k
  <2>3. Tidy(k) /\ Marked(i, s) => Marked(k, s)
    BY <1>1, <1>4, <1>5 DEF Tidy, Marked, Sendable
  <2>4. About(i, k, s)
    BY <1>1, <1>4, <1>5 DEF About, Watched, Sendable
  <2>5. Sends(i, k, s, b)
    BY <1>1, <1>4, <1>5, <2>4 DEF Sends, Tidy
  <2>6. Marked(i, s) => Marked(k, s)
    BY <1>1, <1>5 DEF Marked, Sendable
  <2> QED BY <1>1, <1>3, <1>5, <2>2, <2>5, <2>6 DEF SendsFrame
<1>6. CASE p.needs = "uncork"
  <2>1. u \in Uncork(k, s, <<>>)
    BY <1>2, <1>6
  <2> HIDE DEF k
  <2>2. Tidy(k)
    BY <1>1, <1>4, <1>6 DEF Tidy
  <2>3. /\ Sends(k, u.io, s, <<>>) /\ u.io.corked # s /\ u.io.corked \in {k.corked, NoSocket}
        /\ (Marked(k, s) => Marked(u.io, s)) /\ u.failed \in BOOLEAN
        /\ (k.corked = s /\ s \in k.open /\ ~u.failed => u.io.buffer[s] = <<>>)
    BY <1>1, <2>1, <2>2, UncorkSends
  <2>4. About(i, k, s)
    BY <1>1, <1>4, <1>6 DEF About, Watched, Sendable
  <2>5. Sends(i, k, s, b)
    BY <1>1, <1>4, <1>6, <2>2, <2>4 DEF Sends
  <2>6. Sends(i, u.io, s, b \o <<>>)
    BY <1>4, <2>3, <2>5, SendsAfter
  <2>7. Marked(i, s) => Marked(u.io, s)
    BY <1>1, <1>6, <2>3 DEF Marked, Sendable
  <2>8. InCork(u.io, s) = <<>>
    BY <2>3 DEF InCork
  <2>9. <<>> \o <<>> = <<>>
    BY <1>4, Cat
  <2>10. s \in i.open /\ ~u.failed => Waiting(u.io, s) = <<>>
    BY <1>1, <1>6, <2>3, <2>8, <2>9 DEF Waiting
  <2>11. u.io.corked = NoSocket
    BY <1>1, <1>6, <2>3
  <2> QED BY <1>3, <1>4, <2>3, <2>6, <2>7, <2>10, <2>11 DEF SendsFrame
<1>7. CASE p.needs = "drain"
  <2>1. u \in Write(k, s, <<>>)
    BY <1>2, <1>7
  <2> DEFINE j == u.io
  <2> HIDE DEF k
  <2>2. CASE s \notin i.open
    <3>1. u = Outcome(k, FALSE)
      BY <1>1, <2>1, <2>2 DEF Write
    <3>2. j = k /\ u.failed = FALSE
      BY <3>1 DEF Outcome
    <3> HIDE DEF j
    <3>3. About(i, k, s)
      BY <1>1, <1>4, <2>2 DEF About, Watched, Sendable
    <3>4. Sends(i, k, s, b)
      BY <1>1, <1>7, <3>3 DEF Sends
    <3>5. Marked(k, s)
      BY <1>1, <2>2 DEF Marked, Sendable
    <3> QED BY <1>1, <1>3, <1>7, <2>2, <3>2, <3>4, <3>5 DEF SendsFrame, j
  <2>3. CASE s \in i.open
    <3>1. s \in k.open
      BY <1>1, <2>3
    <3>2. Moves(k, j, s, <<>>) /\ Told(u, s) /\ u.failed \in BOOLEAN
      BY ONLY <1>1, <1>4, <2>1, <3>1, s \in Sockets, WriteMoves
    <3> HIDE DEF j
    <3>3. j.corked = k.corked /\ j.cork = k.cork /\ State(j) /\ About(k, j, s)
      BY <3>2 DEF Moves
    <3>4. Tidy(j) /\ \A r \in Sockets : InCork(j, r) = InCork(k, r)
      BY <1>1, <1>7, <3>3 DEF Tidy, InCork
    <3>5. Watched(j, s) /\ Marked(j, s)
      BY <3>2 DEF Told, Watched, Marked, j
    <3>6. Refuses(i, s) <=> Refuses(k, s)
      BY <1>1 DEF Refuses
    <3>7. About(i, j, s)
      BY <1>1, <3>3, <3>5, <3>6 DEF About
    <3>8. Stream(j, s) = Stream(k, s)
      <4>1. k.wire[s] \in Bytes /\ k.buffer[s] \in Bytes /\ j.buffer[s] \in Bytes
        BY <1>1, <3>3, Fields
      <4>2. k.wire[s] \o k.buffer[s] \in Bytes
        BY <4>1, Cat
      <4>3. (k.wire[s] \o k.buffer[s]) \o <<>> = k.wire[s] \o k.buffer[s]
        BY <4>2, Cat
      <4>4. k.buffer[s] \o <<>> = k.buffer[s] /\ j.buffer[s] \o <<>> = j.buffer[s]
        BY <4>1, Cat
      <4>5. j.wire[s] \o j.buffer[s] = k.wire[s] \o k.buffer[s]
        BY <3>2, <4>3 DEF Moves
      <4> QED BY <1>1, <1>7, <3>4, <4>4, <4>5 DEF Stream, Waiting
    <3>9. Sends(i, j, s, b)
      BY <1>1, <1>7, <3>3, <3>4, <3>7, <3>8 DEF Sends
    <3>10. <<>> \o <<>> = <<>>
      BY <1>4, Cat
    <3>11. ~u.failed => Waiting(j, s) = <<>>
      BY <1>1, <1>7, <3>2, <3>4, <3>10 DEF Told, Waiting, j
    <3> QED BY <1>1, <1>3, <1>7, <3>2, <3>3, <3>5, <3>9, <3>11 DEF SendsFrame, j
  <2> QED BY <2>2, <2>3
<1> QED BY <1>1, <1>5, <1>6, <1>7

\* The long path of send: header and payload in one write.
LEMMA SendLongIs ==
  ASSUME NEW i, State(i), Tidy(i), NEW s \in Sockets, NEW n, TakesLongPath(i, s, n),
         NEW b \in Bytes, b # <<>>, NEW o \in SendLong(i, s, b)
  PROVE  SendsFrame(i, o, s, b)
<1>1. PICK m \in Accepted(i, s, b) :
        o = LET w == Written2(i, s, b, m)
            IN  IF m = Len(b) THEN Sent(w, "success")
                ELSE Sent(UncorkWithoutSending(Buffered(w, s, Rest(b, m)), s), "backpressure")
  BY DEF SendLong
<1> DEFINE w == Written2(i, s, b, m)
           q == Rest(b, m)
           p == SubSeq(b, 1, m)
           k == Buffered(w, s, q)
           v == UncorkWithoutSending(k, s)
<1>0. /\ i \in IO /\ i.wire[s] \in Bytes /\ i.buffer[s] = <<>> /\ i.cork = <<>> /\ <<>> \in Bytes
      /\ i.corked \in Sockets \cup {NoSocket} /\ s # NoSocket
  <2>1. GetBufferedAmount(i, s) = 0 /\ i.cork = <<>>
    BY DEF TakesLongPath
  <2> QED BY <2>1, Fields, AsyncSocketAssumption
<1>2. /\ w \in IO /\ SameRest(i, w, s) /\ m \in 0 .. Len(b)
      /\ w.wire[s] = i.wire[s] \o p
      /\ w.buffer[s] = i.buffer[s] /\ w.removed[s] = i.removed[s] /\ w.failed = i.failed
      /\ (Refuses(i, s) => w.wire[s] = i.wire[s])
      /\ (s \in i.polls => s \in w.polls)
      /\ (m < Len(b) /\ ~Refuses(i, s) => s \in w.polls)
  BY ONLY <1>0, s \in Sockets, b \in Bytes, m \in Accepted(i, s, b), Written2Is
<1>3. p \in Bytes /\ q \in Bytes /\ p \o q = b /\ Len(b) \in Nat /\ Len(p) = m /\ Len(q) = Len(b) - m
  BY <1>2, Split, Cat
<1>4. Len(i.wire[s]) <= Len(i.wire[s] \o p) /\ Len(q) \in Nat
  <2> DEFINE x == i.wire[s]
  <2>1. x \in Bytes /\ p \in Bytes /\ q \in Bytes
    BY <1>0, <1>3
  <2> HIDE DEF x, p, q
  <2>2. Len(x \o p) = Len(x) + Len(p) /\ Len(x) \in Nat /\ Len(p) \in Nat
    BY ONLY <2>1, Cat
  <2>3. Len(q) \in Nat
    BY ONLY <2>1, Cat
  <2> QED BY <2>2, <2>3 DEF x
<1>5. (i.wire[s] \o p) \o q = i.wire[s] \o b
  <2>1. (i.wire[s] \o p) \o q = i.wire[s] \o (p \o q)
    BY <1>0, <1>3, CatAssociates
  <2> QED BY <2>1, <1>3
<1>6. <<>> \o q = q /\ q \o <<>> = q /\ i.wire[s] \o <<>> = i.wire[s] /\ <<>> \o <<>> = <<>>
      /\ (Len(q) = 0 => q = <<>>)
  BY <1>0, <1>3, Cat
<1>7. i.removed[s] * EraseShare <= i.removed[s] /\ i.removed[s] \in Nat /\ i.removed[s] * EraseShare \in Nat
  <2>1. i.removed[s] * EraseShare <= 0 + i.removed[s]
    BY <1>0 DEF State, TotalLength
  <2>2. i.removed[s] \in Nat
    BY Fields
  <2> QED BY <2>1, <2>2, AsyncSocketAssumption
<1> HIDE DEF p, q
<1>8. InCork(i, s) = <<>> /\ Waiting(i, s) = <<>> /\ Stream(i, s) = i.wire[s]
  BY <1>0, <1>6 DEF InCork, Waiting, Stream
  \* What both outcomes have in common.
<1>9. ASSUME NEW j \in IO, SameRest(w, j, s), j.wire = w.wire, j.polls = w.polls, j.failed = w.failed,
             j.buffer[s] = q, j.removed[s] = i.removed[s]
      PROVE  State(j) /\ About(i, j, s) /\ i.wire[s] \o b = j.wire[s] \o j.buffer[s]
  <2>1. SameRest(i, j, s)
    BY <1>2, <1>9 DEF SameRest
  <2>2. j.removed[s] * EraseShare <= TotalLength(j, s)
    BY <1>4, <1>7, <1>9 DEF TotalLength
  <2>3. State(j)
    BY <2>1, <2>2, StateIs
  <2>4. Sendable(j, s) => Sendable(i, s) /\ ~Refuses(i, s)
    BY <2>1 DEF SameRest, Sendable, Refuses
  <2>5. Watched(j, s)
    <3>1. m < Len(b) \/ q = <<>>
      BY <1>2, <1>3, <1>6
    <3> QED BY <1>2, <1>9, <2>4, <3>1 DEF Watched
  <2>6. About(i, j, s)
    BY <1>2, <1>4, <1>9, <2>1, <2>5 DEF About, SameRest
  <2>7. i.wire[s] \o b = j.wire[s] \o j.buffer[s]
    BY <1>2, <1>5, <1>9
  <2> QED BY <2>3, <2>6, <2>7
<1>10. CASE m = Len(b)
  <2>1. o = Sent(w, "success")
    BY <1>1, <1>10
  <2>2. o.io = w /\ o.status = "success"
    BY <2>1 DEF Sent
  <2> HIDE DEF w
  <2>3. q = <<>> /\ SameRest(w, w, s)
    BY <1>3, <1>6, <1>10 DEF SameRest
  <2>4. State(w) /\ About(i, w, s) /\ i.wire[s] \o b = w.wire[s] \o w.buffer[s]
    BY <1>0, <1>2, <1>9, <2>3
  <2>5. w.corked = i.corked /\ w.cork = i.cork
    BY <1>2 DEF SameRest
  <2>6. Tidy(w) /\ \A r \in Sockets : InCork(w, r) = InCork(i, r)
    BY <1>0, <2>5 DEF Tidy, InCork
  <2>7. Waiting(w, s) = <<>>
    BY <1>0, <1>2, <1>6, <1>8, <2>6 DEF Waiting
  <2>8. Stream(w, s) = Stream(i, s) \o b
    BY <1>0, <1>2, <1>8, <2>4, <2>7 DEF Stream
  <2>9. Sends(i, w, s, b)
    BY <2>4, <2>5, <2>6, <2>8 DEF Sends
  <2> QED BY <2>2, <2>5, <2>7, <2>9 DEF SendsFrame
<1>11. CASE m # Len(b)
  <2>1. o = Sent(v, "backpressure")
    BY <1>1, <1>11 DEF q
  <2>2. o.io = v /\ o.status = "backpressure"
    BY <2>1 DEF Sent
  <2> HIDE DEF v, w
  <2>3. /\ k \in IO /\ SameRest(w, k, s) /\ k.wire = w.wire /\ k.polls = w.polls /\ k.failed = w.failed
        /\ k.buffer[s] = w.buffer[s] \o q /\ k.removed[s] = w.removed[s]
    BY ONLY <1>2, <1>3, s \in Sockets, BufferedIs
  <2> HIDE DEF k
  <2>4. k.buffer[s] = q /\ k.removed[s] = i.removed[s]
    BY <1>0, <1>2, <1>6, <2>3
  <2>5. State(k) /\ About(i, k, s) /\ i.wire[s] \o b = k.wire[s] \o k.buffer[s]
    BY <1>9, <2>3, <2>4
  <2>6. k.corked = i.corked /\ k.cork = <<>>
    BY <1>0, <1>2, <2>3 DEF SameRest
  <2> DEFINE x == IF k.corked = s THEN NoSocket ELSE k.corked
  <2>7. v = WithCork(k, x, <<>>) /\ x \in Sockets \cup {NoSocket}
    BY <1>0, <2>3, <2>6 DEF v, UncorkWithoutSending, WithCork, IO
  <2>8. x # s /\ x \in {i.corked, NoSocket}
    BY <1>0, <2>6
  <2> HIDE DEF x
  <2>9. /\ State(v) /\ v.open = k.open /\ v.shut = k.shut /\ v.wire = k.wire /\ v.buffer = k.buffer
        /\ v.removed = k.removed /\ v.polls = k.polls /\ v.failed = k.failed /\ v.corked = x /\ v.cork = <<>>
    <3> DEFINE y == WithCork(k, x, <<>>)
    <3>1. State(k) /\ x \in Sockets \cup {NoSocket} /\ <<>> \in Bytes /\ v = y
      BY <1>0, <2>5, <2>7
    <3>2. /\ State(y) /\ y.open = k.open /\ y.shut = k.shut /\ y.wire = k.wire /\ y.buffer = k.buffer
          /\ y.removed = k.removed /\ y.polls = k.polls /\ y.failed = k.failed /\ y.corked = x /\ y.cork = <<>>
      BY ONLY <3>1, CorkIs
    <3> HIDE DEF y
    <3> QED BY <3>1, <3>2
  <2>10. About(i, v, s)
    BY <2>5, <2>9 DEF About, Watched, Sendable
  <2>11. Tidy(v) /\ \A r \in Sockets : InCork(v, r) = InCork(i, r)
    BY <1>0, <2>9 DEF Tidy, InCork
  <2>12. Stream(v, s) = Stream(i, s) \o b
    BY <1>6, <1>8, <2>4, <2>5, <2>9, <2>11 DEF Stream, Waiting
  <2>13. Sends(i, v, s, b)
    BY <2>8, <2>9, <2>10, <2>11, <2>12 DEF Sends
  <2> QED BY <2>2, <2>8, <2>9, <2>13 DEF SendsFrame
<1> QED BY <1>10, <1>11

\* A short message, or one of a subscriber, does not take the long path.
LEMMA SendFrameIs ==
  ASSUME NEW i, State(i), Tidy(i), NEW s \in Sockets, NEW n \in Nat, NEW b \in Bytes, b # <<>>,
         NEW o \in SendFrame(i, s, n, b)
  PROVE  /\ SendsFrame(i, o, s, b)
         /\ n < CorkSize \/ s \in Subscribed => (Marked(i, s) => Marked(o.io, s))
<1>1. CASE TakesLongPath(i, s, n)
  <2>1. o \in SendLong(i, s, b)
    BY <1>1 DEF SendFrame
  <2>2. ~(n < CorkSize \/ s \in Subscribed)
    BY <1>1, AsyncSocketAssumption DEF TakesLongPath
  <2> QED BY <1>1, <2>1, <2>2, SendLongIs
<1>2. CASE ~TakesLongPath(i, s, n)
  <2>1. o \in SendBuffered(i, s, b)
    BY <1>2 DEF SendFrame
  <2> QED BY <2>1, SendBufferedIs
<1> QED BY <1>1, <1>2

-----------------------------------------------------------------------------
(* The stack.                                                              *)

\* The functions that run application code.
AppKinds == {"consume", "cork", "writable", "dropped"}

\* The empty stack, and the frames of a call.
LEMMA NoFrames ==
  /\ Frames(<<>>) = {} /\ <<>> \in Seq(Frame) /\ Nested(<<>>) /\ OneBatch(<<>>)
  /\ \A kind \in {"consume", "cork", "writable", "batch", "dropped", "send", "end"}, s \in Sockets :
       /\ Blank(kind, s) \in Frame /\ Blank(kind, s).kind = kind /\ Blank(kind, s).sub = s
       /\ Blank(kind, s).left = 0
BY DEF Frames, Nested, OneBatch, Blank, Frame

\* A frame is pushed.
LEMMA PushFrames ==
  ASSUME NEW f \in Frame, NEW st \in Seq(Frame)
  PROVE  /\ <<f>> \o st \in Seq(Frame) /\ <<f>> \o st # <<>>
         /\ Head(<<f>> \o st) = f /\ Tail(<<f>> \o st) = st
         /\ Len(<<f>> \o st) = Len(st) + 1
         /\ (<<f>> \o st)[1] = f /\ \A n \in DOMAIN st : (<<f>> \o st)[n + 1] = st[n]
         /\ \A n \in DOMAIN (<<f>> \o st) : n = 1 \/ (n - 1 \in DOMAIN st /\ (<<f>> \o st)[n] = st[n - 1])
         /\ Frames(<<f>> \o st) = {f} \cup Frames(st)
<1> DEFINE r == <<f>> \o st
<1>1. r \in Seq(Frame) /\ Len(r) = Len(st) + 1 /\ r[1] = f /\ r # <<>>
  OBVIOUS
<1>2. \A n \in DOMAIN st : r[n + 1] = st[n]
  OBVIOUS
<1>3. Head(r) = f /\ Tail(r) = st
  OBVIOUS
<1>4. \A n \in DOMAIN r : n = 1 \/ (n - 1 \in DOMAIN st /\ r[n] = st[n - 1])
  OBVIOUS
<1>5. Frames(r) = {f} \cup Frames(st)
  <2>2. \A n \in DOMAIN st : n + 1 \in DOMAIN r /\ r[n + 1] = st[n]
    BY <1>1, <1>2
  <2>3. 1 \in DOMAIN r
    BY <1>1
  <2> HIDE DEF r
  <2>4. \A g : g \in Frames(r) => g \in {f} \cup Frames(st)
    BY <1>1, <1>4 DEF Frames
  <2>5. \A g : g \in {f} \cup Frames(st) => g \in Frames(r)
    BY <1>1, <2>2, <2>3 DEF Frames
  <2> QED BY <2>4, <2>5
<1> QED BY <1>1, <1>2, <1>3, <1>4, <1>5

\* A frame is popped.
LEMMA PopFrames ==
  ASSUME NEW st \in Seq(Frame), st # <<>>
  PROVE  /\ Head(st) \in Frame /\ Tail(st) \in Seq(Frame) /\ Head(st) = st[1]
         /\ Len(Tail(st)) = Len(st) - 1 /\ Len(Tail(st)) \in Nat
         /\ \A n \in DOMAIN Tail(st) : Tail(st)[n] = st[n + 1]
         /\ st = <<Head(st)>> \o Tail(st) /\ Frames(st) = {Head(st)} \cup Frames(Tail(st))
<1>1. Head(st) \in Frame /\ Tail(st) \in Seq(Frame) /\ Head(st) = st[1]
  OBVIOUS
<1>2. Len(Tail(st)) = Len(st) - 1 /\ \A n \in DOMAIN Tail(st) : Tail(st)[n] = st[n + 1]
  OBVIOUS
<1>3. st = <<Head(st)>> \o Tail(st)
  OBVIOUS
<1>4. Frames(<<Head(st)>> \o Tail(st)) = {Head(st)} \cup Frames(Tail(st))
  BY <1>1, PushFrames
<1>5. Frames(st) = {Head(st)} \cup Frames(Tail(st))
  BY <1>3, <1>4
<1>6. Len(Tail(st)) \in Nat
  BY <1>1
<1> QED BY ONLY <1>1, <1>2, <1>3, <1>5, <1>6

\* What may be above the newest frame is pushed.
LEMMA PushNested ==
  ASSUME NEW f \in Frame, NEW st \in Seq(Frame), Nested(st),
         st = <<>> => f.kind # "dropped", st # <<>> => Over(f, Head(st))
  PROVE  Nested(<<f>> \o st)
<1> DEFINE r == <<f>> \o st
<1>1. /\ r[1] = f /\ Len(r) = Len(st) + 1 /\ \A n \in DOMAIN st : r[n + 1] = st[n]
      /\ \A n \in DOMAIN r : n = 1 \/ (n - 1 \in DOMAIN st /\ r[n] = st[n - 1])
  BY PushFrames
<1>2. Len(st) \in Nat /\ DOMAIN st = 1 .. Len(st) /\ (st # <<>> => Head(st) = st[1] /\ Len(st) > 0)
      /\ (st = <<>> => Len(st) = 0) /\ DOMAIN r = 1 .. Len(r)
  OBVIOUS
<1> HIDE DEF r
<1>3. ASSUME NEW n \in 1 .. Len(r) - 1 PROVE Over(r[n], r[n + 1])
  <2>1. n + 1 \in DOMAIN r /\ n \in DOMAIN st /\ r[n + 1] = st[n]
    BY <1>1, <1>2
  <2>2. CASE n = 1
    BY <1>1, <1>2, <2>1, <2>2
  <2>3. CASE n # 1
    <3>1. n \in DOMAIN r
      BY <1>1, <1>2
    <3>2. n - 1 \in DOMAIN st /\ r[n] = st[n - 1]
      BY ONLY <1>1, <2>3, <3>1
    <3>3. n - 1 \in 1 .. Len(st) - 1 /\ (n - 1) + 1 = n
      BY <1>1, <1>2, <2>3
    <3>4. Over(st[n - 1], st[(n - 1) + 1])
      BY <3>3 DEF Nested
    <3> QED BY <2>1, <3>2, <3>3, <3>4
  <2> QED BY <2>2, <2>3
<1>4. r[Len(r)].kind # "dropped"
  <2>1. CASE st = <<>>
    BY <1>1, <1>2, <2>1
  <2>2. CASE st # <<>>
    <3>1. Len(st) \in DOMAIN st /\ r[Len(r)] = st[Len(st)]
      BY <1>1, <1>2, <2>2
    <3> QED BY <2>2, <3>1 DEF Nested
  <2> QED BY <2>1, <2>2
<1> QED BY <1>3, <1>4 DEF Nested, r

\* What is below the newest frame.
LEMMA PopNested ==
  ASSUME NEW st \in Seq(Frame), st # <<>>, Nested(st)
  PROVE  /\ Nested(Tail(st)) /\ (Tail(st) # <<>> => Over(Head(st), Head(Tail(st))))
         /\ (Head(st).kind = "dropped" => Tail(st) # <<>> /\ Head(Tail(st)).kind = "batch")
<1> DEFINE r == Tail(st)
<1>1. /\ r \in Seq(Frame) /\ Len(r) = Len(st) - 1 /\ \A n \in DOMAIN r : r[n] = st[n + 1]
      /\ Head(st) = st[1]
  BY PopFrames
<1>2. Len(r) \in Nat /\ DOMAIN r = 1 .. Len(r) /\ (r # <<>> => Head(r) = r[1] /\ Len(r) > 0)
      /\ (r = <<>> => Len(r) = 0)
  <2> HIDE DEF r
  <2> QED BY <1>1
<1> HIDE DEF r
<1>3. ASSUME NEW n \in 1 .. Len(r) - 1 PROVE Over(r[n], r[n + 1])
  <2>1. n + 1 \in 1 .. Len(st) - 1 /\ n \in DOMAIN r /\ n + 1 \in DOMAIN r
    BY <1>1, <1>2
  <2>2. r[n] = st[n + 1] /\ r[n + 1] = st[n + 1 + 1]
    BY <1>1, <2>1
  <2>3. Over(st[n + 1], st[n + 1 + 1])
    BY <2>1 DEF Nested
  <2> QED BY <2>2, <2>3
<1>4. r # <<>> => r[Len(r)].kind # "dropped"
  <2>1. r # <<>> => Len(r) \in DOMAIN r /\ r[Len(r)] = st[Len(st)]
    BY <1>1, <1>2
  <2> QED BY <2>1 DEF Nested
<1>5. r # <<>> => Over(Head(st), Head(r))
  <2> SUFFICES ASSUME r # <<>> PROVE Over(Head(st), Head(r))
    OBVIOUS
  <2>1. 1 \in 1 .. Len(st) - 1 /\ 1 \in DOMAIN r
    BY <1>1, <1>2
  <2>2. Head(r) = st[1 + 1]
    BY <1>1, <1>2, <2>1
  <2> QED BY <1>1, <2>1, <2>2 DEF Nested
<1>6. r = <<>> => Head(st).kind # "dropped"
  BY <1>1, <1>2 DEF Nested
<1> QED BY <1>3, <1>4, <1>5, <1>6 DEF Nested, Over, r

\* A batch may be pushed on frames that are none.
LEMMA PushOne ==
  ASSUME NEW f \in Frame, NEW st \in Seq(Frame), OneBatch(st),
         f.kind = "batch" => \A g \in Frames(st) : g.kind # "batch"
  PROVE  OneBatch(<<f>> \o st)
<1> DEFINE r == <<f>> \o st
<1>1. /\ r[1] = f /\ \A n \in DOMAIN r : n = 1 \/ (n - 1 \in DOMAIN st /\ r[n] = st[n - 1])
      /\ DOMAIN r = 1 .. Len(r) /\ Len(r) \in Nat
  BY PushFrames
<1> HIDE DEF r
<1>2. ASSUME NEW n \in DOMAIN r, NEW m \in DOMAIN r, r[n].kind = "batch", r[m].kind = "batch" PROVE n = m
  <2>1. CASE n = 1 \/ m = 1
    BY <1>1, <1>2, <2>1 DEF Frames
  <2>2. CASE n # 1 /\ m # 1
    <3>1. n - 1 \in DOMAIN st /\ m - 1 \in DOMAIN st /\ r[n] = st[n - 1] /\ r[m] = st[m - 1]
      BY <1>1, <2>2
    <3>2. n - 1 = m - 1
      BY <1>2, <3>1 DEF OneBatch
    <3> QED BY <1>1, <3>2
  <2> QED BY <2>1, <2>2
<1> QED BY <1>2 DEF OneBatch, r

\* If one frame is a batch it is alone.
LEMMA PopOne ==
  ASSUME NEW st \in Seq(Frame), st # <<>>, OneBatch(st)
  PROVE  /\ OneBatch(Tail(st))
         /\ (Head(st).kind = "batch" => \A g \in Frames(Tail(st)) : g.kind # "batch")
<1> DEFINE r == Tail(st)
<1>1. /\ r \in Seq(Frame) /\ Len(r) = Len(st) - 1 /\ \A n \in DOMAIN r : r[n] = st[n + 1]
      /\ Head(st) = st[1]
  BY PopFrames
<1> HIDE DEF r
<1>2. DOMAIN r = 1 .. Len(r) /\ DOMAIN st = 1 .. Len(st) /\ Len(st) \in Nat /\ Len(r) \in Nat
  BY <1>1
<1>3. \A n \in DOMAIN r : n + 1 \in DOMAIN st /\ n + 1 # 1 /\ r[n] = st[n + 1]
  BY <1>1, <1>2
<1>4. 1 \in DOMAIN st
  BY <1>1, <1>2
<1>5. ASSUME NEW n \in DOMAIN r, NEW m \in DOMAIN r, r[n].kind = "batch", r[m].kind = "batch" PROVE n = m
  <2>1. n + 1 = m + 1
    BY <1>3, <1>5 DEF OneBatch
  <2> QED BY <1>2, <2>1
<1>6. ASSUME Head(st).kind = "batch", NEW g \in Frames(r) PROVE g.kind # "batch"
  BY <1>1, <1>3, <1>4, <1>6 DEF OneBatch, Frames
<1> QED BY <1>5, <1>6 DEF OneBatch, r

\* What may be on the stack below its newest frame: a batch whose message was
\* dropped and whoever waits for it, or whoever waits for the batch on top.
LEMMA Beneath ==
  ASSUME NEW st \in Seq(Frame), st # <<>>, Nested(st)
  PROVE  /\ Head(st).kind \in {"consume", "writable"} => Tail(st) = <<>>
         /\ \A f \in Frames(Tail(st)) :
              /\ f.kind = "batch" => f.left = 0 /\ \E g \in Frames(st) : g.kind = "dropped"
              /\ f.kind \in {"send", "end"} =>
                   \/ \E g \in Frames(st) : g.kind = "dropped"
                   \/ Head(st).kind = "batch"
<1> DEFINE r == Tail(st)
<1>1. /\ r \in Seq(Frame) /\ Len(r) = Len(st) - 1 /\ \A n \in DOMAIN r : r[n] = st[n + 1]
      /\ Head(st) = st[1]
  BY PopFrames
<1>2. r # <<>> => Over(Head(st), Head(r))
  BY PopNested
<1> HIDE DEF r
<1>3. DOMAIN r = 1 .. Len(r) /\ DOMAIN st = 1 .. Len(st) /\ Len(st) \in Nat /\ Len(r) \in Nat
  BY <1>1
<1>4. ASSUME NEW n \in DOMAIN r
      PROVE  /\ r[n].kind = "batch" => r[n].left = 0 /\ \E g \in Frames(st) : g.kind = "dropped"
             /\ r[n].kind \in {"send", "end"} => (\E g \in Frames(st) : g.kind = "dropped") \/ Head(st).kind = "batch"
  <2>1. n \in 1 .. Len(st) - 1 /\ n \in DOMAIN st /\ r[n] = st[n + 1]
    BY <1>1, <1>3
  <2>2. Over(st[n], st[n + 1]) /\ st[n] \in Frames(st)
    BY <2>1 DEF Nested, Frames
  <2>3. r[n].kind = "batch" => r[n].left = 0 /\ st[n].kind = "dropped"
    BY <2>1, <2>2 DEF Over
  <2>4. r[n].kind \in {"send", "end"} => st[n].kind = "batch"
    BY <2>1, <2>2 DEF Over
  <2>5. CASE n = 1
    BY <1>1, <2>2, <2>3, <2>4, <2>5
  <2>6. CASE n # 1
    <3>1. n - 1 \in 1 .. Len(st) - 1 /\ n - 1 \in DOMAIN st /\ (n - 1) + 1 = n
      BY <1>3, <2>1, <2>6
    <3>2. Over(st[n - 1], st[(n - 1) + 1]) /\ st[n - 1] \in Frames(st)
      BY <3>1 DEF Nested, Frames
    <3>3. st[n].kind = "batch" => st[n - 1].kind = "dropped"
      BY <3>1, <3>2 DEF Over
    <3> QED BY <2>2, <2>3, <2>4, <3>2, <3>3
  <2> QED BY <2>5, <2>6
<1>5. Head(st).kind \in {"consume", "writable"} => r = <<>>
  BY <1>2 DEF Over
<1> QED BY <1>4, <1>5 DEF Frames, r

\* Nobody who waits for a batch is on the stack of who may call c, unless a
\* dropped handler may.
LEMMA Asked ==
  ASSUME IInv, NEW c, MayCall(c)
  PROVE  /\ stack # <<>> => Head(stack).kind \in AppKinds
         /\ \A f \in Frames(stack) :
              /\ c \in CallsIn(f.kind) /\ (f.kind = "batch" => f.left = 0)
              /\ f.kind \in {"batch", "dropped", "send", "end"} => MaxBackpressure # 0 /\ c \in DroppedCalls
<1>1. stack \in Seq(Frame) /\ Nested(stack) /\ \A f \in Frames(stack) : f.kind = "dropped" => MaxBackpressure # 0
  BY DEF IInv, Typed, Stacked, Framed, Fits
<1>2. \A f \in Frames(stack) : c \in CallsIn(f.kind)
  BY DEF MayCall, Frames
<1>3. stack # <<>> => Head(stack).kind \in AppKinds
  BY DEF MayCall, Idle, Running, Top, AppKinds
<1>4. ASSUME NEW g \in Frames(stack), g.kind = "dropped" PROVE MaxBackpressure # 0 /\ c \in DroppedCalls
  <2>1. c \in CallsIn("dropped")
    BY <1>2, <1>4
  <2> QED BY <1>1, <1>4, <2>1 DEF CallsIn
<1>5. CASE stack = <<>>
  BY <1>2, <1>5, NoFrames
<1>6. CASE stack # <<>>
  <2>1. Frames(stack) = {Head(stack)} \cup Frames(Tail(stack))
    BY <1>1, <1>6, PopFrames
  <2>2. \A f \in Frames(Tail(stack)) :
          /\ f.kind = "batch" => f.left = 0 /\ \E g \in Frames(stack) : g.kind = "dropped"
          /\ f.kind \in {"send", "end"} =>
                   \/ \E g \in Frames(stack) : g.kind = "dropped"
                   \/ Head(stack).kind = "batch"
    BY <1>1, <1>6, Beneath
  <2>3. Head(stack).kind \notin {"batch", "send", "end"}
    BY <1>3, <1>6 DEF AppKinds
  <2> QED BY <1>2, <1>3, <1>4, <2>1, <2>2, <2>3
<1> QED BY <1>5, <1>6

\* What waits on the stack may go on to do so if the sockets and those that are
\* ending change.
LEMMA FitsAfter ==
  ASSUME NEW f, NEW F, NEW G, NEW i, NEW e, NEW j, NEW d, Fits(f, F, i, e),
         f.kind = "batch" => f.left = 0, j.open \subseteq i.open, e \subseteq d,
         f.kind = "send" /\ NoEndInDrop /\ f.sub \notin e => f.sub \notin d \/ f.sub \notin j.open,
         f.kind = "end" /\ MaxBackpressure = 0 /\ f.sub \notin i.shut => f.sub \notin j.shut,
         f.kind = "writable" /\ NoLongInDrain /\ Marked(i, f.sub) => Marked(j, f.sub)
  PROVE  Fits(f, G, j, d)
BY DEF Fits

\* The stack stays as it is while the sockets and those that are ending change.
LEMMA FramedStays ==
  ASSUME NEW st, NEW i, NEW e, NEW j, NEW d, Framed(st, i, e),
         j.open \subseteq i.open, e \subseteq d,
         \A f \in Frames(st) :
           /\ f.kind = "batch" => f.left = 0
           /\ f.kind = "send" /\ NoEndInDrop /\ f.sub \notin e => f.sub \notin d \/ f.sub \notin j.open
           /\ f.kind = "end" /\ MaxBackpressure = 0 /\ f.sub \notin i.shut => f.sub \notin j.shut
           /\ f.kind = "writable" /\ NoLongInDrain /\ Marked(i, f.sub) => Marked(j, f.sub)
  PROVE  Framed(st, j, d)
BY FitsAfter DEF Framed

\* The newest frame returns.
LEMMA FramedPops ==
  ASSUME NEW st \in Seq(Frame), st # <<>>, NEW i, NEW e, NEW j, Framed(st, i, e),
         j.open \subseteq i.open,
         \A f \in Frames(Tail(st)) :
           /\ f.kind = "end" /\ MaxBackpressure = 0 /\ f.sub \notin i.shut => f.sub \notin j.shut
           /\ f.kind = "writable" /\ NoLongInDrain /\ Marked(i, f.sub) => Marked(j, f.sub)
  PROVE  Framed(Tail(st), j, e)
<1>1. Nested(Tail(st)) /\ Frames(Tail(st)) \subseteq Frames(st)
  BY PopNested, PopFrames DEF Framed
<1>2. \A f \in Frames(Tail(st)) : f.kind = "batch" => f.left = 0
  BY Beneath DEF Framed
<1>3. ASSUME NEW f \in Frames(Tail(st)) PROVE Fits(f, Frames(Tail(st)), j, e)
  <2>1. Fits(f, Frames(st), i, e)
    BY <1>1, <1>3 DEF Framed
  <2> QED BY <1>2, <1>3, <2>1, FitsAfter
<1> QED BY <1>1, <1>3 DEF Framed

\* A frame is pushed that fits what is there.
LEMMA FramedPushes ==
  ASSUME NEW st \in Seq(Frame), NEW f \in Frame, NEW i, NEW e, Framed(st, i, e),
         Fits(f, {f} \cup Frames(st), i, e), st = <<>> => f.kind # "dropped", st # <<>> => Over(f, Head(st))
  PROVE  Framed(<<f>> \o st, i, e)
<1> DEFINE r == <<f>> \o st
<1>1. Frames(r) = {f} \cup Frames(st) /\ Nested(r)
  BY PushFrames, PushNested DEF Framed
<1> HIDE DEF r
<1>2. ASSUME NEW g \in Frames(st) PROVE Fits(g, Frames(r), i, e)
  <2>1. Fits(g, Frames(st), i, e)
    BY <1>2 DEF Framed
  <2> QED BY <1>1, <2>1 DEF Fits, Has
<1> QED BY <1>1, <1>2 DEF Framed, r

\* The cork buffer has been given back, or whoever has it is still there.
LEMMA LentAfter ==
  ASSUME NEW F, NEW G, NEW i, NEW j, NEW u, NEW v, Lent(F, i, u), j.corked \in {i.corked, NoSocket},
         \A f \in F : /\ f.kind \in {"consume", "cork", "batch"} /\ f.sub = j.corked => f \in G
                      /\ f.kind = "batch" /\ u => v
  PROVE  Lent(G, j, v)
BY DEF Lent

\* A socket that has sent leaves the marks of others.
LEMMA MarksKept ==
  ASSUME NEW i, NEW j, NEW s, About(i, j, s), Marked(i, s) => Marked(j, s), NEW r \in Sockets, Marked(i, r)
  PROVE  Marked(j, r)
BY DEF About, Marked, Sendable

\* What the invariant says of the state in short.
LEMMA Facts ==
  ASSUME IInv
  PROVE  /\ State(io) /\ Tidy(io) /\ Good(io, ending, sent) /\ io.open \in SUBSET Sockets
         /\ stack \in Seq(Frame) /\ sent \in [Sockets -> Nat] /\ Framed(stack, io, ending)
         /\ NoNestedDrain => OneBatch(stack) /\ Lent(Frames(stack), io, needsUncork)
         /\ \A s \in Sockets : sent[s] \in Nat /\ Passes(io, io, s)
         /\ MaxBackpressure = 0 => NoNestedDrain /\ NoEndInDrop /\ io.shut \subseteq ending
         /\ \A f \in Frames(stack) : f \in Frame /\ f.sub \in Sockets
         /\ NoSocket \notin Sockets
<1>1. State(io) /\ Tidy(io) /\ stack \in Seq(Frame) /\ sent \in [Sockets -> Nat] /\ Good(io, ending, sent)
      /\ Framed(stack, io, ending) /\ (NoNestedDrain => OneBatch(stack) /\ Lent(Frames(stack), io, needsUncork))
  BY DEF IInv, Typed, Good, Stacked
<1>2. \A s \in Sockets : sent[s] \in Nat /\ Passes(io, io, s)
  <2>1. \A s \in Sockets : Len(io.wire[s]) \in Nat
    BY <1>1, Fields, Cat
  <2> QED BY <1>1, <2>1 DEF Passes
<1>3. \A f \in Frames(stack) : f \in Frame /\ f.sub \in Sockets
  <2>1. \A n \in DOMAIN stack : stack[n] \in Frame
    BY <1>1
  <2> QED BY <2>1 DEF Frames, Frame
<1>4. MaxBackpressure = 0 => NoNestedDrain /\ NoEndInDrop /\ io.shut \subseteq ending
  BY <1>1 DEF Good, NoNestedDrain, NoEndInDrop
<1> QED BY <1>1, <1>2, <1>3, <1>4, Fields, AsyncSocketAssumption

-----------------------------------------------------------------------------
(* The actions.                                                            *)

\* A step of one socket, seen from the streams.
Step(s) ==
  \/ Passes(io, io', s) /\ sent[s] <= sent'[s] /\ \A r \in Sockets \ {s} : sent'[r] = sent[r]
  \/ io' = Closed(io, s) /\ sent' = sent

AfterEnd == \A s \in ending : ~OnStack("end", s) => sent'[s] = sent[s]

\* What a step keeps and what it does.
Keeps ==
  /\ IInv'
  /\ MaxBackpressure = 0 => \E s \in Sockets : Step(s)
  /\ NoEndInDrop => AfterEnd

\* The frame of a drain.
LEMMA BatchFrameIs ==
  ASSUME NEW s \in Sockets, NEW k \in Nat
  PROVE  LET b == BatchFrame(s, k) IN b \in Frame /\ b.kind = "batch" /\ b.sub = s
<1> DEFINE b == BatchFrame(s, k)
<1>1. Blank("batch", s) = [kind |-> "batch", sub |-> s, left |-> 0, first |-> FALSE, size |-> 0]
  BY Zenon DEF Blank
<1>2. b = [[kind |-> "batch", sub |-> s, left |-> 0, first |-> FALSE, size |-> 0]
             EXCEPT !.left = k, !.first = TRUE]
  BY <1>1, Zenon DEF BatchFrame
<1> HIDE DEF b
<1>3. b = [kind |-> "batch", sub |-> s, left |-> k, first |-> TRUE, size |-> 0]
  BY <1>2
<1>4. b \in Frame /\ b.kind = "batch" /\ b.sub = s
  BY <1>3 DEF Frame
<1> QED BY <1>4 DEF b

\* A batch of s and who waits for it are pushed.
LEMMA PushesBatch ==
  ASSUME IInv, MayCall("drain"), NEW s \in Sockets, NEW k \in Nat,
         NEW w \in Frame, w.kind \in {"send", "end"}, NEW e, Framed(stack, io, e),
         Fits(w, {w} \cup Frames(stack), io, e), s \notin e \/ (w.kind = "end" /\ w.sub = s)
  PROVE  LET st == <<BatchFrame(s, k), w>> \o stack
         IN  st \in Seq(Frame) /\ Stacked(st, io, e, needsUncork)
<1> DEFINE b == BatchFrame(s, k)
           t == <<w>> \o stack
           st == <<b>> \o t
<1>1. b \in Frame /\ b.kind = "batch" /\ b.sub = s
  BY BatchFrameIs
<1>2. <<b, w>> \o stack = st
  <2>1. stack \in Seq(Frame)
    BY Facts
  <2> QED BY <2>1, <1>1
<1> HIDE DEF b
<1>3. /\ stack \in Seq(Frame) /\ (NoNestedDrain => OneBatch(stack) /\ Lent(Frames(stack), io, needsUncork))
      /\ (stack # <<>> => Head(stack).kind \in AppKinds)
      /\ \A f \in Frames(stack) : f.kind \in {"batch", "dropped", "send", "end"} => ~NoNestedDrain
  BY Facts, Asked DEF NoNestedDrain
<1>4. t \in Seq(Frame) /\ t # <<>> /\ Head(t) = w /\ Frames(t) = {w} \cup Frames(stack)
  BY <1>3, PushFrames
<1>5. stack # <<>> => Over(w, Head(stack))
  BY <1>3 DEF Over, AppKinds
<1>6. Framed(t, io, e)
  BY <1>3, <1>5, FramedPushes
<1> HIDE DEF t
<1>7. Over(b, w)
  BY <1>1 DEF Over
<1>8. Fits(b, {b} \cup Frames(t), io, e)
  BY <1>1, <1>4 DEF Fits, Has
<1>9. st \in Seq(Frame) /\ Frames(st) = {b} \cup Frames(t) /\ Framed(st, io, e)
  BY <1>1, <1>4, <1>6, <1>7, <1>8, PushFrames, FramedPushes
<1>10. ASSUME NoNestedDrain PROVE OneBatch(st) /\ Lent(Frames(st), io, needsUncork)
  <2>1. \A f \in Frames(t) : f.kind # "batch"
    BY <1>3, <1>4, <1>10
  <2>2. OneBatch(t)
    BY <1>3, <1>10, PushOne DEF t
  <2>3. OneBatch(st)
    BY <1>1, <1>4, <2>1, <2>2, PushOne
  <2>4. Lent(Frames(st), io, needsUncork)
    BY <1>3, <1>4, <1>9, <1>10 DEF Lent
  <2> QED BY <2>3, <2>4
<1> HIDE DEF st
<1>11. st \in Seq(Frame) /\ Stacked(st, io, e, needsUncork)
  BY <1>9, <1>10 DEF Stacked
<1> QED BY <1>2, <1>11 DEF b

\* The bytes of a send, where the count of those before it is its socket's.
LEMMA NewBytesIs ==
  ASSUME IInv, NEW s \in Sockets, NEW m \in Nat \ {0}
  PROVE  /\ NewBytes(s, m) = New(s, sent[s], m) /\ New(s, sent[s], m) \in Bytes
         /\ New(s, sent[s], m) # <<>>
<1>1. sent[s] \in Nat
  BY Facts
<1>2. New(s, sent[s], m) \in Bytes /\ Len(New(s, sent[s], m)) = m
  BY <1>1, NewIs
<1> QED BY <1>2, EmptySeq DEF NewBytes, New

\* The effect of a send of n bytes from the sockets as they are.
LEMMA Sending ==
  ASSUME IInv, NEW s \in Sockets, NEW n \in Nat, NEW m \in Nat \ {0},
         NEW o \in SendFrame(io, s, n, NewBytes(s, m)),
         NEW d, More(sent, d, s, m), MaxBackpressure = 0 => s \notin io.shut
  PROVE  /\ Good(o.io, ending, d) /\ d \in [Sockets -> Nat] /\ Passes(io, o.io, s) /\ sent[s] <= d[s]
         /\ \A r \in Sockets \ {s} : d[r] = sent[r]
         /\ o.io.open = io.open /\ o.io.shut = io.shut /\ o.io.corked \in {io.corked, NoSocket}
         /\ o.status \in {"success", "backpressure"}
         /\ s \in io.open /\ o.status = "success" /\ o.io.corked # s => Waiting(o.io, s) = <<>>
         /\ n < CorkSize \/ s \in Subscribed => \A r \in Sockets : Marked(io, r) => Marked(o.io, r)
<1>1. State(io) /\ Tidy(io) /\ Good(io, ending, sent) /\ sent \in [Sockets -> Nat]
  BY Facts
<1>2. /\ NewBytes(s, m) = New(s, sent[s], m) /\ New(s, sent[s], m) \in Bytes
      /\ New(s, sent[s], m) # <<>>
  BY <1>1, NewBytesIs
<1> DEFINE b == New(s, sent[s], m)
<1>3. o \in SendFrame(io, s, n, b)
  BY <1>2
<1>4. b \in Bytes /\ b # <<>>
  BY <1>2
<1> HIDE DEF b
<1>5. /\ SendsFrame(io, o, s, b)
      /\ n < CorkSize \/ s \in Subscribed => (Marked(io, s) => Marked(o.io, s))
  BY <1>1, <1>3, <1>4, SendFrameIs
<1>6. Sends(io, o.io, s, b)
  BY <1>5 DEF SendsFrame
<1>7. Good(o.io, ending, d) /\ d \in [Sockets -> Nat]
  <2>1. Sends(io, o.io, s, New(s, sent[s], m))
    BY <1>6 DEF b
  <2> QED BY <1>1, <2>1, GoodSends
<1>8. Passes(io, o.io, s)
  BY <1>6, PassesSends
<1>9. sent[s] <= d[s] /\ \A r \in Sockets \ {s} : d[r] = sent[r]
  BY <1>1 DEF More
<1>10. About(io, o.io, s)
  BY <1>6 DEF Sends
<1>11. ASSUME n < CorkSize \/ s \in Subscribed, NEW r \in Sockets, Marked(io, r) PROVE Marked(o.io, r)
  BY <1>5, <1>10, <1>11, MarksKept
<1>12. o.io.open = io.open /\ o.io.shut = io.shut
  BY <1>10 DEF About
<1> QED BY <1>5, <1>7, <1>8, <1>9, <1>11, <1>12 DEF SendsFrame

\* What a step has to keep.
LEMMA Kept ==
  ASSUME IInv, Typed', Good(io', ending', sent'), Stacked(stack', io', ending', needsUncork'),
         NoNestedDrain => fault' # "cork buffer of another socket" \/ fault' = fault
  PROVE  IInv'
BY DEF IInv, NoForeignCork

\* send, up to the drain of what is in front of the message.
LEMMA SendMessageKeeps ==
  ASSUME IInv, NEW s \in Sockets, NEW n \in Sizes, SendMessage(s, n)
  PROVE  Keeps
<1> DEFINE c == IF n >= CorkSize THEN "sendLong" ELSE "send"
<1>1. /\ n \in Nat /\ Header \in Nat \ {0} /\ CorkSize \in Nat
      /\ MayCall(c) /\ s \in io.open /\ s \notin ending
      /\ UNCHANGED <<ending, timedOut, needsUncork, fault>>
  BY WebSocketSendAssumption, AsyncSocketAssumption DEF SendMessage, Live
<1>2. PICK k \in Behind(s) :
        \/ /\ k = 0
           /\ sent' = [sent EXCEPT ![s] = @ + n + Header]
           /\ \E o \in SendFrame(io, s, n, NewBytes(s, n + Header)) : io' = o.io
           /\ UNCHANGED stack
        \/ /\ k > 0
           /\ stack' = <<BatchFrame(s, k), [Blank("send", s) EXCEPT !.size = n]>> \o stack
           /\ UNCHANGED <<io, sent>>
  BY DEF SendMessage
<1>3. /\ State(io) /\ stack \in Seq(Frame) /\ sent \in [Sockets -> Nat] /\ Framed(stack, io, ending)
      /\ (NoNestedDrain => OneBatch(stack) /\ Lent(Frames(stack), io, needsUncork))
      /\ sent[s] \in Nat /\ Passes(io, io, s) /\ Good(io, ending, sent)
      /\ (MaxBackpressure = 0 => io.shut \subseteq ending)
      /\ \A f \in Frames(stack) : f \in Frame /\ f.sub \in Sockets
  BY Facts
<1>4. \A f \in Frames(stack) : c \in CallsIn(f.kind) /\ (f.kind = "batch" => f.left = 0)
  BY <1>1, Asked
<1> HIDE DEF c
<1>5. CASE k = 0
  <2>1. PICK o \in SendFrame(io, s, n, NewBytes(s, n + Header)) : io' = o.io
    BY <1>2, <1>5
  <2>2. UNCHANGED stack /\ sent' = [sent EXCEPT ![s] = @ + n + Header]
    BY <1>2, <1>5
  <2>3. More(sent, sent', s, n + Header)
    <3>1. sent[s] + n + Header = sent[s] + (n + Header)
      BY <1>1, <1>3
    <3>2. sent' = [sent EXCEPT ![s] = sent[s] + n + Header]
      BY <2>2
    <3> QED BY <3>1, <3>2 DEF More
  <2>4. MaxBackpressure = 0 => s \notin io.shut
    BY <1>1, <1>3
  <2>5. /\ Good(o.io, ending, sent') /\ sent' \in [Sockets -> Nat] /\ Passes(io, o.io, s) /\ sent[s] <= sent'[s]
        /\ \A r \in Sockets \ {s} : sent'[r] = sent[r]
        /\ o.io.open = io.open /\ o.io.shut = io.shut /\ o.io.corked \in {io.corked, NoSocket}
        /\ n < CorkSize \/ s \in Subscribed => \A r \in Sockets : Marked(io, r) => Marked(o.io, r)
    <3> DEFINE d == sent'
               m == n + Header
    <3>1. More(sent, d, s, m) /\ o \in SendFrame(io, s, n, NewBytes(s, m)) /\ m \in Nat \ {0}
      BY <1>1, <2>3
    <3> HIDE DEF d, m
    <3>2. /\ Good(o.io, ending, d) /\ d \in [Sockets -> Nat] /\ Passes(io, o.io, s) /\ sent[s] <= d[s]
          /\ \A r \in Sockets \ {s} : d[r] = sent[r]
          /\ o.io.open = io.open /\ o.io.shut = io.shut /\ o.io.corked \in {io.corked, NoSocket}
          /\ n < CorkSize \/ s \in Subscribed => \A r \in Sockets : Marked(io, r) => Marked(o.io, r)
      BY ONLY IInv, s \in Sockets, <1>1, <2>4, <3>1, Sending
    <3> QED BY <3>2 DEF d
  <2>6. ASSUME NEW f \in Frames(stack), f.kind = "writable", NoLongInDrain, Marked(io, f.sub)
        PROVE  Marked(io', f.sub)
    <3>1. n < CorkSize
      <4>1. c \in DrainCalls
        BY <1>4, <2>6 DEF CallsIn
      <4> QED BY <1>1, <2>6, <4>1 DEF NoLongInDrain, c
    <3> QED BY <1>3, <2>1, <2>5, <2>6, <3>1
  <2>7. Framed(stack, io', ending)
    BY <1>3, <1>4, <2>1, <2>5, <2>6, FramedStays
  <2>8. NoNestedDrain => Lent(Frames(stack), io', needsUncork)
    BY <1>3, <2>1, <2>5, LentAfter
  <2>9. Stacked(stack', io', ending', needsUncork')
    BY <1>1, <1>3, <2>2, <2>7, <2>8 DEF Stacked
  <2>10. Typed'
    BY <1>1, <1>3, <2>2, <2>5 DEF IInv, Typed
  <2>11. IInv'
    BY <1>1, <2>1, <2>5, <2>9, <2>10, Kept
  <2>12. Step(s)
    BY <2>1, <2>5 DEF Step
  <2>13. AfterEnd
    BY <1>1, <2>5, s \notin ending DEF AfterEnd, IInv, Typed
  <2> QED BY <2>11, <2>12, <2>13 DEF Keeps
<1>6. CASE k > 0
  <2>1. stack' = <<BatchFrame(s, k), [Blank("send", s) EXCEPT !.size = n]>> \o stack /\ UNCHANGED <<io, sent>>
    BY <1>2, <1>6
  <2>2. s \in Subscribed /\ MayCall("drain") /\ k \in Nat
    BY <1>6, WebSocketSendAssumption DEF Behind
  <2> DEFINE w == [Blank("send", s) EXCEPT !.size = n]
  <2>3. w \in Frame /\ w.kind = "send" /\ w.sub = s
    <3>1. Blank("send", s) = [kind |-> "send", sub |-> s, left |-> 0, first |-> FALSE, size |-> 0]
      BY Zenon DEF Blank
    <3>2. w = [[kind |-> "send", sub |-> s, left |-> 0, first |-> FALSE, size |-> 0] EXCEPT !.size = n]
      BY <3>1, Zenon
    <3> HIDE DEF w
    <3> QED BY <1>1, <3>2 DEF Frame
  <2> HIDE DEF w
  <2>4. Fits(w, {w} \cup Frames(stack), io, ending)
    BY <1>1, <2>2, <2>3 DEF Fits
  <2>5. stack' \in Seq(Frame) /\ Stacked(stack', io, ending, needsUncork)
    <3> DEFINE st == <<BatchFrame(s, k), w>> \o stack
    <3>1. stack' = st
      BY <2>1 DEF w
    <3>2. st \in Seq(Frame) /\ Stacked(st, io, ending, needsUncork)
      BY <1>1, <1>3, <2>2, <2>3, <2>4, PushesBatch
    <3> QED BY <3>1, <3>2
  <2>6. Typed'
    BY <1>1, <2>1, <2>5 DEF IInv, Typed
  <2>7. IInv'
    BY <1>1, <1>3, <2>1, <2>5, <2>6, Kept
  <2>8. Step(s)
    BY <1>3, <2>1 DEF Step
  <2>9. AfterEnd
    BY <2>1 DEF AfterEnd
  <2> QED BY <2>7, <2>8, <2>9 DEF Keeps
<1>7. k \in Nat
  BY WebSocketSendAssumption DEF Behind
<1> QED BY <1>5, <1>6, <1>7

\* The newest frame returns, after it has given back the cork buffer.
LEMMA Returns ==
  ASSUME IInv, stack # <<>>, NEW j, j.open \subseteq io.open, j.corked \in {io.corked, NoSocket},
         Head(stack).kind \in {"consume", "cork", "batch"} => j.corked # Head(stack).sub,
         \A f \in Frames(Tail(stack)) :
           /\ f.kind = "end" /\ MaxBackpressure = 0 /\ f.sub \notin io.shut => f.sub \notin j.shut
           /\ f.kind = "writable" /\ NoLongInDrain /\ Marked(io, f.sub) => Marked(j, f.sub)
  PROVE  Below \in Seq(Frame) /\ Stacked(Below, j, ending, needsUncork)
<1>1. /\ stack \in Seq(Frame) /\ Framed(stack, io, ending)
      /\ (NoNestedDrain => OneBatch(stack) /\ Lent(Frames(stack), io, needsUncork))
  BY Facts
<1>2. Tail(stack) \in Seq(Frame) /\ Frames(stack) = {Head(stack)} \cup Frames(Tail(stack))
  BY <1>1, PopFrames
<1>3. Framed(Tail(stack), j, ending)
  BY <1>1, FramedPops
<1>4. ASSUME NoNestedDrain PROVE OneBatch(Tail(stack)) /\ Lent(Frames(Tail(stack)), j, needsUncork)
  <2>1. OneBatch(Tail(stack))
    BY <1>1, <1>4, PopOne
  <2>2. Lent(Frames(Tail(stack)), j, needsUncork)
    BY <1>1, <1>2, <1>4, LentAfter
  <2> QED BY <2>1, <2>2
<1> QED BY <1>2, <1>3, <1>4 DEF Stacked, Below

\* The newest frame, and what may be below it if no message is ever dropped.
LEMMA TopIs ==
  ASSUME IInv, stack # <<>>
  PROVE  /\ Top \in Frame /\ Top.sub \in Sockets /\ Top.size \in Nat /\ Top.left \in Nat
         /\ Fits(Top, Frames(stack), io, ending) /\ Top = Head(stack) /\ Top \in Frames(stack)
         /\ Frames(Below) \subseteq Frames(stack)
         /\ MaxBackpressure = 0 /\ Top.kind # "batch" => \A f \in Frames(Below) : f.kind \notin {"batch", "send", "end"}
         /\ Top.kind \in {"consume", "writable"} => Below = <<>>
<1>1. stack \in Seq(Frame) /\ Framed(stack, io, ending)
  BY Facts
<1>2. Head(stack) \in Frame /\ Frames(stack) = {Head(stack)} \cup Frames(Tail(stack))
  BY <1>1, PopFrames
<1>3. /\ Head(stack).kind \in {"consume", "writable"} => Tail(stack) = <<>>
      /\ \A f \in Frames(Tail(stack)) :
           /\ f.kind = "batch" => f.left = 0 /\ \E g \in Frames(stack) : g.kind = "dropped"
           /\ f.kind \in {"send", "end"} =>
                   \/ \E g \in Frames(stack) : g.kind = "dropped"
                   \/ Head(stack).kind = "batch"
  BY <1>1, Beneath DEF Framed
<1>4. \A g \in Frames(stack) : Fits(g, Frames(stack), io, ending)
  BY <1>1 DEF Framed
<1>5. \A g \in Frames(stack) : g.kind = "dropped" => MaxBackpressure # 0
  BY <1>4 DEF Fits
<1>6. Head(stack).sub \in Sockets /\ Head(stack).size \in Nat /\ Head(stack).left \in Nat
  BY <1>2 DEF Frame
<1> QED BY <1>2, <1>3, <1>4, <1>5, <1>6 DEF Top, Below

\* send, after that drain.
LEMMA FinishSendKeeps == ASSUME IInv, FinishSend PROVE Keeps
<1>0. stack # <<>>
  BY DEF FinishSend, Running
<1> SUFFICES ASSUME NEW s \in Sockets, s = Top.sub, NEW n \in Nat, n = Top.size PROVE Keeps
  BY <1>0, TopIs
<1>1. /\ stack # <<>> /\ Top.kind = "send" /\ stack' = Below /\ UNCHANGED <<ending, timedOut, needsUncork>>
      /\ IF s \notin io.open
         THEN /\ fault' = "buffer of a closed socket"
              /\ UNCHANGED <<io, sent>>
         ELSE /\ \E o \in SendFrame(io, s, n, NewBytes(s, n + Header)) : io' = o.io
              /\ sent' = [sent EXCEPT ![s] = @ + n + Header]
              /\ UNCHANGED fault
  BY DEF FinishSend, Running
<1>2. /\ s \in Sockets /\ n \in Nat /\ Fits(Top, Frames(stack), io, ending) /\ Top = Head(stack)
      /\ Frames(Below) \subseteq Frames(stack)
  BY <1>0, TopIs
<1>3. /\ sent \in [Sockets -> Nat] /\ sent[s] \in Nat /\ Passes(io, io, s) /\ Good(io, ending, sent)
      /\ (MaxBackpressure = 0 => NoEndInDrop /\ io.shut \subseteq ending)
      /\ \A f \in Frames(stack) : f \in Frame /\ f.sub \in Sockets
  BY <1>2, Facts
<1>4. s \in Subscribed /\ (NoEndInDrop => s \notin ending \/ s \notin io.open)
  BY <1>1, <1>2 DEF Fits
<1>5. Header \in Nat \ {0} /\ CorkSize \in Nat
  BY WebSocketSendAssumption, AsyncSocketAssumption
<1>6. CASE s \notin io.open
  <2>1. fault' = "buffer of a closed socket" /\ io' = io /\ sent' = sent
    BY <1>1, <1>6
  <2>2. Below \in Seq(Frame) /\ Stacked(Below, io, ending, needsUncork)
    BY <1>1, <1>2, Returns
  <2>3. Typed'
    BY <1>1, <2>1, <2>2 DEF IInv, Typed, Faults
  <2>4. IInv'
    BY <1>1, <1>3, <2>1, <2>2, <2>3, Kept
  <2>5. Step(s)
    <3>1. sent'[s] = sent[s] /\ sent[s] \in Nat
      BY <1>3, <2>1
    <3>2. sent[s] <= sent'[s]
      BY ONLY <3>1
    <3> QED BY <1>3, <2>1, <3>2 DEF Step
  <2>6. AfterEnd
    BY <2>1 DEF AfterEnd
  <2> QED BY <1>2, <2>4, <2>5, <2>6 DEF Keeps
<1>7. CASE s \in io.open
  <2>1. PICK o \in SendFrame(io, s, n, NewBytes(s, n + Header)) : io' = o.io
    BY <1>1, <1>7
  <2>2. UNCHANGED fault /\ sent' = [sent EXCEPT ![s] = sent[s] + n + Header]
    BY <1>1, <1>7
  <2> DEFINE d == sent'
             m == n + Header
  <2>3. More(sent, d, s, m) /\ o \in SendFrame(io, s, n, NewBytes(s, m)) /\ m \in Nat \ {0}
    <3>1. sent[s] + n + Header = sent[s] + (n + Header) /\ m \in Nat \ {0}
      BY <1>2, <1>3, <1>5
    <3> QED BY <2>2, <3>1 DEF More
  <2>4. MaxBackpressure = 0 => s \notin io.shut
    BY <1>3, <1>4, <1>7
  <2> HIDE DEF d, m
  <2>5. /\ Good(o.io, ending, d) /\ d \in [Sockets -> Nat] /\ Passes(io, o.io, s) /\ sent[s] <= d[s]
        /\ \A r \in Sockets \ {s} : d[r] = sent[r]
        /\ o.io.open = io.open /\ o.io.shut = io.shut /\ o.io.corked \in {io.corked, NoSocket}
        /\ n < CorkSize \/ s \in Subscribed => \A r \in Sockets : Marked(io, r) => Marked(o.io, r)
    BY ONLY IInv, s \in Sockets, n \in Nat, <1>5, <2>3, <2>4, Sending
  <2>6. Below \in Seq(Frame) /\ Stacked(Below, o.io, ending, needsUncork)
    <3> DEFINE j == o.io
    <3>1. \A f \in Frames(Tail(stack)) : Marked(io, f.sub) => Marked(j, f.sub)
      BY <1>2, <1>3, <1>4, <2>5 DEF Below
    <3> QED BY <1>1, <1>2, <2>5, <3>1, Returns
  <2>7. Typed'
    BY <1>1, <2>2, <2>5, <2>6 DEF IInv, Typed, d
  <2>8. IInv'
    BY <1>1, <2>1, <2>2, <2>5, <2>6, <2>7, Kept DEF d
  <2>9. Step(s)
    BY <2>1, <2>5 DEF Step, d
  <2>10. NoEndInDrop => AfterEnd
    BY <1>4, <1>7, <2>5 DEF AfterEnd, IInv, Typed, d
  <2> QED BY <1>2, <2>8, <2>9, <2>10 DEF Keeps
<1> QED BY <1>6, <1>7

\* FIN is sent, if it may be.
LEMMA Finning ==
  ASSUME NEW i, NEW e, NEW c, NEW s \in Sockets, Good(i, e, c), NEW now \in BOOLEAN, now => s \in e,
         MaxBackpressure = 0 /\ s \in i.open /\ now => Waiting(i, s) = <<>>,
         NEW j, j = IF now THEN Shutdown(i, s) ELSE i
  PROVE  /\ Good(j, e, c) /\ Passes(i, j, s) /\ j.open = i.open /\ j.shut \in {i.shut, i.shut \cup {s}}
         /\ j.corked = i.corked /\ \A r \in Sockets : Marked(i, r) => Marked(j, r)
<1>1. Len(i.wire[s]) \in Nat
  BY Fields, Cat DEF Good
<1>2. Passes(i, i, s)
  BY <1>1 DEF Passes
<1>3. CASE ~now
  BY <1>2, <1>3
<1>4. CASE now
  <2>1. (MaxBackpressure = 0 /\ ~Refuses(i, s) => Waiting(i, s) = <<>>) /\ j = Shutdown(i, s)
    BY <1>4 DEF Refuses
  <2>2. /\ Good(j, e, c) /\ Passes(i, j, s) /\ Same(i, j) /\ j.open = i.open /\ j.failed = i.failed
        /\ j.shut \in {i.shut, i.shut \cup {s}}
    BY ONLY Good(i, e, c), s \in Sockets, now => s \in e, <1>4, <2>1, GoodShutdown
  <2>3. \A r \in Sockets : Marked(i, r) => Marked(j, r)
    BY <2>2 DEF Same, Marked, Sendable
  <2> QED BY <1>4, <2>2, <2>3 DEF Same
<1> QED BY <1>3, <1>4

\* What sends nothing keeps the sockets good.
LEMMA GoodStill ==
  ASSUME NEW i, NEW j, NEW e, NEW c \in [Sockets -> Nat], NEW s \in Sockets, Good(i, e, c), Sends(i, j, s, <<>>)
  PROVE  Good(j, e, c) /\ Passes(i, j, s)
<1>1. c[s] \in Nat /\ c[s] + 0 = c[s]
  OBVIOUS
<1>2. New(s, c[s], 0) = <<>>
  BY <1>1, NewIs
<1>3. More(c, c, s, 0)
  BY <1>1 DEF More
<1>4. Sends(i, j, s, New(s, c[s], 0))
  BY <1>2
<1> QED BY <1>3, <1>4, GoodSends, PassesSends

\* The close frame is sent or dropped, and FIN follows or not.
LEMMA ClosingIs ==
  ASSUME IInv, NEW s \in Sockets, NEW outcomes, SendClose(s, outcomes),
         \/ outcomes = {Sent(io, "dropped")} /\ MaxBackpressure # 0
         \/ outcomes = SendFrame(io, s, 0, NewBytes(s, CloseSize)),
         NEW e, ending \subseteq e, s \in e, MaxBackpressure = 0 => s \notin io.shut
  PROVE  /\ Good(io', e, sent') /\ sent' \in [Sockets -> Nat] /\ Step(s)
         /\ \A r \in Sockets \ {s} : sent'[r] = sent[r]
         /\ io'.open = io.open /\ io'.shut \in {io.shut, io.shut \cup {s}}
         /\ io'.corked \in {io.corked, NoSocket}
         /\ \A r \in Sockets : Marked(io, r) => Marked(io', r)
<1> DEFINE j == io'
           d == sent'
<1>1. PICK o \in outcomes :
        /\ j = IF FinNow(o.io, s, o.status) THEN Shutdown(o.io, s) ELSE o.io
        /\ d = IF o.status = "dropped" THEN sent ELSE [sent EXCEPT ![s] = @ + CloseSize]
  BY DEF SendClose
<1>2. /\ State(io) /\ sent \in [Sockets -> Nat] /\ sent[s] \in Nat /\ Passes(io, io, s) /\ Good(io, ending, sent)
  BY Facts
<1>3. CloseSize \in Nat \ {0} /\ CorkSize \in Nat /\ 0 < CorkSize
  BY WebSocketSendAssumption, AsyncSocketAssumption
<1> DEFINE k == o.io
           now == FinNow(k, s, o.status)
<1>4. now \in BOOLEAN
  BY DEF FinNow
<1>a. j = IF now THEN Shutdown(k, s) ELSE k
  BY <1>1
<1> HIDE DEF j, d
  \* What is common to a frame that is sent and one that is dropped.
<1>5. ASSUME Good(k, ending, d), d \in [Sockets -> Nat], Passes(io, k, s), sent[s] <= d[s],
             \A r \in Sockets \ {s} : d[r] = sent[r],
             k.open = io.open, k.shut = io.shut, k.corked \in {io.corked, NoSocket},
             \A r \in Sockets : Marked(io, r) => Marked(k, r),
             MaxBackpressure = 0 /\ s \in k.open /\ now => Waiting(k, s) = <<>>
      PROVE  /\ Good(j, e, d) /\ Passes(io, j, s) /\ j.open = io.open
             /\ j.shut \in {io.shut, io.shut \cup {s}} /\ j.corked \in {io.corked, NoSocket}
             /\ \A r \in Sockets : Marked(io, r) => Marked(j, r)
  <2> HIDE DEF now, k
  <2>1. Good(k, e, d)
    BY <1>5, GoodEnding
  <2>2. /\ Good(j, e, d) /\ Passes(k, j, s) /\ j.open = k.open /\ j.shut \in {k.shut, k.shut \cup {s}}
        /\ j.corked = k.corked /\ \A r \in Sockets : Marked(k, r) => Marked(j, r)
    <3>1. (now => s \in e) /\ (MaxBackpressure = 0 /\ s \in k.open /\ now => Waiting(k, s) = <<>>)
      BY <1>5
    <3> QED BY ONLY s \in Sockets, <1>4, <1>a, <2>1, <3>1, Finning
  <2>3. State(k) /\ State(j)
    BY <2>1, <2>2 DEF Good
  <2>4. Passes(io, j, s)
    BY <1>2, <1>5, <2>2, <2>3, PassesAfter
  <2> QED BY <1>5, <2>2, <2>4
<1>6. /\ Good(j, e, d) /\ Passes(io, j, s) /\ j.open = io.open
      /\ j.shut \in {io.shut, io.shut \cup {s}} /\ j.corked \in {io.corked, NoSocket}
      /\ \A r \in Sockets : Marked(io, r) => Marked(j, r)
      /\ d \in [Sockets -> Nat] /\ sent[s] <= d[s] /\ \A r \in Sockets \ {s} : d[r] = sent[r]
  <2>1. CASE outcomes = {Sent(io, "dropped")} /\ MaxBackpressure # 0
    <3>1. k = io /\ o.status = "dropped"
      BY <1>1, <2>1 DEF Sent
    <3>2. d = sent
      BY <1>1, <3>1
    <3>3. d \in [Sockets -> Nat] /\ sent[s] <= d[s] /\ \A r \in Sockets \ {s} : d[r] = sent[r]
      BY <1>2, <3>2
    <3> HIDE DEF k, now
    <3> QED BY <1>2, <1>5, <2>1, <3>1, <3>2, <3>3
  <2>2. CASE outcomes = SendFrame(io, s, 0, NewBytes(s, CloseSize))
    <3>1. o \in SendFrame(io, s, 0, NewBytes(s, CloseSize))
      BY <2>2
    <3> DEFINE f == [sent EXCEPT ![s] = @ + CloseSize]
    <3>2. More(sent, f, s, CloseSize)
      BY DEF More
    <3> HIDE DEF f
    <3>3. /\ Good(o.io, ending, f) /\ f \in [Sockets -> Nat] /\ Passes(io, o.io, s) /\ sent[s] <= f[s]
          /\ \A r \in Sockets \ {s} : f[r] = sent[r]
          /\ o.io.open = io.open /\ o.io.shut = io.shut /\ o.io.corked \in {io.corked, NoSocket}
          /\ o.status \in {"success", "backpressure"}
          /\ s \in io.open /\ o.status = "success" /\ o.io.corked # s => Waiting(o.io, s) = <<>>
          /\ 0 < CorkSize \/ s \in Subscribed => \A r \in Sockets : Marked(io, r) => Marked(o.io, r)
      BY ONLY IInv, s \in Sockets, <1>3, <3>1, <3>2, MaxBackpressure = 0 => s \notin io.shut, Sending
    <3>4. d = f
      BY <1>1, <3>3 DEF f
    <3>5. MaxBackpressure = 0 /\ s \in k.open /\ now => Waiting(k, s) = <<>>
      BY <3>3 DEF FinNow
    <3>6. \A r \in Sockets : Marked(io, r) => Marked(k, r)
      BY <1>3, <3>3
    <3> QED BY <1>5, <3>3, <3>4, <3>5, <3>6
  <2> QED BY <2>1, <2>2
<1>7. Step(s)
  BY <1>6 DEF Step, j, d
<1> QED BY <1>6, <1>7 DEF j, d

\* end, up to the drain of what is in front of the close frame.
LEMMA EndKeeps == ASSUME IInv, NEW s \in Sockets, End(s) PROVE Keeps
<1> DEFINE e == ending \cup {s}
<1>1. /\ MayCall("end") /\ s \in io.open /\ s \notin ending /\ ending' = e
      /\ UNCHANGED <<timedOut, needsUncork, fault>>
  BY DEF End, Live
<1>2. /\ State(io) /\ stack \in Seq(Frame) /\ sent \in [Sockets -> Nat] /\ Framed(stack, io, ending)
      /\ (NoNestedDrain => OneBatch(stack) /\ Lent(Frames(stack), io, needsUncork))
      /\ sent[s] \in Nat /\ Passes(io, io, s) /\ Good(io, ending, sent)
      /\ (MaxBackpressure = 0 => NoEndInDrop /\ io.shut \subseteq ending)
      /\ \A f \in Frames(stack) : f \in Frame /\ f.sub \in Sockets
  BY Facts
<1>3. \A f \in Frames(stack) :
        /\ f.kind = "batch" => f.left = 0
        /\ f.kind \in {"send", "end"} => MaxBackpressure # 0 /\ ~NoEndInDrop
  BY <1>1, Asked DEF NoEndInDrop
<1>4. ending \subseteq e /\ s \in e /\ (MaxBackpressure = 0 => s \notin io.shut)
  BY <1>1, <1>2
<1> HIDE DEF e
<1>5. \/ /\ UNCHANGED stack
         /\ \E outcomes : /\ SendClose(s, outcomes)
                          /\ \/ outcomes = {Sent(io, "dropped")} /\ MaxBackpressure # 0
                             \/ outcomes = SendFrame(io, s, 0, NewBytes(s, CloseSize))
      \/ \E k \in Behind(s) : /\ k > 0
                              /\ stack' = <<BatchFrame(s, k), Blank("end", s)>> \o stack
                              /\ UNCHANGED <<io, sent>>
  <2>1. CASE OverLimit(s)
    BY <2>1 DEF End, OverLimit
  <2>2. CASE ~OverLimit(s)
    BY <2>2 DEF End
  <2> QED BY <2>1, <2>2
<1>6. CASE /\ UNCHANGED stack
           /\ \E outcomes : /\ SendClose(s, outcomes)
                            /\ \/ outcomes = {Sent(io, "dropped")} /\ MaxBackpressure # 0
                               \/ outcomes = SendFrame(io, s, 0, NewBytes(s, CloseSize))
  <2>1. /\ Good(io', e, sent') /\ sent' \in [Sockets -> Nat] /\ Step(s)
        /\ \A r \in Sockets \ {s} : sent'[r] = sent[r]
        /\ io'.open = io.open /\ io'.shut \in {io.shut, io.shut \cup {s}}
        /\ io'.corked \in {io.corked, NoSocket}
        /\ \A r \in Sockets : Marked(io, r) => Marked(io', r)
    BY <1>4, <1>6, ClosingIs
  <2>2. Framed(stack, io', e)
    BY <1>2, <1>3, <1>4, <2>1, FramedStays
  <2>3. NoNestedDrain => Lent(Frames(stack), io', needsUncork)
    BY <1>2, <2>1, LentAfter
  <2>4. Stacked(stack', io', ending', needsUncork')
    BY <1>1, <1>2, <1>6, <2>2, <2>3 DEF Stacked
  <2>5. Typed'
    BY <1>1, <1>2, <1>6, <2>1 DEF IInv, Typed, e
  <2>6. IInv'
    BY <1>1, <2>1, <2>4, <2>5, Kept
  <2>7. AfterEnd
    BY <1>1, <2>1 DEF AfterEnd, IInv, Typed
  <2> QED BY <2>1, <2>6, <2>7 DEF Keeps
<1>7. CASE \E k \in Behind(s) : /\ k > 0
                                /\ stack' = <<BatchFrame(s, k), Blank("end", s)>> \o stack
                                /\ UNCHANGED <<io, sent>>
  <2>1. PICK k \in Behind(s) : /\ k > 0
                               /\ stack' = <<BatchFrame(s, k), Blank("end", s)>> \o stack
                               /\ UNCHANGED <<io, sent>>
    BY <1>7
  <2>2. MayCall("drain") /\ k \in Nat
    BY <2>1, WebSocketSendAssumption DEF Behind
  <2> DEFINE w == Blank("end", s)
             st == <<BatchFrame(s, k), w>> \o stack
  <2>3. w \in Frame /\ w.kind = "end" /\ w.sub = s
    BY NoFrames
  <2>4. stack' = st
    BY <2>1
  <2> HIDE DEF w
  <2>5. Framed(stack, io, e)
    BY <1>2, <1>3, <1>4, FramedStays
  <2>6. Fits(w, {w} \cup Frames(stack), io, e)
    BY <1>4, <2>3 DEF Fits
  <2>7. st \in Seq(Frame) /\ Stacked(st, io, e, needsUncork)
    BY <1>1, <2>2, <2>3, <2>5, <2>6, PushesBatch
  <2> HIDE DEF st
  <2>8. Typed'
    BY <1>1, <2>1, <2>4, <2>7 DEF IInv, Typed, e
  <2>9. Good(io, e, sent)
    BY <1>2, <1>4, GoodEnding
  <2>10. IInv'
    BY <1>1, <2>1, <2>4, <2>7, <2>8, <2>9, Kept
  <2>11. Step(s) /\ AfterEnd
    BY <1>2, <2>1 DEF Step, AfterEnd
  <2> QED BY <2>10, <2>11 DEF Keeps
<1> QED BY <1>5, <1>6, <1>7

\* end, after that drain.
LEMMA FinishEndKeeps == ASSUME IInv, FinishEnd PROVE Keeps
<1>0. stack # <<>>
  BY DEF FinishEnd, Running
<1> SUFFICES ASSUME NEW s \in Sockets, s = Top.sub PROVE Keeps
  BY <1>0, TopIs
<1>1. /\ Top.kind = "end" /\ stack' = Below /\ UNCHANGED <<ending, timedOut, needsUncork, fault>>
      /\ SendClose(s, SendFrame(io, s, 0, NewBytes(s, CloseSize)))
  BY DEF FinishEnd, Running
<1>2. /\ Fits(Top, Frames(stack), io, ending) /\ Top = Head(stack)
      /\ Frames(Below) \subseteq Frames(stack) /\ Top \in Frames(stack)
      /\ (MaxBackpressure = 0 => \A f \in Frames(Below) : f.kind # "end")
  BY <1>0, <1>1, TopIs
<1>3. \A f \in Frames(stack) : f.sub \in Sockets
  BY Facts
<1>4. s \in ending /\ (MaxBackpressure = 0 => s \notin io.shut)
  BY <1>1, <1>2 DEF Fits
<1>5. /\ Good(io', ending, sent') /\ sent' \in [Sockets -> Nat] /\ Step(s)
      /\ \A r \in Sockets \ {s} : sent'[r] = sent[r]
      /\ io'.open = io.open /\ io'.shut \in {io.shut, io.shut \cup {s}}
      /\ io'.corked \in {io.corked, NoSocket}
      /\ \A r \in Sockets : Marked(io, r) => Marked(io', r)
  BY <1>1, <1>4, ClosingIs
<1>6. Below \in Seq(Frame) /\ Stacked(Below, io', ending, needsUncork)
  BY <1>0, <1>1, <1>2, <1>3, <1>5, Returns DEF Below
<1>7. Typed'
  BY <1>1, <1>5, <1>6 DEF IInv, Typed
<1>8. IInv'
  BY <1>1, <1>5, <1>6, <1>7, Kept
<1>9. OnStack("end", s)
  BY <1>1, <1>2 DEF OnStack, Frames
<1>10. AfterEnd
  BY <1>5, <1>9 DEF AfterEnd, IInv, Typed
<1> QED BY <1>5, <1>8, <1>10 DEF Keeps

\* A socket is closed while the stack is as it is.
LEMMA ClosesStill ==
  ASSUME IInv, NEW s \in Sockets, io' = Closed(io, s), ending' = ending \cup {s},
         UNCHANGED <<timedOut, needsUncork, sent, stack, fault>>,
         \A f \in Frames(stack) : f.kind = "batch" => f.left = 0
  PROVE  Keeps
<1>1. /\ stack \in Seq(Frame) /\ Framed(stack, io, ending) /\ Good(io, ending, sent)
      /\ (NoNestedDrain => OneBatch(stack) /\ Lent(Frames(stack), io, needsUncork))
  BY Facts
<1> DEFINE j == io'
           e == ending \cup {s}
<1>2. /\ Good(j, e, sent) /\ j.open = io.open \ {s} /\ j.shut = io.shut /\ j.failed = io.failed
      /\ j.corked = io.corked /\ \A r \in Sockets \ {s} : j.buffer[r] = io.buffer[r]
  <2>1. j = Closed(io, s)
    OBVIOUS
  <2> HIDE DEF j
  <2> QED BY ONLY s \in Sockets, <1>1, <2>1, GoodClosed
<1>3. \A f \in Frames(stack) : f.sub \in Sockets
  BY Facts
<1> HIDE DEF j
<1>4. \A r \in Sockets : Marked(io, r) => Marked(j, r)
  BY <1>2 DEF Marked, Sendable
<1>5. Framed(stack, j, e)
  BY <1>1, <1>2, <1>3, <1>4, FramedStays
<1>6. NoNestedDrain => Lent(Frames(stack), j, needsUncork)
  BY <1>1, <1>2, LentAfter
<1>7. Stacked(stack', io', ending', needsUncork')
  BY <1>1, <1>5, <1>6 DEF Stacked, j
<1>8. Typed'
  BY DEF IInv, Typed
<1>9. IInv'
  BY <1>2, <1>7, <1>8, Kept DEF j
<1>10. Step(s) /\ AfterEnd
  BY DEF Step, AfterEnd
<1> QED BY <1>9, <1>10 DEF Keeps

\* close.
LEMMA CloseKeeps == ASSUME IInv, NEW s \in Sockets, Close(s) PROVE Keeps
<1>1. /\ Idle \/ MayCall("close")
      /\ io' = Closed(io, s) /\ ending' = ending \cup {s}
      /\ UNCHANGED <<timedOut, needsUncork, sent, stack, fault>>
  BY DEF Close
<1>2. \A f \in Frames(stack) : f.kind = "batch" => f.left = 0
  BY <1>1, Asked, NoFrames DEF Idle
<1> QED BY <1>1, <1>2, ClosesStill

\* A function of the application is called; the cork buffer may be taken for it.
LEMMA CallsApp ==
  ASSUME IInv, NEW f \in Frame, f.kind \in {"consume", "cork", "writable"},
         f.kind = "cork" \/ stack = <<>>,
         stack # <<>> => Head(stack).kind \in AppKinds,
         \A g \in Frames(stack) : g.kind = "batch" => g.left = 0,
         NEW j, j.open = io.open, j.shut = io.shut,
         \A r \in Sockets : f.kind = "cork" /\ Marked(io, r) => Marked(j, r),
         f.kind = "writable" /\ NoLongInDrain => Marked(j, f.sub),
         \/ f.kind \in {"consume", "cork"} /\ j.corked = f.sub
         \/ j.corked \in {io.corked, NoSocket}
  PROVE  <<f>> \o stack \in Seq(Frame) /\ Stacked(<<f>> \o stack, j, ending, needsUncork)
<1>1. /\ stack \in Seq(Frame) /\ Framed(stack, io, ending)
      /\ (NoNestedDrain => OneBatch(stack) /\ Lent(Frames(stack), io, needsUncork))
      /\ \A g \in Frames(stack) : g.sub \in Sockets
  BY Facts
<1>2. stack = <<>> => Frames(stack) = {}
  BY NoFrames
<1>3. Framed(stack, j, ending)
  BY <1>1, <1>2, FramedStays
<1> DEFINE st == <<f>> \o stack
<1>4. Fits(f, {f} \cup Frames(stack), j, ending)
  BY DEF Fits
<1>5. stack # <<>> => Over(f, Head(stack))
  BY DEF Over, AppKinds
<1>6. st \in Seq(Frame) /\ Frames(st) = {f} \cup Frames(stack) /\ Framed(st, j, ending)
  BY <1>1, <1>3, <1>4, <1>5, PushFrames, FramedPushes
<1>7. ASSUME NoNestedDrain PROVE OneBatch(st) /\ Lent(Frames(st), j, needsUncork)
  <2>1. OneBatch(st)
    BY <1>1, <1>7, PushOne
  <2>2. Lent(Frames(st), j, needsUncork)
    BY <1>1, <1>6, <1>7 DEF Lent
  <2> QED BY <2>1, <2>2
<1> HIDE DEF st
<1>8. Stacked(st, j, ending, needsUncork)
  BY <1>6, <1>7 DEF Stacked
<1> QED BY <1>6, <1>8 DEF st

\* ws.cork calls its function.
LEMMA CorkCallKeeps == ASSUME IInv, NEW s \in Sockets, CorkCall(s) PROVE Keeps
<1>1. /\ MayCall("cork") /\ CanCork(io) /\ io' = Cork(io, s) /\ stack' = <<Blank("cork", s)>> \o stack
      /\ UNCHANGED <<ending, timedOut, needsUncork, sent, fault>>
  BY DEF CorkCall
<1>2. State(io) /\ Tidy(io) /\ Good(io, ending, sent) /\ sent \in [Sockets -> Nat] /\ sent[s] \in Nat
  BY Facts
<1>3. ~CorkTerminates(io, s)
  BY <1>1, <1>2 DEF CanCork, CorkTerminates, Tidy
<1> DEFINE j == io'
<1>4. /\ Sends(io, j, s, <<>>) /\ j.corked = s /\ j.failed = io.failed /\ j.buffer = io.buffer
  <2>1. /\ Sends(io, Cork(io, s), s, <<>>) /\ Cork(io, s).corked = s
        /\ Cork(io, s).failed = io.failed /\ Cork(io, s).buffer = io.buffer
    BY <1>2, <1>3, CorkSends
  <2> QED BY <1>1, <2>1
<1> HIDE DEF j
<1>5. Good(j, ending, sent) /\ Passes(io, j, s) /\ j.open = io.open /\ j.shut = io.shut
  BY <1>2, <1>4, GoodStill DEF Sends, About
<1>6. \A r \in Sockets : Marked(io, r) => Marked(j, r)
  BY <1>4, <1>5 DEF Marked, Sendable
<1> DEFINE f == Blank("cork", s)
<1>7. f \in Frame /\ f.kind = "cork" /\ f.sub = s /\ stack' = <<f>> \o stack
  BY <1>1, NoFrames
<1> HIDE DEF f
<1>8. /\ stack # <<>> => Head(stack).kind \in AppKinds
      /\ \A g \in Frames(stack) : g.kind = "batch" => g.left = 0
  BY <1>1, Asked
<1>9. <<f>> \o stack \in Seq(Frame) /\ Stacked(<<f>> \o stack, j, ending, needsUncork)
  BY <1>4, <1>5, <1>6, <1>7, <1>8, CallsApp
<1>10. Typed'
  BY <1>1, <1>7, <1>9 DEF IInv, Typed
<1>11. IInv'
  BY <1>1, <1>5, <1>7, <1>9, <1>10, Kept DEF j
<1>12. sent[s] <= sent'[s] /\ sent' = sent
  <2>1. sent' = sent /\ sent[s] \in Nat
    BY <1>1, <1>2
  <2>2. sent[s] <= sent[s]
    BY ONLY <2>1
  <2> QED BY <2>1, <2>2
<1>13. Step(s) /\ AfterEnd
  BY <1>5, <1>12 DEF Step, AfterEnd, j
<1> QED BY <1>11, <1>13 DEF Keeps

\* ws.cork uncorks.
LEMMA FinishCorkKeeps == ASSUME IInv, FinishCork PROVE Keeps
<1>0. stack # <<>>
  BY DEF FinishCork, Running
<1> SUFFICES ASSUME NEW s \in Sockets, s = Top.sub PROVE Keeps
  BY <1>0, TopIs
<1>1. /\ Top.kind = "cork" /\ stack' = Below /\ UNCHANGED <<ending, timedOut, needsUncork, sent, fault>>
      /\ \E o \in Uncork(io, s, <<>>) : io' = o.io
  BY DEF FinishCork, Running
<1>2. /\ Top = Head(stack) /\ Frames(Below) \subseteq Frames(stack)
      /\ \A f \in Frames(stack) : f.sub \in Sockets
  BY <1>0, TopIs, Facts
<1>3. State(io) /\ Tidy(io) /\ Good(io, ending, sent) /\ sent \in [Sockets -> Nat] /\ sent[s] \in Nat
  BY Facts
<1> DEFINE j == io'
<1>4. /\ Sends(io, j, s, <<>>) /\ j.corked # s /\ j.corked \in {io.corked, NoSocket}
      /\ (Marked(io, s) => Marked(j, s))
  BY <1>1, <1>3, UncorkSends
<1> HIDE DEF j
<1>5. Good(j, ending, sent) /\ Passes(io, j, s)
  BY <1>3, <1>4, GoodStill
<1>6. About(io, j, s)
  BY <1>4 DEF Sends
<1>7. j.open = io.open /\ j.shut = io.shut /\ \A r \in Sockets : Marked(io, r) => Marked(j, r)
  BY <1>4, <1>6, MarksKept DEF About
<1>8. Below \in Seq(Frame) /\ Stacked(Below, j, ending, needsUncork)
  BY <1>0, <1>2, <1>4, <1>7, Returns DEF Below
<1>9. Typed'
  BY <1>1, <1>8 DEF IInv, Typed
<1>10. IInv'
  BY <1>1, <1>5, <1>8, <1>9, Kept DEF j
<1>11. sent[s] <= sent'[s] /\ sent' = sent
  <2>1. sent' = sent /\ sent[s] \in Nat
    BY <1>1, <1>3
  <2>2. sent[s] <= sent[s]
    BY ONLY <2>1
  <2> QED BY <2>1, <2>2
<1>12. Step(s) /\ AfterEnd
  BY <1>5, <1>11 DEF Step, AfterEnd, j
<1> QED BY <1>10, <1>12 DEF Keeps

\* What s has sent is what it had.
LEMMA SentSame == ASSUME IInv, NEW s \in Sockets, sent' = sent PROVE sent[s] <= sent'[s]
<1>1. sent[s] \in Nat
  BY Facts
<1>2. sent[s] <= sent[s]
  BY ONLY <1>1
<1> QED BY <1>2

\* A drain of one subscriber starts.
LEMMA BatchKeeps ==
  ASSUME IInv, NEW s \in Sockets, NEW k \in 1 .. MaxBatch, Batch(s, k)
  PROVE  Keeps
<1>1. /\ MayCall("publish") /\ s \notin ending /\ \A i \in DOMAIN stack : stack[i].kind # "batch"
      /\ stack' = <<BatchFrame(s, k)>> \o stack
      /\ UNCHANGED <<io, ending, timedOut, needsUncork, sent, fault>>
  BY DEF Batch, Live
<1>2. /\ stack \in Seq(Frame) /\ Framed(stack, io, ending) /\ Good(io, ending, sent) /\ Passes(io, io, s)
      /\ (NoNestedDrain => OneBatch(stack) /\ Lent(Frames(stack), io, needsUncork))
  BY Facts
<1>3. stack # <<>> => Head(stack).kind \in AppKinds
  BY <1>1, Asked
<1> DEFINE b == BatchFrame(s, k)
           st == <<b>> \o stack
<1>4. k \in Nat
  BY WebSocketSendAssumption
<1>5. b \in Frame /\ b.kind = "batch" /\ b.sub = s /\ stack' = st
  BY <1>1, <1>4, BatchFrameIs
<1> HIDE DEF b
<1>6. Fits(b, {b} \cup Frames(stack), io, ending)
  BY <1>1, <1>5 DEF Fits
<1>7. stack # <<>> => Over(b, Head(stack))
  BY <1>3, <1>5 DEF Over, AppKinds
<1>8. st \in Seq(Frame) /\ Frames(st) = {b} \cup Frames(stack) /\ Framed(st, io, ending)
  BY <1>2, <1>5, <1>6, <1>7, PushFrames, FramedPushes
<1>9. \A g \in Frames(stack) : g.kind # "batch"
  BY <1>1 DEF Frames
<1>10. ASSUME NoNestedDrain PROVE OneBatch(st) /\ Lent(Frames(st), io, needsUncork)
  <2>1. OneBatch(st)
    BY <1>2, <1>5, <1>9, <1>10, PushOne
  <2>2. Lent(Frames(st), io, needsUncork)
    BY <1>2, <1>8, <1>10 DEF Lent
  <2> QED BY <2>1, <2>2
<1> HIDE DEF st
<1>11. Stacked(st, io, ending, needsUncork)
  BY <1>8, <1>10 DEF Stacked
<1>12. Typed'
  BY <1>1, <1>5, <1>8 DEF IInv, Typed
<1>13. IInv'
  BY <1>1, <1>2, <1>5, <1>11, <1>12, Kept
<1>14. Step(s) /\ AfterEnd
  BY <1>1, <1>2, SentSame DEF Step, AfterEnd
<1> QED BY <1>13, <1>14 DEF Keeps

\* The dropped handler returns.
LEMMA DroppedReturnKeeps == ASSUME IInv, DroppedReturn PROVE Keeps
<1>0. stack # <<>>
  BY DEF DroppedReturn, Running
<1> SUFFICES ASSUME NEW s \in Sockets, s = Top.sub PROVE Keeps
  BY <1>0, TopIs
<1>1. /\ Top.kind = "dropped" /\ stack' = Below /\ UNCHANGED <<io, ending, timedOut, needsUncork, sent, fault>>
  BY DEF DroppedReturn, Running
<1>2. Top = Head(stack)
  BY DEF Top
<1>3. Good(io, ending, sent) /\ Passes(io, io, s)
  BY Facts
<1>4. Below \in Seq(Frame) /\ Stacked(Below, io, ending, needsUncork)
  BY <1>0, <1>1, <1>2, Returns
<1>5. Typed'
  BY <1>1, <1>4 DEF IInv, Typed
<1>6. IInv'
  BY <1>1, <1>3, <1>4, <1>5, Kept
<1>7. Step(s) /\ AfterEnd
  BY <1>1, <1>3, SentSame DEF Step, AfterEnd
<1> QED BY <1>6, <1>7 DEF Keeps

\* The first message of a batch takes the cork buffer if it is free.
LEMMA StartIs ==
  ASSUME IInv, NEW s \in Sockets, NEW corks \in BOOLEAN, corks => CanCork(io),
         NEW j, j = IF corks THEN Cork(io, s) ELSE io
  PROVE  /\ Good(j, ending, sent) /\ Passes(io, j, s) /\ j.open = io.open /\ j.shut = io.shut
         /\ (corks => j.corked = s) /\ (~corks => j.corked = io.corked)
         /\ \A r \in Sockets : Marked(io, r) => Marked(j, r)
<1>1. State(io) /\ Tidy(io) /\ Good(io, ending, sent) /\ sent \in [Sockets -> Nat] /\ Passes(io, io, s)
  BY Facts
<1>2. CASE ~corks
  BY <1>1, <1>2
<1>3. CASE corks
  <2>1. j = Cork(io, s) /\ ~CorkTerminates(io, s)
    BY <1>1, <1>3 DEF CanCork, CorkTerminates, Tidy
  <2>2. /\ Sends(io, Cork(io, s), s, <<>>) /\ Cork(io, s).corked = s
        /\ Cork(io, s).failed = io.failed /\ Cork(io, s).buffer = io.buffer
    BY ONLY <1>1, <2>1, s \in Sockets, CorkSends
  <2>3. Sends(io, j, s, <<>>) /\ j.corked = s /\ j.failed = io.failed /\ j.buffer = io.buffer
    BY <2>1, <2>2
  <2>4. j.open = io.open /\ j.shut = io.shut
    BY <2>3 DEF Sends, About
  <2>5. Good(j, ending, sent) /\ Passes(io, j, s)
    BY <1>1, <2>3, GoodStill
  <2>6. \A r \in Sockets : Marked(io, r) => Marked(j, r)
    BY <2>3, <2>4 DEF Marked, Sendable
  <2> QED BY <1>3, <2>3, <2>4, <2>5, <2>6
<1> QED BY <1>2, <1>3

\* The batch goes on with the next message, or with none.
LEMMA Rebatches ==
  ASSUME IInv, stack # <<>>, Top.kind = "batch",
         NEW g \in Frame, g.kind = "batch", g.sub = Top.sub, g.left > 0 => Top.left > 0,
         NEW j, j.open = io.open, j.shut = io.shut, \A r \in Sockets : Marked(io, r) => Marked(j, r),
         NEW v, needsUncork => v, j.corked \in {io.corked, NoSocket} \/ (j.corked = g.sub /\ v)
  PROVE  LET st == <<g>> \o Below
         IN  st \in Seq(Frame) /\ st # <<>> /\ Head(st) = g /\ Stacked(st, j, ending, v)
<1>1. /\ stack \in Seq(Frame) /\ Framed(stack, io, ending)
      /\ (NoNestedDrain => OneBatch(stack) /\ Lent(Frames(stack), io, needsUncork))
      /\ \A f \in Frames(stack) : f.sub \in Sockets
  BY Facts
<1>2. /\ Top = Head(stack) /\ Below = Tail(stack) /\ Below \in Seq(Frame)
      /\ Frames(stack) = {Top} \cup Frames(Below) /\ Fits(Top, Frames(stack), io, ending)
  BY <1>1, PopFrames DEF Top, Below, Framed
<1>3. Framed(Below, j, ending)
  BY <1>1, <1>2, FramedPops
<1>4. Fits(g, {g} \cup Frames(Below), j, ending)
  BY <1>2 DEF Fits, Has
<1>5. Below # <<>> => Over(g, Head(Below))
  <2>1. Below # <<>> => Over(Top, Head(Below))
    BY <1>1, <1>2, PopNested DEF Framed
  <2> QED BY <2>1 DEF Over
<1> DEFINE st == <<g>> \o Below
<1>6. st \in Seq(Frame) /\ st # <<>> /\ Head(st) = g /\ Frames(st) = {g} \cup Frames(Below) /\ Framed(st, j, ending)
  BY <1>2, <1>3, <1>4, <1>5, PushFrames, FramedPushes
<1>7. ASSUME NoNestedDrain PROVE OneBatch(st) /\ Lent(Frames(st), j, v)
  <2>1. OneBatch(Below) /\ \A f \in Frames(Below) : f.kind # "batch"
    BY <1>1, <1>2, <1>7, PopOne
  <2>2. OneBatch(st)
    BY <1>2, <2>1, PushOne
  <2>3. Lent(Frames(st), j, v)
    BY <1>1, <1>2, <1>6, <1>7 DEF Lent
  <2> QED BY <2>2, <2>3
<1> HIDE DEF st
<1>8. Stacked(st, j, ending, v)
  BY <1>6, <1>7 DEF Stacked
<1> QED BY <1>6, <1>8 DEF st

\* A batch returns, and its socket has given back the cork buffer if one of
\* its messages has taken it.
LEMMA BatchReturns ==
  ASSUME IInv, stack # <<>>, Top.kind = "batch",
         NEW j, j.open = io.open, j.shut = io.shut, \A r \in Sockets : Marked(io, r) => Marked(j, r),
         NEW v,
         j.corked \in {io.corked, NoSocket}, needsUncork => j.corked # Top.sub
  PROVE  Below \in Seq(Frame) /\ Stacked(Below, j, ending, v)
<1>1. /\ stack \in Seq(Frame) /\ Framed(stack, io, ending)
      /\ (NoNestedDrain => OneBatch(stack) /\ Lent(Frames(stack), io, needsUncork))
      /\ \A f \in Frames(stack) : f.sub \in Sockets
  BY Facts
<1>2. /\ Top = Head(stack) /\ Below = Tail(stack) /\ Below \in Seq(Frame)
      /\ Frames(stack) = {Top} \cup Frames(Below)
  BY <1>1, PopFrames DEF Top, Below
<1>3. Framed(Below, j, ending)
  BY <1>1, <1>2, FramedPops
<1>4. ASSUME NoNestedDrain PROVE OneBatch(Below) /\ Lent(Frames(Below), j, v)
  <2>1. OneBatch(Below) /\ \A f \in Frames(Below) : f.kind # "batch"
    BY <1>1, <1>2, <1>4, PopOne
  <2>2. Lent(Frames(Below), j, v)
    BY <1>1, <1>2, <1>4, <2>1 DEF Lent
  <2> QED BY <2>1, <2>2
<1> QED BY <1>2, <1>3, <1>4 DEF Stacked

\* A drain that has dropped a message ends.
LEMMA FinishBatchKeeps == ASSUME IInv, FinishBatch PROVE Keeps
<1>0. stack # <<>>
  BY DEF FinishBatch, Running
<1> SUFFICES ASSUME NEW s \in Sockets, s = Top.sub PROVE Keeps
  BY <1>0, TopIs
<1>1. /\ Top.kind = "batch" /\ stack' = Below /\ needsUncork' = FALSE
      /\ UNCHANGED <<ending, timedOut, sent, fault>>
      /\ IF needsUncork THEN \E o \in Uncork(io, s, <<>>) : io' = o.io ELSE UNCHANGED io
  BY DEF FinishBatch, Running
<1>2. State(io) /\ Tidy(io) /\ Good(io, ending, sent) /\ Passes(io, io, s) /\ sent \in [Sockets -> Nat]
  BY Facts
<1> DEFINE j == io'
<1>3. /\ Good(j, ending, sent) /\ Passes(io, j, s) /\ j.open = io.open /\ j.shut = io.shut
      /\ j.corked \in {io.corked, NoSocket} /\ (needsUncork => j.corked # s)
      /\ \A r \in Sockets : Marked(io, r) => Marked(j, r)
  <2>1. CASE needsUncork
    <3>1. PICK o \in Uncork(io, s, <<>>) : j = o.io
      BY <1>1, <2>1
    <3> HIDE DEF j
    <3>2. /\ Sends(io, o.io, s, <<>>) /\ o.io.corked # s /\ o.io.corked \in {io.corked, NoSocket}
          /\ (Marked(io, s) => Marked(o.io, s))
      BY <1>2, UncorkSends
    <3>3. Good(j, ending, sent) /\ Passes(io, j, s)
      BY <1>2, <3>1, <3>2, GoodStill
    <3>4. About(io, j, s)
      BY <3>1, <3>2 DEF Sends
    <3>5. j.open = io.open /\ j.shut = io.shut /\ \A r \in Sockets : Marked(io, r) => Marked(j, r)
      BY <3>1, <3>2, <3>4, MarksKept DEF About
    <3> QED BY <3>1, <3>2, <3>3, <3>5
  <2>2. CASE ~needsUncork
    BY <1>1, <1>2, <2>2
  <2> QED BY <2>1, <2>2
<1> HIDE DEF j
<1>4. Below \in Seq(Frame) /\ Stacked(Below, j, ending, FALSE)
  <2>1. ASSUME NEW v \in BOOLEAN PROVE Below \in Seq(Frame) /\ Stacked(Below, j, ending, v)
    BY ONLY IInv, s = Top.sub, <1>0, <1>1, <1>3, BatchReturns
  <2> QED BY <2>1
<1>5. Typed'
  BY <1>1, <1>4 DEF IInv, Typed
<1>6. IInv'
  BY <1>1, <1>3, <1>4, <1>5, Kept DEF j
<1>7. Step(s) /\ AfterEnd
  BY <1>1, <1>3, SentSame DEF Step, AfterEnd, j
<1> QED BY <1>6, <1>7 DEF Keeps

\* A drain drops a message.
LEMMA BatchDropsKeeps == ASSUME IInv, BatchDrops PROVE Keeps
<1>0. stack # <<>>
  BY DEF BatchDrops, Running
<1> SUFFICES ASSUME NEW s \in Sockets, s = Top.sub PROVE Keeps
  BY <1>0, TopIs
<1> DEFINE corks == Top.first /\ CanCork(io)
           g == [Top EXCEPT !.left = 0]
           w == Blank("dropped", s)
           j == io'
           v == needsUncork \/ corks
           batch == <<g>> \o Below
<1>1. /\ Top.kind = "batch" /\ Top.left > 0 /\ MaxBackpressure # 0
      /\ UNCHANGED <<ending, timedOut, sent, fault>>
      /\ j = IF corks THEN Cork(io, s) ELSE io
      /\ needsUncork' = v /\ stack' = IF s \in ending THEN batch ELSE <<w>> \o batch
  BY DEF BatchDrops, Running, OverLimit
<1>2. Good(io, ending, sent) /\ sent \in [Sockets -> Nat] /\ needsUncork \in BOOLEAN
  BY Facts DEF IInv, Typed
<1>3. Top \in Frame
  BY <1>0, TopIs
<1>4. g \in Frame /\ g.kind = "batch" /\ g.sub = s /\ g.left = 0
  BY <1>1, <1>3 DEF Frame
<1>5. w \in Frame /\ w.kind = "dropped" /\ w.sub = s
  BY NoFrames
<1>6. Top.first \in BOOLEAN
  BY <1>3 DEF Frame
<1>7. corks \in BOOLEAN /\ v \in BOOLEAN /\ (corks => CanCork(io)) /\ (needsUncork => v) /\ (corks => v)
  BY <1>2, <1>6 DEF CanCork
<1> HIDE DEF corks, g, w, j, v
<1>8. /\ Good(j, ending, sent) /\ Passes(io, j, s) /\ j.open = io.open /\ j.shut = io.shut
      /\ (corks => j.corked = s) /\ (~corks => j.corked = io.corked)
      /\ \A r \in Sockets : Marked(io, r) => Marked(j, r)
  BY <1>1, <1>7, StartIs
<1>9. batch \in Seq(Frame) /\ batch # <<>> /\ Head(batch) = g /\ Stacked(batch, j, ending, v)
  BY <1>0, <1>1, <1>4, <1>7, <1>8, Rebatches
<1> HIDE DEF batch
<1>10. stack' \in Seq(Frame) /\ Stacked(stack', j, ending, v)
  <2>1. CASE s \in ending
    BY <1>1, <1>9, <2>1
  <2>2. CASE s \notin ending
    <3> DEFINE st == <<w>> \o batch
    <3>1. Fits(w, {w} \cup Frames(batch), j, ending)
      BY <1>1, <1>5 DEF Fits
    <3>2. Over(w, g)
      BY <1>4, <1>5 DEF Over
    <3>3. st \in Seq(Frame) /\ Frames(st) = {w} \cup Frames(batch)
      BY <1>5, <1>9, PushFrames
    <3>4. Framed(st, j, ending)
      BY <1>5, <1>9, <3>1, <3>2, FramedPushes DEF Stacked
    <3>5. ASSUME NoNestedDrain PROVE OneBatch(st) /\ Lent(Frames(st), j, v)
      <4>1. OneBatch(st)
        BY <1>5, <1>9, <3>5, PushOne DEF Stacked
      <4>2. Lent(Frames(st), j, v)
        BY <1>9, <3>3, <3>5 DEF Lent, Stacked
      <4> QED BY <4>1, <4>2
    <3>6. stack' = st
      BY <1>1, <2>2
    <3> HIDE DEF st
    <3> QED BY <3>3, <3>4, <3>5, <3>6 DEF Stacked
  <2> QED BY <2>1, <2>2
<1>11. Typed'
  BY <1>1, <1>7, <1>10 DEF IInv, Typed
<1>12. IInv'
  BY <1>1, <1>8, <1>10, <1>11, Kept DEF j
<1>13. Step(s) /\ AfterEnd
  BY <1>1, <1>8, SentSame DEF Step, AfterEnd, j
<1> QED BY <1>12, <1>13 DEF Keeps

\* A drain sends a message.
LEMMA BatchMessageKeeps == ASSUME IInv, BatchMessage PROVE Keeps
<1>0. stack # <<>>
  BY DEF BatchMessage, Running
<1> SUFFICES ASSUME NEW s \in Sockets, s = Top.sub PROVE Keeps
  BY <1>0, TopIs
<1> DEFINE corks == Top.first /\ CanCork(io)
           start == IF corks THEN Cork(io, s) ELSE io
           v == needsUncork \/ corks
           m == PublishSize + Header
           g == [Top EXCEPT !.left = @ - 1, !.first = FALSE]
           d == sent'
           j == io'
           last == Top.left = 1
<1>1. PICK o \in SendBuffered(start, s, NewBytes(s, m)) :
        IF last /\ v THEN \E u \in Uncork(o.io, s, <<>>) : j = u.io ELSE j = o.io
  <2>1. needsUncork' = v
    BY DEF BatchMessage
  <2> QED BY <2>1 DEF BatchMessage, UncorksAfter
<1>2. /\ Top.kind = "batch" /\ Top.left > 0 /\ needsUncork' = v
      /\ stack' = (IF last THEN Below ELSE <<g>> \o Below)
      /\ d = [sent EXCEPT ![s] = @ + PublishSize + Header]
      /\ UNCHANGED <<ending, timedOut, fault>>
  BY DEF BatchMessage, Running
<1>3. /\ State(io) /\ Good(io, ending, sent) /\ sent \in [Sockets -> Nat] /\ sent[s] \in Nat
      /\ (MaxBackpressure = 0 => io.shut \subseteq ending)
      /\ Framed(stack, io, ending)
  BY Facts
<1>4. Top \in Frame /\ Top \in Frames(stack) /\ Fits(Top, Frames(stack), io, ending) /\ Top.left \in Nat
  BY <1>0, TopIs
<1>5. g \in Frame /\ g.kind = "batch" /\ g.sub = s /\ (g.left > 0 => Top.left > 0)
  <2>1. Top.left - 1 \in Nat
    BY <1>2, <1>4
  <2> QED BY <1>2, <1>4, <2>1 DEF Frame
<1>6. m \in Nat \ {0} /\ More(sent, d, s, m)
  <2>1. PublishSize \in Nat /\ Header \in Nat \ {0}
    BY WebSocketSendAssumption
  <2>2. m \in Nat \ {0} /\ sent[s] + PublishSize + Header = sent[s] + m
    BY <1>3, <2>1
  <2>3. d = [sent EXCEPT ![s] = sent[s] + PublishSize + Header]
    BY <1>2
  <2> QED BY <2>2, <2>3 DEF More
<1>7. corks \in BOOLEAN /\ v \in BOOLEAN /\ (corks => CanCork(io)) /\ (needsUncork => v) /\ (corks => v)
  BY <1>4 DEF CanCork, IInv, Typed, Frame
<1> HIDE DEF corks, g, v, m, d, j
<1>8. /\ Good(start, ending, sent) /\ Passes(io, start, s) /\ start.open = io.open /\ start.shut = io.shut
      /\ (corks => start.corked = s) /\ (~corks => start.corked = io.corked)
      /\ \A r \in Sockets : Marked(io, r) => Marked(start, r)
  BY <1>7, StartIs
<1> HIDE DEF start, last
  \* If s is ending then its end waits for this batch.
<1>9. s \notin ending \/ \E f \in Frames(stack) : f.kind = "end" /\ f.sub = s
  BY <1>2, <1>4 DEF Fits, Has
<1>10. MaxBackpressure = 0 => s \notin io.shut
  <2>1. \A f \in Frames(stack) : f.kind = "end" /\ MaxBackpressure = 0 => f.sub \notin io.shut
    BY <1>3 DEF Framed, Fits
  <2> QED BY <1>3, <1>9, <2>1
<1> DEFINE b == New(s, sent[s], m)
<1>11. /\ NewBytes(s, m) = b /\ b \in Bytes
  BY <1>6, NewBytesIs
<1> HIDE DEF b
<1>12. SendsFrame(start, o, s, b) /\ (Marked(start, s) => Marked(o.io, s))
  <2>1. State(start) /\ Tidy(start) /\ o \in SendBuffered(start, s, b)
    BY <1>8, <1>11 DEF Good
  <2> QED BY <1>11, <2>1, SendBufferedIs
<1> DEFINE k == o.io
<1>13. Sends(start, k, s, b) /\ k.corked \in {start.corked, NoSocket}
  BY <1>12 DEF SendsFrame
<1> HIDE DEF k
<1>14. About(start, k, s) /\ k.open = io.open /\ k.shut = io.shut
  BY <1>8, <1>13 DEF Sends, About
<1>15. \A r \in Sockets : Marked(io, r) => Marked(k, r)
  <2>1. \A r \in Sockets : Marked(start, r) => Marked(k, r)
    BY <1>12, <1>14, MarksKept DEF k
  <2> QED BY <1>8, <2>1
<1>16. Good(k, ending, d) /\ d \in [Sockets -> Nat]
  <2>1. Sends(start, k, s, New(s, sent[s], m))
    BY <1>13 DEF b
  <2>2. m \in Nat /\ (MaxBackpressure = 0 /\ s \in start.shut /\ s \in start.open => m = 0)
    BY <1>6, <1>8, <1>10
  <2> QED BY ONLY s \in Sockets, <1>3, <1>6, <1>8, <2>1, <2>2, GoodSends
<1>17. Passes(io, k, s)
  <2>1. Passes(start, k, s)
    BY <1>13, PassesSends
  <2>2. State(start) /\ State(k)
    BY <1>8, <1>16 DEF Good
  <2> QED BY <1>3, <1>8, <2>1, <2>2, PassesAfter
  \* What the last message does.
<1>18. /\ Good(j, ending, d) /\ Passes(io, j, s) /\ j.open = io.open /\ j.shut = io.shut
       /\ j.corked \in {k.corked, NoSocket} /\ (last /\ v => j.corked # s)
       /\ \A r \in Sockets : Marked(io, r) => Marked(j, r)
  <2>1. CASE last /\ v
    <3>1. PICK u \in Uncork(k, s, <<>>) : j = u.io
      BY <1>1, <2>1 DEF k
    <3>2. State(k) /\ Tidy(k)
      BY <1>16 DEF Good
    <3>3. /\ Sends(k, u.io, s, <<>>) /\ u.io.corked # s /\ u.io.corked \in {k.corked, NoSocket}
          /\ (Marked(k, s) => Marked(u.io, s))
      BY <3>2, UncorkSends
    <3>4. Good(j, ending, d) /\ Passes(k, j, s)
      BY <1>16, <3>1, <3>3, GoodStill
    <3>5. Passes(io, j, s)
      BY <1>3, <1>16, <1>17, <3>4, PassesAfter DEF Good
    <3>6. About(k, j, s)
      BY <3>1, <3>3 DEF Sends
    <3>7. \A r \in Sockets : Marked(k, r) => Marked(j, r)
      BY <3>1, <3>3, <3>6, MarksKept
    <3> QED BY <1>14, <1>15, <3>1, <3>3, <3>4, <3>5, <3>6, <3>7 DEF About
  <2>2. CASE ~(last /\ v)
    <3>1. j = k
      BY <1>1, <2>2 DEF k
    <3> QED BY <1>14, <1>15, <1>16, <1>17, <2>2, <3>1
  <2> QED BY <2>1, <2>2
<1>19. stack' \in Seq(Frame) /\ Stacked(stack', j, ending, v)
  <2>1. CASE last
    <3>1. j.corked \in {io.corked, NoSocket} /\ (needsUncork => j.corked # s)
      BY <1>7, <1>8, <1>13, <1>18, <2>1
    <3>2. Below \in Seq(Frame) /\ Stacked(Below, j, ending, v)
      BY <1>0, <1>2, <1>18, <3>1, BatchReturns
    <3> QED BY <1>2, <2>1, <3>2
  <2>2. CASE ~last
    <3>1. j.corked \in {io.corked, NoSocket} \/ (j.corked = g.sub /\ v)
      BY <1>5, <1>7, <1>8, <1>13, <1>18
    <3> DEFINE st == <<g>> \o Below
    <3>2. st \in Seq(Frame) /\ Stacked(st, j, ending, v)
      BY <1>0, <1>2, <1>5, <1>7, <1>18, <3>1, Rebatches
    <3>3. stack' = st
      BY <1>2, <2>2
    <3> QED BY <3>2, <3>3
  <2> QED BY <2>1, <2>2
<1>20. Typed'
  BY <1>2, <1>7, <1>16, <1>19 DEF IInv, Typed, d
<1>21. IInv'
  BY <1>2, <1>18, <1>19, <1>20, Kept DEF d, j
<1>22. sent[s] <= d[s] /\ \A r \in Sockets \ {s} : d[r] = sent[r]
  BY <1>3, <1>6 DEF More
<1>23. Step(s)
  BY <1>18, <1>22 DEF Step, d, j
<1>24. AfterEnd
  BY <1>9, <1>22 DEF AfterEnd, OnStack, Frames, IInv, Typed, d
<1> QED BY <1>21, <1>23, <1>24 DEF Keeps

\* A write that goes past the cork buffer, of a socket that has nothing in it.
LEMMA GoodMoves ==
  ASSUME NEW i, NEW j, NEW e, NEW c \in [Sockets -> Nat], NEW d, NEW s \in Sockets, NEW m \in Nat,
         Good(i, e, c), Moves(i, j, s, New(s, c[s], m)), More(c, d, s, m), NoNestedDrain => InCork(i, s) = <<>>,
         MaxBackpressure = 0 /\ s \in i.shut /\ s \in i.open => m = 0
  PROVE  /\ Good(j, e, d) /\ d \in [Sockets -> Nat] /\ (NoNestedDrain => Passes(i, j, s))
         /\ j.open = i.open /\ j.shut = i.shut /\ j.corked = i.corked
<1> DEFINE b == New(s, c[s], m)
<1>1. State(i) /\ Tidy(i)
  BY DEF Good
<1>2. b \in Bytes
  <2>1. c[s] \in Nat
    OBVIOUS
  <2> QED BY <2>1, NewIs
<1>3. /\ State(j) /\ About(i, j, s) /\ j.open = i.open /\ j.shut = i.shut /\ j.corked = i.corked
      /\ j.cork = i.cork /\ d \in [Sockets -> Nat]
  BY DEF Moves, About, More
<1>4. CASE NoNestedDrain
  <2>1. Sends(i, j, s, b)
    <3>1. Moves(i, j, s, b) /\ InCork(i, s) = <<>>
      BY <1>4
    <3> HIDE DEF b
    <3> QED BY <1>1, <1>2, <3>1, MovesSends
  <2> QED BY <1>3, <2>1, GoodSends, PassesSends
<1>5. CASE ~NoNestedDrain
  <2>1. MaxBackpressure # 0
    BY <1>5 DEF NoNestedDrain
  <2>2. Tidy(j)
    BY <1>1, <1>3 DEF Tidy
  <2>3. ASSUME NoLongInDrain, NEW r \in Sockets PROVE Watched(j, r)
    <3>1. Watched(i, r)
      BY <2>3 DEF Good
    <3>2. CASE r = s
      BY <1>3, <3>1, <3>2 DEF About
    <3>3. CASE r # s
      BY <1>3, <3>1, <3>3 DEF About, Watched, Sendable
    <3> QED BY <3>2, <3>3
  <2> QED BY <1>3, <1>5, <2>1, <2>2, <2>3 DEF Good
<1> QED BY <1>4, <1>5

\* Between two events nobody has the cork buffer.
LEMMA NobodyCorks ==
  ASSUME IInv, Idle, NoNestedDrain
  PROVE  io.corked = NoSocket /\ io.cork = <<>> /\ \A s \in Sockets : InCork(io, s) = <<>> /\ ~CorkTerminates(io, s)
<1>1. Frames(stack) = {} /\ Lent(Frames(stack), io, needsUncork) /\ Tidy(io) /\ NoSocket \notin Sockets
  BY Facts, NoFrames DEF Idle
<1>2. io.corked = NoSocket
  BY <1>1 DEF Lent
<1> QED BY <1>1, <1>2 DEF Tidy, InCork, CorkTerminates

\* The stack of one frame.
LEMMA Alone ==
  ASSUME NEW f \in Frame
  PROVE  <<f>> \o <<>> = <<f>>
<1>1. <<f>> \in Seq(Frame)
  OBVIOUS
<1> QED BY ONLY <1>1, ConcatEmptySeq

\* Data arrives, and the message handler is called.
LEMMA ConsumeKeeps == ASSUME IInv, NEW s \in Sockets, Consume(s) PROVE Keeps
<1>1. /\ Idle /\ timedOut' = timedOut \ {s} /\ UNCHANGED <<ending, needsUncork, sent>>
      /\ IF CorkTerminates(io, s)
         THEN fault' = "cork buffer of another socket" /\ UNCHANGED <<io, stack>>
         ELSE /\ io' = Cork(io, s)
              /\ stack' = <<Blank("consume", s)>>
              /\ UNCHANGED fault
  BY DEF Consume
<1>2. /\ State(io) /\ Tidy(io) /\ Good(io, ending, sent) /\ sent \in [Sockets -> Nat] /\ Passes(io, io, s)
      /\ Framed(stack, io, ending) /\ stack \in Seq(Frame)
      /\ (NoNestedDrain => OneBatch(stack) /\ Lent(Frames(stack), io, needsUncork))
  BY Facts
<1>3. CASE CorkTerminates(io, s)
  <2>1. ~NoNestedDrain
    BY <1>1, <1>3, NobodyCorks
  <2>2. UNCHANGED <<io, stack>> /\ fault' \in Faults
    BY <1>1, <1>3 DEF Faults
  <2>3. Typed'
    BY <1>1, <2>2 DEF IInv, Typed
  <2>4. IInv'
    BY <1>1, <1>2, <2>1, <2>2, <2>3, Kept DEF Stacked
  <2>5. Step(s) /\ AfterEnd
    BY <1>1, <1>2, <2>2, SentSame DEF Step, AfterEnd
  <2> QED BY <2>4, <2>5 DEF Keeps
<1>4. CASE ~CorkTerminates(io, s)
  <2> DEFINE j == io'
             f == Blank("consume", s)
  <2>1. j = Cork(io, s) /\ stack' = <<f>> /\ UNCHANGED fault
    BY <1>1, <1>4
  <2>2. Sends(io, j, s, <<>>) /\ j.corked = s
    <3>1. Sends(io, Cork(io, s), s, <<>>) /\ Cork(io, s).corked = s
      BY <1>2, <1>4, CorkSends
    <3> QED BY <2>1, <3>1
  <2>3. f \in Frame /\ f.kind = "consume" /\ f.sub = s
    BY NoFrames
  <2> HIDE DEF j, f
  <2>4. Good(j, ending, sent) /\ Passes(io, j, s) /\ j.open = io.open /\ j.shut = io.shut
    BY <1>2, <2>2, GoodStill DEF Sends, About
  <2>5. stack = <<>> /\ Frames(stack) = {} /\ <<f>> \o stack = <<f>>
    BY <1>1, <2>3, NoFrames, Alone DEF Idle
  <2>6. <<f>> \o stack \in Seq(Frame) /\ Stacked(<<f>> \o stack, j, ending, needsUncork)
    BY <2>2, <2>3, <2>4, <2>5, CallsApp
  <2>7. stack' \in Seq(Frame) /\ Stacked(stack', j, ending, needsUncork)
    BY <2>1, <2>5, <2>6
  <2>8. Typed'
    BY <1>1, <2>1, <2>7 DEF IInv, Typed
  <2>9. IInv'
    BY <1>1, <2>1, <2>4, <2>7, <2>8, Kept DEF j
  <2>10. Step(s) /\ AfterEnd
    BY <1>1, <2>4, SentSame DEF Step, AfterEnd, j
  <2> QED BY <2>9, <2>10 DEF Keeps
<1> QED BY <1>3, <1>4

\* An ending socket with nothing left in its buffer, nor in the cork buffer, has
\* nothing left.
LEMMA DrainedIs ==
  ASSUME NEW i, State(i), NEW s \in Sockets, GetBufferedAmount(i, s) = 0, i.corked # s
  PROVE  Waiting(i, s) = <<>>
<1>1. i.buffer[s] = <<>> /\ InCork(i, s) = <<>>
  BY Fields DEF InCork
<1>2. <<>> \o <<>> = <<>>
  BY Cat
<1> QED BY <1>1, <1>2 DEF Waiting

\* FIN is sent for a socket that is ending, not corked and has nothing left.
LEMMA FinIfDrainedIs ==
  ASSUME NEW i, NEW c, NEW s \in Sockets, Good(i, ending, c), MaxBackpressure = 0 => i.corked # s,
         NEW j, j = FinIfDrained(i, s)
  PROVE  /\ Good(j, ending, c) /\ Passes(i, j, s) /\ j.open = i.open /\ j.corked = i.corked
         /\ \A r \in Sockets : Marked(i, r) => Marked(j, r)
<1>1. State(i) /\ Len(i.wire[s]) \in Nat
  BY Fields, Cat DEF Good
<1>2. CASE s \in ending /\ GetBufferedAmount(i, s) = 0
  <2>1. j = Shutdown(i, s) /\ (MaxBackpressure = 0 /\ ~Refuses(i, s) => Waiting(i, s) = <<>>) /\ s \in ending
    BY <1>1, <1>2, DrainedIs DEF FinIfDrained
  <2>2. /\ Good(j, ending, c) /\ Passes(i, j, s) /\ Same(i, j) /\ j.open = i.open /\ j.failed = i.failed
        /\ j.shut \in {i.shut, i.shut \cup {s}}
    BY ONLY Good(i, ending, c), s \in Sockets, <2>1, GoodShutdown
  <2>3. \A r \in Sockets : Marked(i, r) => Marked(j, r)
    BY <2>2 DEF Same, Marked, Sendable
  <2> QED BY <2>2, <2>3 DEF Same
<1>3. CASE ~(s \in ending /\ GetBufferedAmount(i, s) = 0)
  <2>1. j = i
    BY <1>3 DEF FinIfDrained
  <2> QED BY <1>1, <2>1 DEF Passes
<1> QED BY <1>2, <1>3

\* The message handler returns.
LEMMA FinishConsumeKeeps == ASSUME IInv, FinishConsume PROVE Keeps
<1>0. stack # <<>>
  BY DEF FinishConsume, Running
<1> SUFFICES ASSUME NEW s \in Sockets, s = Top.sub PROVE Keeps
  BY <1>0, TopIs
<1>1. /\ Top.kind = "consume" /\ stack' = Below /\ UNCHANGED <<ending, timedOut, needsUncork, sent, fault>>
      /\ \E o \in Uncork(io, s, <<>>) : io' = FinIfDrained(o.io, s)
  BY DEF FinishConsume, Running
<1>2. Top = Head(stack) /\ Below = <<>> /\ Frames(Below) = {} /\ Below = Tail(stack)
  BY <1>0, <1>1, TopIs, NoFrames DEF Below
<1>3. State(io) /\ Tidy(io) /\ Good(io, ending, sent) /\ sent \in [Sockets -> Nat] /\ NoSocket \notin Sockets
  BY Facts
<1> DEFINE j == io'
<1>4. PICK o \in Uncork(io, s, <<>>) : j = FinIfDrained(o.io, s)
  BY <1>1
<1> DEFINE k == o.io
<1>6. Sends(io, k, s, <<>>) /\ k.corked # s /\ k.corked \in {io.corked, NoSocket} /\ j = FinIfDrained(k, s)
  BY <1>3, <1>4, UncorkSends
<1> HIDE DEF j, k
<1>7. Good(k, ending, sent) /\ Passes(io, k, s) /\ State(k) /\ k.open = io.open
  <2>1. Good(k, ending, sent) /\ Passes(io, k, s)
    BY ONLY s \in Sockets, <1>3, <1>6, GoodStill
  <2> QED BY <2>1 DEF Good, Passes
<1>10. Good(j, ending, sent) /\ Passes(k, j, s) /\ j.open = k.open /\ j.corked = k.corked
  BY ONLY s \in Sockets, <1>6, <1>7, FinIfDrainedIs
<1>11. Passes(io, j, s)
  <2>1. State(j)
    BY <1>10 DEF Good
  <2> QED BY <1>3, <1>7, <1>10, <2>1, PassesAfter
<1>12. Below \in Seq(Frame) /\ Stacked(Below, j, ending, needsUncork)
  BY <1>0, <1>2, <1>6, <1>7, <1>10, Returns
<1>13. Typed'
  BY <1>1, <1>12 DEF IInv, Typed
<1>14. IInv'
  BY <1>1, <1>10, <1>12, <1>13, Kept DEF j
<1>15. Step(s) /\ AfterEnd
  BY <1>1, <1>11, SentSame DEF Step, AfterEnd, j
<1> QED BY <1>14, <1>15 DEF Keeps

\* The drain handler returns.
LEMMA FinishWritableKeeps == ASSUME IInv, FinishWritable PROVE Keeps
<1>0. stack # <<>>
  BY DEF FinishWritable, Running
<1> SUFFICES ASSUME NEW s \in Sockets, s = Top.sub PROVE Keeps
  BY <1>0, TopIs
<1>1. /\ Top.kind = "writable" /\ stack' = Below /\ UNCHANGED <<ending, timedOut, needsUncork, sent, fault>>
      /\ io' = StopPolling(io, s)
  BY DEF FinishWritable, Running
<1>2. Top = Head(stack) /\ Below = <<>> /\ Frames(Below) = {} /\ Below = Tail(stack)
  BY <1>0, <1>1, TopIs, NoFrames DEF Below
<1>3. Good(io, ending, sent) /\ (NoLongInDrain => Marked(io, s))
  BY <1>0, <1>1, Facts, TopIs DEF Fits
<1> DEFINE j == io'
<1>4. j = StopPolling(io, s)
  BY <1>1
<1> HIDE DEF j
<1>5. Good(j, ending, sent) /\ Passes(io, j, s) /\ Same(io, j) /\ j.open = io.open
  BY <1>3, <1>4, GoodStops
<1>6. j.corked = io.corked
  BY <1>5 DEF Same
<1>7. Below \in Seq(Frame) /\ Stacked(Below, j, ending, needsUncork)
  BY <1>0, <1>1, <1>2, <1>5, <1>6, Returns
<1>8. Typed'
  BY <1>1, <1>7 DEF IInv, Typed
<1>9. IInv'
  BY <1>1, <1>5, <1>7, <1>8, Kept DEF j
<1>10. Step(s) /\ AfterEnd
  BY <1>1, <1>5, SentSame DEF Step, AfterEnd, j
<1> QED BY <1>9, <1>10 DEF Keeps

\* Between two events the stack stays empty.
LEMMA StaysIdle ==
  ASSUME IInv, Idle, NEW j, j.corked = io.corked, NEW e
  PROVE  Stacked(stack, j, e, needsUncork)
<1>1. Frames(stack) = {} /\ Nested(stack) /\ OneBatch(stack)
  BY NoFrames DEF Idle
<1>2. NoNestedDrain => j.corked = NoSocket
  BY NobodyCorks
<1> QED BY <1>1, <1>2 DEF Stacked, Framed, Lent

\* What on_writable has written.
LEMMA WritableIs ==
  ASSUME IInv, Idle, NEW s \in Sockets, NEW o \in Write([io EXCEPT !.failed = FALSE], s, <<>>)
  PROVE  /\ Good(o.io, ending, sent) /\ (NoNestedDrain => Passes(io, o.io, s))
         /\ o.io.open = io.open /\ o.io.shut = io.shut /\ o.io.corked = io.corked /\ Marked(o.io, s)
<1> DEFINE i == [io EXCEPT !.failed = FALSE]
<1>1. State(io) /\ Good(io, ending, sent) /\ sent \in [Sockets -> Nat] /\ sent[s] \in Nat
  BY Facts
<1>2. o \in Write(i, s, <<>>) /\ i = [io EXCEPT !.failed = FALSE]
  OBVIOUS
<1> HIDE DEF i
<1>3. Good(i, ending, sent) /\ Passes(io, i, s) /\ Same(io, i) /\ i.open = io.open /\ i.shut = io.shut
  BY ONLY s \in Sockets, <1>1, <1>2, GoodUnfailed
<1>4. State(i) /\ i.corked = io.corked
  BY <1>3 DEF Good, Same
<1> DEFINE k == o.io
<1>5. CASE s \notin i.open
  <2>1. k = i
    BY <1>2, <1>5 DEF Write, Outcome
  <2>2. Marked(k, s)
    BY <1>5, <2>1 DEF Marked, Sendable
  <2> QED BY <1>3, <1>4, <2>1, <2>2
<1>6. CASE s \in i.open
  <2> HIDE DEF k
  <2>1. <<>> \in Bytes
    BY DEF Bytes
  <2>2. Moves(i, k, s, <<>>) /\ Told(o, s) /\ o.failed \in BOOLEAN
    BY ONLY s \in Sockets, <1>2, <1>4, <1>6, <2>1, WriteMoves DEF k
  <2>3. Marked(k, s)
    BY <2>2 DEF Told, Marked, k
  <2>4. New(s, sent[s], 0) = <<>> /\ More(sent, sent, s, 0)
    <3>1. sent[s] + 0 = sent[s]
      BY <1>1
    <3> QED BY <1>1, <3>1, NewIs DEF More
  <2>5. NoNestedDrain => InCork(i, s) = <<>>
    <3>1. NoNestedDrain => InCork(io, s) = <<>>
      BY NobodyCorks
    <3> QED BY <1>3, <3>1 DEF Same, InCork
  <2>6. /\ Good(k, ending, sent) /\ (NoNestedDrain => Passes(i, k, s))
        /\ k.open = i.open /\ k.shut = i.shut /\ k.corked = i.corked
    <3>1. Moves(i, k, s, New(s, sent[s], 0))
      BY <2>2, <2>4
    <3> QED BY ONLY s \in Sockets, <1>1, <1>3, <2>4, <2>5, <3>1, GoodMoves
  <2>7. NoNestedDrain => Passes(io, k, s)
    <3>1. State(k)
      BY <2>6 DEF Good
    <3> QED BY <1>1, <1>3, <1>4, <2>6, <3>1, PassesAfter
  <2> QED BY <1>3, <1>4, <2>3, <2>6, <2>7 DEF k
<1> QED BY <1>5, <1>6

\* The kernel has room, and the drain handler is called or not.
LEMMA WritableKeeps == ASSUME IInv, NEW s \in Sockets, Writable(s) PROVE Keeps
<1> DEFINE j == io'
<1>1. /\ Idle /\ UNCHANGED <<ending, needsUncork, sent, fault>>
      /\ \E o \in Write([io EXCEPT !.failed = FALSE], s, <<>>) :
           \E progress \in BOOLEAN :
             /\ timedOut' = IF progress THEN timedOut \ {s} ELSE timedOut
             /\ IF progress /\ s \notin ending
                THEN j = o.io /\ stack' = <<Blank("writable", s)>>
                ELSE j = StopPolling(FinIfDrained(o.io, s), s) /\ UNCHANGED stack
  BY DEF Writable
<1>2. PICK o \in Write([io EXCEPT !.failed = FALSE], s, <<>>), progress \in BOOLEAN :
        /\ timedOut' = IF progress THEN timedOut \ {s} ELSE timedOut
        /\ IF progress /\ s \notin ending
           THEN j = o.io /\ stack' = <<Blank("writable", s)>>
           ELSE j = StopPolling(FinIfDrained(o.io, s), s) /\ UNCHANGED stack
  BY <1>1
<1> DEFINE k == o.io
<1>3. /\ Good(k, ending, sent) /\ (NoNestedDrain => Passes(io, k, s))
      /\ k.open = io.open /\ k.shut = io.shut /\ k.corked = io.corked /\ Marked(k, s)
  BY <1>1, WritableIs
<1>4. /\ State(io) /\ sent \in [Sockets -> Nat] /\ NoSocket \notin Sockets
      /\ (MaxBackpressure = 0 => NoNestedDrain /\ k.corked = NoSocket)
  BY <1>1, <1>3, Facts, NobodyCorks
<1>5. stack = <<>> /\ Frames(stack) = {}
  BY <1>1, NoFrames DEF Idle
<1>6. timedOut' \in SUBSET Sockets
  BY <1>2 DEF IInv, Typed
<1> HIDE DEF j, k
<1>7. CASE progress /\ s \notin ending
  <2> DEFINE f == Blank("writable", s)
  <2>1. j = k /\ stack' = <<f>>
    BY <1>2, <1>7 DEF k
  <2>2. f \in Frame /\ f.kind = "writable" /\ f.sub = s
    BY NoFrames
  <2> HIDE DEF f
  <2>3. <<f>> \o stack \in Seq(Frame) /\ Stacked(<<f>> \o stack, j, ending, needsUncork)
    BY <1>3, <1>5, <2>1, <2>2, CallsApp
  <2>4. stack' \in Seq(Frame) /\ Stacked(stack', j, ending, needsUncork)
    BY <1>5, <2>1, <2>2, <2>3, Alone
  <2>5. Typed'
    BY <1>1, <1>6, <2>4 DEF IInv, Typed
  <2>6. IInv'
    BY <1>1, <1>3, <2>1, <2>4, <2>5, Kept DEF j
  <2>7. (MaxBackpressure = 0 => Step(s)) /\ AfterEnd
    BY <1>1, <1>3, <1>4, <2>1, SentSame DEF Step, AfterEnd, j
  <2> QED BY <2>6, <2>7 DEF Keeps
<1>8. CASE ~(progress /\ s \notin ending)
  <2> DEFINE l == FinIfDrained(k, s)
  <2>2. j = StopPolling(l, s) /\ stack' = stack /\ l = FinIfDrained(k, s)
    BY <1>2, <1>8 DEF k
  <2> HIDE DEF l
  <2>4. /\ Good(l, ending, sent) /\ Passes(k, l, s) /\ l.open = k.open /\ l.corked = k.corked
        /\ \A r \in Sockets : Marked(k, r) => Marked(l, r)
    <3>1. Good(k, ending, sent) /\ (MaxBackpressure = 0 => k.corked # s)
      BY <1>3, <1>4
    <3> QED BY ONLY s \in Sockets, <2>2, <3>1, FinIfDrainedIs
  <2>5. Marked(l, s)
    BY <1>3, <2>4
  <2>6. Good(j, ending, sent) /\ Passes(l, j, s) /\ Same(l, j) /\ j.open = l.open
    BY ONLY s \in Sockets, <2>2, <2>4, <2>5, GoodStops
  <2>7. j.corked = io.corked
    BY <1>3, <2>4, <2>6 DEF Same
  <2>8. NoNestedDrain => Passes(io, j, s)
    <3>1. State(k) /\ State(l) /\ State(j)
      BY <1>3, <2>4, <2>6 DEF Good
    <3>2. Passes(k, j, s)
      BY <2>4, <2>6, <3>1, PassesAfter
    <3> QED BY <1>3, <1>4, <3>1, <3>2, PassesAfter
  <2>9. Stacked(stack, j, ending, needsUncork)
    BY <1>1, <2>7, StaysIdle
  <2>10. Typed'
    BY <1>1, <1>6, <2>2 DEF IInv, Typed
  <2>11. IInv'
    BY <1>1, <2>2, <2>6, <2>9, <2>10, Kept DEF j
  <2>12. (MaxBackpressure = 0 => Step(s)) /\ AfterEnd
    BY <1>1, <1>4, <2>8, SentSame DEF Step, AfterEnd, j
  <2> QED BY <2>11, <2>12 DEF Keeps
<1> QED BY <1>7, <1>8

\* A socket times out.
LEMMA TimeoutKeeps == ASSUME IInv, NEW s \in Sockets, Timeout(s) PROVE Keeps
<1>1. Idle /\ s \in io.open /\ UNCHANGED <<needsUncork, stack, fault>>
  BY DEF Timeout
<1>2. CASE Live(s) /\ s \notin timedOut
  <2>1. /\ timedOut' = timedOut \cup {s} /\ UNCHANGED ending /\ s \notin ending
        /\ \E o \in Write(io, s, NewBytes(s, PingSize)) : io' = o.io
        /\ sent' = [sent EXCEPT ![s] = @ + PingSize]
    BY <1>2 DEF Timeout, Live
  <2> DEFINE j == io'
             d == sent'
             b == NewBytes(s, PingSize)
  <2>2. /\ State(io) /\ Good(io, ending, sent) /\ sent \in [Sockets -> Nat] /\ sent[s] \in Nat
        /\ (MaxBackpressure = 0 => NoNestedDrain /\ s \notin io.shut)
    BY <2>1, Facts
  <2>3. PingSize \in Nat \ {0}
    BY WebSocketSendAssumption
  <2>4. b = New(s, sent[s], PingSize) /\ b \in Bytes
    BY <2>3, NewBytesIs
  <2>5. More(sent, d, s, PingSize)
    BY <2>1 DEF More
  <2> HIDE DEF j, d, b
  <2>6. PICK o \in Write(io, s, b) : j = o.io
    BY <2>1 DEF j, b
  <2>7. Moves(io, j, s, b)
    BY <1>1, <2>2, <2>4, <2>6, WriteMoves
  <2>8. NoNestedDrain => InCork(io, s) = <<>>
    BY <1>1, NobodyCorks
  <2>9. /\ Good(j, ending, d) /\ d \in [Sockets -> Nat] /\ (NoNestedDrain => Passes(io, j, s))
        /\ j.corked = io.corked
    <3>1. Moves(io, j, s, New(s, sent[s], PingSize)) /\ PingSize \in Nat
      BY <2>3, <2>4, <2>7
    <3> QED BY ONLY s \in Sockets, <2>2, <2>5, <2>8, <3>1, GoodMoves
  <2>10. d[s] = sent[s] + PingSize /\ \A r \in Sockets \ {s} : d[r] = sent[r]
    BY <2>2, <2>5 DEF More
  <2>11. sent[s] <= d[s]
    BY <2>2, <2>3, <2>10
  <2>12. Stacked(stack, j, ending, needsUncork)
    BY <1>1, <2>9, StaysIdle
  <2>13. Typed'
    BY <1>1, <2>1, <2>9 DEF IInv, Typed, d
  <2>14. IInv'
    BY <1>1, <2>1, <2>9, <2>12, <2>13, Kept DEF j, d
  <2>15. MaxBackpressure = 0 => Step(s)
    BY <2>2, <2>9, <2>10, <2>11 DEF Step, j, d
  <2>16. AfterEnd
    BY <2>1, <2>10 DEF AfterEnd, IInv, Typed, d
  <2> QED BY <2>14, <2>15, <2>16 DEF Keeps
<1>3. CASE ~(Live(s) /\ s \notin timedOut)
  <2>1. io' = Closed(io, s) /\ ending' = ending \cup {s} /\ UNCHANGED <<timedOut, sent>>
    BY <1>3 DEF Timeout
  <2>2. \A f \in Frames(stack) : f.kind = "batch" => f.left = 0
    BY <1>1, NoFrames DEF Idle
  <2> QED BY <1>1, <2>1, <2>2, ClosesStill
<1> QED BY <1>2, <1>3

-----------------------------------------------------------------------------
(* The invariant holds.                                                    *)

\* It holds at the start: nothing is sent and nobody waits.
LEMMA InitIs == Init => IInv
<1> SUFFICES ASSUME Init PROVE IInv
  OBVIOUS
<1>1. /\ io = [open |-> Sockets, shut |-> {}, polls |-> {}, failed |-> FALSE,
               wire |-> [s \in Sockets |-> <<>>], buffer |-> [s \in Sockets |-> <<>>],
               removed |-> [s \in Sockets |-> 0], corked |-> NoSocket, cork |-> <<>>]
      /\ ending = {} /\ timedOut = {} /\ needsUncork = FALSE /\ sent = [s \in Sockets |-> 0]
      /\ stack = <<>> /\ fault = "none"
  BY DEF Init
<1>2. /\ io \in IO /\ io.open = Sockets /\ io.shut = {} /\ io.corked = NoSocket /\ io.cork = <<>>
      /\ \A s \in Sockets : io.wire[s] = <<>> /\ io.buffer[s] = <<>> /\ io.removed[s] = 0
  BY <1>1 DEF IO
<1>3. EraseShare \in Nat /\ NoSocket \notin Sockets
  BY AsyncSocketAssumption
<1>4. State(io) /\ Tidy(io)
  <2>1. ASSUME NEW s \in Sockets PROVE io.removed[s] * EraseShare <= TotalLength(io, s)
    <3>1. io.removed[s] * EraseShare = 0 /\ TotalLength(io, s) = 0
      BY <1>2, <1>3 DEF TotalLength
    <3> QED BY <3>1
  <2> QED BY <1>2, <2>1 DEF State, Tidy
<1>5. ASSUME NEW s \in Sockets
      PROVE  Stream(io, s) = Canon(s, sent[s]) /\ Watched(io, s)
  <2>1. InCork(io, s) = <<>> /\ io.wire[s] = <<>> /\ io.buffer[s] = <<>> /\ sent[s] = 0
    BY <1>1, <1>2, <1>3 DEF InCork
  <2>2. <<>> \o <<>> = <<>>
    BY Cat
  <2>3. Stream(io, s) = <<>> /\ Watched(io, s)
    BY <2>1, <2>2 DEF Stream, Waiting, Watched
  <2>4. Canon(s, 0) \in Bytes /\ Len(Canon(s, 0)) = 0
    BY NewIs, CanonPrefix
  <2>5. Canon(s, 0) = <<>>
    BY <2>4, Cat
  <2> QED BY <2>1, <2>3, <2>5
<1>6. Good(io, ending, sent)
  BY <1>2, <1>4, <1>5 DEF Good
<1>7. Stacked(stack, io, ending, needsUncork)
  BY <1>1, <1>2, NoFrames DEF Stacked, Framed, Lent
<1>8. Typed /\ NoForeignCork
  BY <1>1, NoFrames DEF Typed, Faults, NoForeignCork
<1> QED BY <1>6, <1>7, <1>8 DEF IInv

\* Every action keeps it.
LEMMA NextKeeps == IInv /\ Next => Keeps
<1> SUFFICES ASSUME IInv, Next PROVE Keeps
  OBVIOUS
<1>1. CASE Application
  <2>1. PICK s \in Sockets :
          \/ \E n \in Sizes : SendMessage(s, n)
          \/ \E k \in 1 .. MaxBatch : Batch(s, k)
          \/ End(s) \/ Close(s) \/ CorkCall(s)
    BY <1>1 DEF Application
  <2> QED BY <2>1, SendMessageKeeps, BatchKeeps, EndKeeps, CloseKeeps, CorkCallKeeps
<1>2. CASE Events
  BY <1>2, ConsumeKeeps, WritableKeeps, TimeoutKeeps DEF Events
<1>3. CASE Library
  BY <1>3, FinishSendKeeps, FinishEndKeeps, BatchMessageKeeps, BatchDropsKeeps, FinishBatchKeeps DEF Library
<1>4. CASE Return
  BY <1>4, FinishConsumeKeeps, FinishCorkKeeps, FinishWritableKeeps, DroppedReturnKeeps DEF Return
<1> QED BY <1>1, <1>2, <1>3, <1>4 DEF Next

\* And a step that does nothing.
LEMMA StutterKeeps == IInv /\ UNCHANGED vars => IInv'
<1> SUFFICES ASSUME IInv, UNCHANGED vars PROVE IInv'
  OBVIOUS
<1>1. UNCHANGED <<io, ending, timedOut, needsUncork, sent, stack, fault>>
  BY DEF vars
<1>2. Typed' /\ Good(io', ending', sent') /\ Stacked(stack', io', ending', needsUncork')
  BY <1>1 DEF IInv, Typed
<1> QED BY <1>1, <1>2, Kept

\* The inductive invariant: what the sockets hold and who waits on the stack.
THEOREM Inductive == Spec => []IInv
<1>1. Init => IInv
  BY InitIs
<1>2. IInv /\ [Next]_vars => IInv'
  BY NextKeeps, StutterKeeps DEF Keeps
<1> QED BY <1>1, <1>2, PTL DEF Spec

-----------------------------------------------------------------------------
(* Theorems.                                                               *)

\* Whatever the application calls, and where, the state is of its types and
\* getBufferedAmount is off by no more than its share (AsyncSocket.h,
\* BackPressure::erase).
THEOREM AmountsCount == Spec => [](TypeOK /\ BufferedAmountClose)
<1>1. IInv => TypeOK /\ BufferedAmountClose
  <2> SUFFICES ASSUME IInv PROVE TypeOK /\ BufferedAmountClose
    OBVIOUS
  <2>1. State(io) /\ Typed
    BY Facts DEF IInv
  <2>2. TypeOK
    BY <2>1 DEF State, Typed, TypeOK
  <2>3. BufferedAmountClose
    BY <2>1 DEF State, BufferedAmountClose, GetBufferedAmount
  <2> QED BY <2>2, <2>3
<1> QED BY <1>1, Inductive, PTL

\* Whatever part of whatever write the kernel takes, every byte sent is on the
\* wire or in one of the places that come before it, in order (AsyncSocket.h,
\* write, uncork and getSendBuffer), if no dropped handler starts a drain.
THEOREM BytesAreAccounted == ASSUME NoNestedDrain PROVE Spec => []BytesAccounted
<1>1. IInv => InOrder
  <2> SUFFICES ASSUME IInv, NEW s \in io.open
               PROVE  io.wire[s] \o Unsent(s) = [k \in 1 .. sent[s] |-> <<s, k>>]
    BY DEF InOrder
  <2>1. Stream(io, s) = Canon(s, sent[s])
    BY Facts DEF Good
  <2> QED BY <2>1 DEF Stream, Waiting, InCork, Unsent, Canon
<1> QED BY <1>1, AmountsCount, Inductive, PTL DEF BytesAccounted

\* The cork buffer is given back by whoever took it, and never lent while it has
\* bytes of another socket (Loop.h:62), if no dropped handler starts a drain.
THEOREM CorkIsKept == ASSUME NoNestedDrain PROVE Spec => []CorkKept
<1>1. IInv => CorkKept
  BY NobodyCorks DEF CorkKept, CorkReleased, NoForeignCork, IInv
<1> QED BY <1>1, Inductive, PTL

\* A socket with backpressure is polled for writable, if no drain handler sends
\* a message of the long path, whose short write goes unnoticed.
THEOREM BackpressureIsPolled == ASSUME NoLongInDrain PROVE Spec => []BackpressurePolled
<1>1. IInv => BackpressurePolled
  <2> SUFFICES ASSUME IInv, NEW s \in io.open \ io.shut, io.buffer[s] # <<>> PROVE s \in io.polls
    BY DEF BackpressurePolled
  <2>1. s \in Sockets /\ Watched(io, s)
    BY Facts DEF Good
  <2> QED BY <2>1 DEF Watched, Sendable
<1> QED BY <1>1, Inductive, PTL

\* Nothing is sent on a socket once it has been ended but what its end has still
\* to drain and the close frame, if no dropped handler ends a socket.
THEOREM EndIsLast == ASSUME NoEndInDrop PROVE Spec => NothingAfterEnd
<1>1. IInv /\ [Next]_vars => [\A s \in ending : ~OnStack("end", s) => sent'[s] = sent[s]]_vars
  BY NextKeeps DEF Keeps, AfterEnd
<1> QED BY <1>1, Inductive, PTL DEF Spec, NothingAfterEnd

-----------------------------------------------------------------------------
(* Refinement.                                                             *)

\* The bytes in front of what was sent on s are the first of them.
LEMMA FrontIs ==
  ASSUME NEW s \in Sockets, NEW n \in Nat, NEW b \in Bytes, NEW w \in Bytes, b \o w = Canon(s, n)
  PROVE  \A k \in 1 .. Len(b) : b[k] = <<s, k>>
<1> DEFINE c == Canon(s, n)
<1>1. Len(c) = n /\ \A k \in 1 .. n : c[k] = <<s, k>>
  BY CanonPrefix DEF Canon
<1> HIDE DEF c
<1>2. /\ Len(b \o w) = Len(b) + Len(w) /\ Len(b) \in Nat /\ Len(w) \in Nat
      /\ \A k \in 1 .. Len(b) + Len(w) : (b \o w)[k] = IF k <= Len(b) THEN b[k] ELSE w[k - Len(b)]
  BY ConcatProperties DEF Bytes
<1>3. b \o w = c
  BY DEF c
<1>4. ASSUME NEW k \in 1 .. Len(b) PROVE b[k] = <<s, k>>
  <2>1. k \in 1 .. Len(b) + Len(w) /\ k <= Len(b)
    BY <1>2
  <2>2. c[k] = b[k]
    BY <1>2, <1>3, <2>1
  <2>3. k \in 1 .. n
    BY <1>1, <1>2, <1>3, <2>1
  <2> QED BY <1>1, <2>2, <2>3
<1> QED BY <1>4

\* b and then w are the first n bytes sent on s.
Parts(s, n, b, w) == b \in Bytes /\ w \in Bytes /\ b \o w = Canon(s, n)

\* b is in front of c.
Shorter(b, c) == Len(b) <= Len(c)
InFront(b, c) == Shorter(b, c) /\ SubSeq(c, 1, Len(b)) = b

\* What was on the wire is in front of what is.
LEMMA WireExtends ==
  ASSUME NEW s \in Sockets, NEW n \in Nat, NEW m \in Nat, NEW b, NEW w, NEW c, NEW v,
         Parts(s, n, b, w), Parts(s, m, c, v), Shorter(b, c)
  PROVE  InFront(b, c)
<1>0. b \in Bytes /\ w \in Bytes /\ c \in Bytes /\ v \in Bytes /\ b \o w = Canon(s, n) /\ c \o v = Canon(s, m)
      /\ Len(b) <= Len(c)
  BY DEF Parts, Shorter
<1>1. \A k \in 1 .. Len(b) : b[k] = <<s, k>>
  BY <1>0, FrontIs
<1>2. \A k \in 1 .. Len(c) : c[k] = <<s, k>>
  BY <1>0, FrontIs
<1>3. Len(b) \in Nat /\ Len(c) \in Nat
  BY <1>0, Cat
<1> DEFINE n0 == Len(b)
           p == SubSeq(c, 1, n0)
<1>4. n0 \in 0 .. Len(c)
  BY <1>0, <1>3
<1>5. p \in Bytes /\ Len(p) = n0 /\ \A k \in 1 .. n0 : p[k] = c[k]
  <2> HIDE DEF n0
  <2> QED BY ONLY <1>0, <1>4, Split
<1> HIDE DEF p
<1>6. ASSUME NEW k \in 1 .. n0 PROVE p[k] = b[k]
  <2>1. k \in 1 .. Len(c)
    BY <1>0, <1>3
  <2> QED BY <1>1, <1>2, <1>5, <2>1
<1>7. p = b
  BY <1>0, <1>5, <1>6, SeqEqual DEF Bytes
<1> QED BY <1>0, <1>7 DEF p, InFront, Shorter

\* The bytes of s that wait, as the streams see them.
Left(i, s) == IF s \in i.open THEN Waiting(i, s) ELSE <<>>

\* They are what the refinement mapping gives to the streams.
LEMMA LeftIs ==
  /\ [s \in Sockets |-> IF s \in io.open THEN Unsent(s) ELSE <<>>] = [s \in Sockets |-> Left(io, s)]
  /\ [s \in Sockets |-> IF s \in io'.open THEN Unsent(s)' ELSE <<>>] = [s \in Sockets |-> Left(io', s)]
<1>1. \A s \in Sockets : Unsent(s) = Waiting(io, s)
  BY DEF Unsent, Waiting, InCork
<1>2. \A s \in Sockets : Unsent(s)' = Waiting(io', s)
  BY DEF Unsent, Waiting, InCork
<1> QED BY <1>1, <1>2 DEF Left

\* A step of an open socket transfers bytes: they go on from the front, and FIN
\* comes when none is left.
LEMMA Transfers ==
  ASSUME MaxBackpressure = 0, IInv, IInv', NEW s \in Sockets, Passes(io, io', s), s \in io.open, sent[s] <= sent'[s],
         NEW j, j = io'
  PROVE  /\ InFront(io.wire[s], j.wire[s])
         /\ InFront(io.wire[s] \o Left(io, s), j.wire[s] \o Left(j, s))
         /\ j.open = io.open
         /\ s \in io.shut => Left(j, s) = Left(io, s) /\ j.wire[s] = io.wire[s]
         /\ j.shut = io.shut \/ (j.shut = io.shut \cup {s} /\ Left(j, s) = <<>>)
         /\ \A r \in Sockets \ {s} : Left(j, r) = Left(io, r) /\ j.wire[r] = io.wire[r]
<1> DEFINE d == sent'
<1>0. /\ Good(io, ending, sent) /\ sent \in [Sockets -> Nat] /\ Good(j, ending', d) /\ d \in [Sockets -> Nat]
      /\ sent[s] <= d[s] /\ Passes(io, j, s)
  BY DEF IInv, Typed
<1> HIDE DEF d
<1>1. j.open = io.open /\ j.shut \in {io.shut, io.shut \cup {s}} /\ Len(io.wire[s]) <= Len(j.wire[s])
      /\ (Refuses(io, s) => j.wire[s] = io.wire[s] /\ j.shut = io.shut)
      /\ \A r \in Sockets \ {s} : j.wire[r] = io.wire[r] /\ Waiting(j, r) = Waiting(io, r)
  BY <1>0 DEF Passes
<1>2. /\ Left(io, s) = Waiting(io, s) /\ Left(j, s) = Waiting(j, s)
      /\ \A r \in Sockets \ {s} : Left(j, r) = Left(io, r)
  BY <1>1 DEF Left
<1>3. NoNestedDrain
  BY DEF NoNestedDrain
<1>4. /\ io.wire[s] \in Bytes /\ Waiting(io, s) \in Bytes /\ j.wire[s] \in Bytes /\ Waiting(j, s) \in Bytes
  BY <1>0, Fields DEF Good
<1>5. io.wire[s] \o Waiting(io, s) = Canon(s, sent[s]) /\ j.wire[s] \o Waiting(j, s) = Canon(s, d[s])
  BY <1>0, <1>1, <1>3 DEF Good, Stream
<1>6. sent[s] \in Nat /\ d[s] \in Nat
  BY <1>0
<1>7. InFront(io.wire[s], j.wire[s])
  <2>1. Parts(s, sent[s], io.wire[s], Waiting(io, s)) /\ Parts(s, d[s], j.wire[s], Waiting(j, s))
    BY <1>4, <1>5 DEF Parts
  <2>2. Shorter(io.wire[s], j.wire[s])
    BY <1>1 DEF Shorter
  <2> QED BY ONLY s \in Sockets, <1>6, <2>1, <2>2, WireExtends
<1>8. InFront(io.wire[s] \o Left(io, s), j.wire[s] \o Left(j, s))
  <2>1. Len(Canon(s, sent[s])) = sent[s] /\ SubSeq(Canon(s, d[s]), 1, sent[s]) = Canon(s, sent[s])
    BY <1>0, <1>6, CanonPrefix
  <2>2. Len(Canon(s, d[s])) = d[s]
    BY <1>0, <1>6, CanonPrefix
  <2> QED BY <1>0, <1>2, <1>5, <2>1, <2>2 DEF InFront, Shorter
<1>9. /\ \A r \in io.shut \cap io.open : Waiting(io, r) = <<>>
      /\ \A r \in j.shut \cap j.open : Waiting(j, r) = <<>>
  BY <1>0 DEF Good
<1>10. s \in io.shut => Left(j, s) = Left(io, s) /\ j.wire[s] = io.wire[s]
  BY <1>1, <1>2, <1>9 DEF Refuses
<1>11. j.shut = io.shut \/ (j.shut = io.shut \cup {s} /\ Left(j, s) = <<>>)
  BY <1>1, <1>2, <1>9
<1> QED BY <1>1, <1>2, <1>7, <1>8, <1>10, <1>11

\* A socket that is not open does not move.
LEMMA Rests ==
  ASSUME NEW i, NEW j, State(i), State(j), NEW s \in Sockets, Passes(i, j, s), s \notin i.open
  PROVE  /\ j.open = i.open /\ j.shut = i.shut /\ j.wire = i.wire
         /\ \A r \in Sockets : Left(j, r) = Left(i, r)
<1>1. j.open = i.open /\ j.shut = i.shut /\ j.wire[s] = i.wire[s]
      /\ \A r \in Sockets \ {s} : j.wire[r] = i.wire[r] /\ Waiting(j, r) = Waiting(i, r)
  BY DEF Passes, Refuses
<1>2. i.wire \in [Sockets -> Seq(Byte)] /\ j.wire \in [Sockets -> Seq(Byte)]
  BY DEF State, IO
<1>3. \A r \in Sockets : j.wire[r] = i.wire[r]
  BY <1>1
<1>4. j.wire = i.wire
  BY <1>2, <1>3
<1> QED BY <1>1, <1>4 DEF Left

\* A step of a socket is a step of the streams.
LEMMA StepStreams ==
  ASSUME IInv, IInv', MaxBackpressure = 0, NEW s \in Sockets, Step(s)
  PROVE  [Streams!Next]_Streams!vars
<1> DEFINE j == io'
           U == [r \in Sockets |-> IF r \in io.open THEN Unsent(r) ELSE <<>>]
           V == [r \in Sockets |-> IF r \in io'.open THEN Unsent(r)' ELSE <<>>]
<1>1. U = [r \in Sockets |-> Left(io, r)] /\ V = [r \in Sockets |-> Left(j, r)]
  BY LeftIs
<1>2. /\ Good(io, ending, sent) /\ sent \in [Sockets -> Nat] /\ State(io)
      /\ Good(j, ending', sent') /\ sent' \in [Sockets -> Nat] /\ State(j)
  BY DEF IInv, Typed, Good
<1>3. \A r \in Sockets : U[r] = Left(io, r) /\ V[r] = Left(j, r)
  BY <1>1
<1> HIDE DEF j, U, V
<1>4. ASSUME /\ InFront(io.wire[s], j.wire[s]) /\ InFront(io.wire[s] \o U[s], j.wire[s] \o V[s])
             /\ j.open = io.open /\ s \in io.open
             /\ s \in io.shut => V[s] = U[s] /\ j.wire[s] = io.wire[s]
             /\ j.shut = io.shut \/ (j.shut = io.shut \cup {s} /\ V[s] = <<>>)
             /\ \A r \in Sockets \ {s} : V[r] = U[r] /\ j.wire[r] = io.wire[r]
      PROVE  Streams!Next
  BY <1>4 DEF Streams!Next, Streams!Transfer, Streams!Extends, Streams!Same, InFront, Shorter, j, U, V
<1>5. ASSUME /\ j.open = io.open \ {s} /\ V[s] = <<>> /\ j.wire[s] = io.wire[s] /\ j.shut = io.shut
             /\ \A r \in Sockets \ {s} : V[r] = U[r] /\ j.wire[r] = io.wire[r]
      PROVE  Streams!Next
  BY <1>5 DEF Streams!Next, Streams!Close, Streams!Same, j, U, V
<1>6. ASSUME V = U, j.wire = io.wire, j.open = io.open, j.shut = io.shut
      PROVE  UNCHANGED Streams!vars
  BY <1>6 DEF Streams!vars, j, U, V
<1>7. CASE j = Closed(io, s)
  <2>1. /\ Good(j, ending \cup {s}, sent) /\ j.open = io.open \ {s} /\ j.shut = io.shut /\ j.wire = io.wire
        /\ \A r \in Sockets \ {s} : Waiting(j, r) = Waiting(io, r)
    <3>1. Good(io, ending, sent)
      BY <1>2
    <3> QED BY ONLY <3>1, <1>7, s \in Sockets, GoodClosed
  <2>2. Left(j, s) = <<>> /\ \A r \in Sockets \ {s} : Left(j, r) = Left(io, r)
    BY <2>1 DEF Left
  <2> QED BY <1>3, <1>5, <2>1, <2>2
<1>8. CASE Passes(io, j, s) /\ sent[s] <= sent'[s]
  <2>1. CASE s \in io.open
    <3>1. /\ InFront(io.wire[s], j.wire[s])
          /\ InFront(io.wire[s] \o Left(io, s), j.wire[s] \o Left(j, s))
          /\ j.open = io.open
          /\ s \in io.shut => Left(j, s) = Left(io, s) /\ j.wire[s] = io.wire[s]
          /\ j.shut = io.shut \/ (j.shut = io.shut \cup {s} /\ Left(j, s) = <<>>)
          /\ \A r \in Sockets \ {s} : Left(j, r) = Left(io, r) /\ j.wire[r] = io.wire[r]
      BY <1>8, <2>1, Transfers DEF j
    <3> QED BY <1>3, <1>4, <2>1, <3>1
  <2>2. CASE s \notin io.open
    <3>1. /\ j.open = io.open /\ j.shut = io.shut /\ j.wire = io.wire
          /\ \A r \in Sockets : Left(j, r) = Left(io, r)
      BY ONLY <1>2, <1>8, <2>2, s \in Sockets, Rests
    <3>2. V = U
      BY <1>1, <3>1
    <3> QED BY <1>6, <3>1, <3>2
  <2> QED BY <2>1, <2>2
<1> QED BY <1>7, <1>8 DEF Step, j

\* Every WebSocket implements a byte stream: what it accepts reaches the wire in
\* order, and FIN comes after all of it (WebSocket.h, WebSocketContext.h), if
\* there is no limit at which messages are dropped.
THEOREM StreamsImplemented == ASSUME MaxBackpressure = 0 PROVE Spec => ImplementsStreams
<1>1. Init => Streams!Init
  <2> SUFFICES ASSUME Init PROVE Streams!Init
    OBVIOUS
  <2>1. /\ io.open = Sockets /\ io.shut = {} /\ io.corked = NoSocket /\ io.wire = [s \in Sockets |-> <<>>]
        /\ io.buffer = [s \in Sockets |-> <<>>]
    BY DEF Init
  <2>2. \A s \in Sockets : Unsent(s) = <<>>
    <3>1. <<>> \o <<>> = <<>>
      BY Cat
    <3> QED BY <2>1, <3>1, AsyncSocketAssumption DEF Unsent
  <2> QED BY <2>1, <2>2 DEF Streams!Init
<1>2. IInv /\ [Next]_vars => [Streams!Next]_Streams!vars
  <2> SUFFICES ASSUME IInv, [Next]_vars PROVE [Streams!Next]_Streams!vars
    OBVIOUS
  <2>1. CASE Next
    BY <2>1, NextKeeps, StepStreams DEF Keeps
  <2>2. CASE UNCHANGED vars
    BY <2>2 DEF vars, Streams!vars, Unsent
  <2> QED BY <2>1, <2>2
<1> QED BY <1>1, <1>2, Inductive, PTL DEF Spec, ImplementsStreams, Streams!Spec

=============================================================================
