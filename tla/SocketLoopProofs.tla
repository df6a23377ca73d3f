------------------------- MODULE SocketLoopProofs -------------------------
(***************************************************************************)
(* The lists of the event loop and the sweep that walks them while its     *)
(* handlers change them, for any number of sockets and contexts.  The      *)
(* lists are threaded through the records of the sockets: a ghost function *)
(* places every socket in a list, and another ranks the sockets of each    *)
(* list downwards along next, so that no list is a cycle and the sweep can *)
(* tell what is ahead of it.                                               *)
(***************************************************************************)
EXTENDS SocketLoop, TLAPS, FiniteSetTheorems, NaturalsInduction

-----------------------------------------------------------------------------
(* The inductive invariant.                                                *)

\* The lists, and the places of the sockets that are in none.
Out    == <<"out", 0>>
Closed == <<"closed", 0>>
Queue  == <<"low", 0>>
Listens == {<<"listen", c>> : c \in Contexts}
Heads   == {<<"head", c>> : c \in Contexts}
Doubly  == {Queue} \cup Listens \cup Heads
Lists   == {Closed} \cup Doubly

\* The list that the record of a socket says it is in.
Place(k) ==
  IF k.kind \in {"free", "dead"} THEN Out
  ELSE IF k.prev = k.ctx THEN Closed
  ELSE IF k.kind = "listen" THEN <<"listen", k.ctx>>
  ELSE IF k.low = 1 THEN Queue ELSE <<"head", k.ctx>>

\* The pointer to the first socket of a list.
First(m, v) ==
  IF v = Closed THEN m.closed ELSE IF v = Queue THEN m.low
  ELSE IF v[1] = "head" THEN m.head[v[2]] ELSE m.listen[v[2]]

\* The sockets are threaded into the lists where w places them. Along next the
\* rank r decreases, and no socket of the list is between two neighbours.
Threads(m, w, r) ==
  /\ \A s \in Sockets : w[s] \in Lists /\ m.sock[s].next # NULL =>
       /\ m.sock[s].next \in Sockets
       /\ w[m.sock[s].next] = w[s]
       /\ r[m.sock[s].next] < r[s]
       /\ w[s] \in Doubly => m.sock[m.sock[s].next].prev = s
  /\ \A s \in Sockets : w[s] \in Doubly /\ m.sock[s].prev # NULL =>
       /\ m.sock[s].prev \in Sockets
       /\ w[m.sock[s].prev] = w[s]
       /\ m.sock[m.sock[s].prev].next = s
  /\ \A v \in Lists : First(m, v) # NULL =>
       /\ First(m, v) \in Sockets
       /\ w[First(m, v)] = v
       /\ v \in Doubly => m.sock[First(m, v)].prev = NULL
  /\ \A s \in Sockets : w[s] \in Doubly /\ m.sock[s].prev = NULL => First(m, w[s]) = s
  /\ \A s \in Sockets : w[s] \in Lists => First(m, w[s]) # NULL /\ r[s] <= r[First(m, w[s])]
  /\ \A s, t \in Sockets : w[s] \in Lists /\ w[t] = w[s] /\ r[t] < r[s] =>
       m.sock[s].next # NULL /\ r[t] <= r[m.sock[s].next]
  /\ \A s, t \in Sockets : w[s] \in Lists /\ w[t] = w[s] /\ r[t] = r[s] => t = s

Placing == [Sockets -> Lists \cup {Out}]

\* Ranks, and a bound of them.
Ranking(b) == [Sockets -> 0 .. b]

Placed(m) == [s \in Sockets |-> Place(m.sock[s])]

\* The timeouts that the application sets are shorter than a turn of the counter.
LessThanATurn == ShortTicks \cup LongMinutes \subseteq 1 .. Modulus - 1

\* Then what remains of a timeout that is set is, too; nothing remains of one that was missed.
InTime(k) ==
  LessThanATurn =>
    /\ k.timeout # None => k.wait < Modulus /\ ("short" \in k.missed => k.wait = 0)
    /\ k.long # None => k.longWait <= (Modulus - 1) * LongRatio /\ ("long" \in k.missed => k.longWait < LongRatio)

\* The record of one socket: libuv's handle, the poll for reading and the
\* low-priority state agree with whether it is open.
RecordSound(k) ==
  /\ k.kind \in {"free", "dead"} => k.handle \in {"none", "freeing", "leaked"} /\ ~k.reads
  /\ k.kind \in {"socket", "listen"} /\ k.prev # k.ctx => k.handle = "active"
  /\ k.kind \in {"socket", "listen"} /\ k.prev = k.ctx => k.handle \in {"stopping", "stopped"} /\ ~k.reads
  /\ k.kind = "socket" /\ k.prev # k.ctx => (k.reads <=> k.low # 1) /\ (k.low = 1 => k.shaking)
  /\ k.handle \in {"stopped", "leaked"} => k.late
  /\ InTime(k)

\* What the phase ph and the paused sockets say of the record of s.
RecordFits(k, s, ph, pa, ti) ==
  /\ ph = "immediates" /\ k.handle = "stopping" => k.late
  /\ k.kind = "listen" /\ k.prev # k.ctx /\ ~k.reads => ti /\ \E i \in DOMAIN pa : pa[i] = s

Handlers == {"short", "long"}

\* The sweep is in a handler and comes to s later.
Ahead(m, ph, a, r, s) ==
  /\ ph \in Handlers
  /\ Place(m.sock[s]) = <<"head", a.ctx>>
  /\ m.iterator[a.ctx] # NULL
  /\ r[s] <= r[m.iterator[a.ctx]]

\* A timeout of s that is set and was not missed is aligned with the counter,
\* and it is to come or the sweep comes to s.
ShortComing(m, ph, a, r, s) ==
  LET k == m.sock[s]
  IN  k.timeout # None /\ "short" \notin k.missed =>
        /\ k.timeout = (m.tick[k.ctx] + k.wait) % Modulus
        /\ k.wait > 0 \/ (Ahead(m, ph, a, r, s) /\ (s = m.iterator[a.ctx] => s # a.sock))

LongComing(m, ph, a, r, s) ==
  LET k == m.sock[s]
  IN  k.long # None /\ "long" \notin k.missed =>
        /\ k.long = ((m.tick[k.ctx] + k.longWait) \div LongRatio) % Modulus
        /\ k.longWait > 0 \/ (Ahead(m, ph, a, r, s) /\ (s = m.iterator[a.ctx] => s # a.sock \/ ph = "short"))

Coming(m, ph, a, r, s) ==
  m.sock[s].kind = "socket" /\ Alive(m, s) => ShortComing(m, ph, a, r, s) /\ LongComing(m, ph, a, r, s)

\* The cursor of the sweep is in the list that is swept, at the socket whose
\* handler runs unless that socket has left the list for good.
CursorIn(m, ph, a) ==
  /\ \A c \in Contexts : m.iterator[c] # NULL =>
       /\ ph \in Handlers /\ a.ctx = c
       /\ m.iterator[c] \in Sockets /\ Place(m.sock[m.iterator[c]]) = <<"head", c>>
  /\ ph \in Handlers =>
       \/ m.iterator[a.ctx] = a.sock
       \/ m.sock[a.sock].kind = "dead" \/ Place(m.sock[a.sock]) = Closed

Walk(m, ph, a, r) == CursorIn(m, ph, a) /\ \A s \in Sockets : Coming(m, ph, a, r, s)

\* The threads and the walk, for some ranks.
Walked(m, ph, a) == \E b \in Nat : \E r \in Ranking(b) : Threads(m, Placed(m), r) /\ Walk(m, ph, a, r)

Records(m, ph, pa, ti) ==
  \A s \in Sockets : RecordSound(m.sock[s]) /\ RecordFits(m.sock[s], s, ph, pa, ti)

Swept(ph, a) ==
  /\ ph \in Handlers \cup {"sweep"} => a.ctx \in Contexts
  /\ ph \in Handlers => a.sock \in Sockets

LoopInv ==
  /\ TypeOK
  /\ Walked(l, phase, at)
  /\ Records(l, phase, paused, timer)
  /\ paused # <<>> => timer
  /\ Swept(phase, at)

-----------------------------------------------------------------------------
(* Natural numbers.                                                        *)

\* A well-founded order that contains < has a least element in every set.
LEMMA LeastOf ==
  ASSUME NEW S \in SUBSET Nat, S # {}, NEW R, IsWellFoundedOn(R, Nat),
         \A m, n \in Nat : m < n => <<m, n>> \in R
  PROVE  \E m \in S : \A n \in S : m <= n
<1> DEFINE Least(T) == \E m \in T : \A n \in T : ~(<<n, m>> \in R)
<1>0. Least(S)
  BY ONLY S \in SUBSET Nat, S # {}, IsWellFoundedOn(R, Nat), WFMin
<1>1. PICK m \in S : \A n \in S : ~(<<n, m>> \in R)
  BY <1>0
<1>2. \A n \in S : ~(n < m)
  BY <1>1
<1> QED BY <1>2

\* Every set of naturals that is not empty has a least element.
LEMMA LeastNatural ==
  ASSUME NEW S \in SUBSET Nat, S # {}
  PROVE  \E m \in S : \A n \in S : m <= n
<1> DEFINE R == OpToRel(<, Nat)
<1>1. IsWellFoundedOn(R, Nat)
  BY NatLessThanWellFounded
<1>2. \A m, n \in Nat : m < n => <<m, n>> \in R
  BY DEF OpToRel
<1> HIDE DEF R
<1> QED BY <1>1, <1>2, LeastOf

\* A function is iterated N times from x; the values are in G[n] after n times.
Stays(N, V, f, G, x) ==
  /\ x \in G[0]
  /\ \A n \in 0 .. N : G[n] \subseteq V
  /\ \A n \in 1 .. N : \A y \in G[n - 1] : f[y] \in G[n]

Iterated(N, V, f, G, x) ==
  \E g \in [0 .. N -> V] : g[0] = x /\ \A n \in 0 .. N : g[n] \in G[n] /\ (n > 0 => g[n] = f[g[n - 1]])

\* A function that stays in a set has iterates in it.
LEMMA Iterates ==
  ASSUME NEW N \in Nat, NEW V, NEW f, NEW G, NEW x, Stays(N, V, f, G, x)
  PROVE  Iterated(N, V, f, G, x)
<1>0. /\ x \in G[0]
      /\ \A n \in 0 .. N : G[n] \subseteq V
      /\ \A n \in 1 .. N : \A y \in G[n - 1] : f[y] \in G[n]
  BY DEF Stays
<1> DEFINE Good(n) == \E g \in [0 .. n -> V] :
             g[0] = x /\ \A k \in 0 .. n : g[k] \in G[k] /\ (k > 0 => g[k] = f[g[k - 1]])
           Bad == {n \in 0 .. N : ~Good(n)}
<1> SUFFICES Good(N)
  BY DEF Iterated
<1> SUFFICES ASSUME Bad # {} PROVE FALSE
  OBVIOUS
<1>1. PICK n \in Bad : \A k \in Bad : n <= k
  <2> Bad \in SUBSET Nat
    OBVIOUS
  <2> HIDE DEF Bad
  <2> QED BY LeastNatural
<1>2. CASE n = 0
  <2> DEFINE h == [k \in 0 .. 0 |-> x]
  <2>1. h \in [0 .. 0 -> V] /\ h[0] = x /\ \A k \in 0 .. 0 : k = 0
    BY <1>0
  <2>2. Good(0)
    <3> HIDE DEF h
    <3>1. \A k \in 0 .. 0 : h[k] \in G[k] /\ (k > 0 => h[k] = f[h[k - 1]])
      BY <1>0, <2>1
    <3> QED BY <2>1, <3>1
  <2> QED BY <1>1, <1>2, <2>2
<1>3. CASE n # 0
  <2>1. n - 1 \in 0 .. N /\ Good(n - 1)
    BY <1>1, <1>3
  <2>2. PICK g \in [0 .. n - 1 -> V] :
          g[0] = x /\ \A k \in 0 .. n - 1 : g[k] \in G[k] /\ (k > 0 => g[k] = f[g[k - 1]])
    BY <2>1
  <2> DEFINE h == [k \in 0 .. n |-> IF k = n THEN f[g[n - 1]] ELSE g[k]]
  <2>3. n \in 1 .. N /\ n - 1 \in 0 .. n - 1
    BY <1>1, <1>3
  <2>4. f[g[n - 1]] \in G[n]
    BY <1>0, <2>2, <2>3
  <2>5. h \in [0 .. n -> V]
    BY <1>0, <2>2, <2>3, <2>4
  <2>6. h[0] = x
    BY <2>2, <2>3
  <2>7. ASSUME NEW k \in 0 .. n PROVE h[k] \in G[k] /\ (k > 0 => h[k] = f[h[k - 1]])
    <3>1. CASE k = n
      <4>1. h[k] = f[g[n - 1]] /\ h[k - 1] = g[n - 1]
        BY <2>3, <3>1
      <4> QED BY <2>4, <3>1, <4>1
    <3>2. CASE k # n
      <4>1. k \in 0 .. n - 1 /\ h[k] = g[k] /\ (k > 0 => k - 1 \in 0 .. n /\ k - 1 # n /\ h[k - 1] = g[k - 1])
        BY <2>3, <3>2
      <4> QED BY <2>2, <4>1
    <3> QED BY <3>1, <3>2
  <2>8. Good(n)
    <3> HIDE DEF h
    <3> QED BY <2>5, <2>6, <2>7
  <2> QED BY <1>1, <2>8
<1> QED BY <1>2, <1>3

-----------------------------------------------------------------------------
(* Chains.                                                                 *)

Bound == Cardinality(Sockets) + 1

\* What the constants are.
LEMMA Constants ==
  /\ NContexts \in Nat /\ Contexts # {} /\ \A c \in Contexts : c \in Nat /\ c # 0
  /\ IsFiniteSet(Sockets) /\ Cardinality(Sockets) \in Nat /\ Bound \in Nat
  /\ NULL \notin Sockets /\ NULL \notin Contexts
  /\ \A s \in Sockets : s \notin Contexts
<1>1. Cardinality(Sockets) \in Nat
  BY SocketLoopAssumption, FS_CardinalityType
<1>2. 1 \in Contexts
  BY SocketLoopAssumption DEF Contexts
<1>3. \A c \in Contexts : c \in Nat /\ c # 0
  BY SocketLoopAssumption DEF Contexts
<1>4. Bound \in Nat
  BY <1>1 DEF Bound
<1>5. NULL \notin Sockets /\ NULL \notin Contexts /\ \A s \in Sockets : s \notin Contexts
  BY SocketLoopAssumption
<1> QED BY <1>1, <1>2, <1>3, <1>4, <1>5, SocketLoopAssumption

\* What a socket of the memory is.
LEMMA SocketType ==
  ASSUME NEW m \in Memory, NEW s \in Sockets
  PROVE  m.sock[s] \in Socket /\ m.sock[s].next \in Pointer
BY DEF Memory, Socket

\* The path follows next.
LEMMA PathSteps ==
  ASSUME NEW m \in Memory, NEW p \in Pointer
  PROVE  /\ Path(m, p) \in [0 .. Bound -> Pointer]
         /\ Path(m, p)[0] = p
         /\ \A n \in 1 .. Bound :
              Path(m, p)[n] = IF Path(m, p)[n - 1] = NULL THEN NULL ELSE m.sock[Path(m, p)[n - 1]].next
<1> DEFINE f == [q \in Pointer |-> IF q = NULL THEN NULL ELSE m.sock[q].next]
           G == [n \in 0 .. Bound |-> Pointer]
           Step(h, n) == IF n = 0 THEN p ELSE IF h[n - 1] = NULL THEN NULL ELSE m.sock[h[n - 1]].next
           Is(h) == h = [n \in 0 .. Bound |-> Step(h, n)]
<1>0. Bound \in Nat
  BY Constants
<1>1. \A q \in Pointer : f[q] \in Pointer
  BY SocketType DEF Pointer
<1>2. \E g \in [0 .. Bound -> Pointer] :
        g[0] = p /\ \A n \in 0 .. Bound : g[n] \in G[n] /\ (n > 0 => g[n] = f[g[n - 1]])
  <2>1. p \in G[0] /\ \A n \in 0 .. Bound : G[n] \subseteq Pointer
    BY <1>0
  <2>2. \A n \in 1 .. Bound : \A y \in G[n - 1] : f[y] \in G[n]
    BY <1>0, <1>1
  <2>3. Stays(Bound, Pointer, f, G, p)
    BY <2>1, <2>2 DEF Stays
  <2> HIDE DEF f, G
  <2>4. Iterated(Bound, Pointer, f, G, p)
    BY <1>0, <2>3, Iterates
  <2> QED BY <2>4 DEF Iterated
<1>3. PICK g \in [0 .. Bound -> Pointer] : g[0] = p /\ \A n \in 1 .. Bound : g[n] = f[g[n - 1]]
  BY <1>0, <1>2
<1>4. \A n \in 0 .. Bound : g[n] = Step(g, n)
  <2> SUFFICES ASSUME NEW n \in 0 .. Bound PROVE g[n] = Step(g, n)
    OBVIOUS
  <2>1. CASE n = 0
    BY <1>3, <2>1
  <2>2. CASE n # 0
    <3>1. n \in 1 .. Bound /\ n - 1 \in 0 .. Bound
      BY <1>0, <2>2
    <3>2. g[n] = f[g[n - 1]] /\ g[n - 1] \in Pointer
      BY <1>3, <3>1
    <3> QED BY <2>2, <3>2
  <2> QED BY <2>1, <2>2
<1>5. Is(g)
  BY <1>4
<1>6. Path(m, p) = CHOOSE h : Is(h)
  BY DEF Path, Bound
<1>7. Is(Path(m, p))
  <2> HIDE DEF Is
  <2> QED BY <1>5, <1>6
<1> DEFINE h == Path(m, p)
<1>8. \A n \in 0 .. Bound : h[n] = Step(h, n)
  BY <1>7
<1>9. h[0] = p /\ \A n \in 1 .. Bound : h[n] = IF h[n - 1] = NULL THEN NULL ELSE m.sock[h[n - 1]].next
  BY <1>0, <1>8
<1>10. DOMAIN h = 0 .. Bound /\ h = [n \in 0 .. Bound |-> h[n]]
  BY <1>7
<1>11. \A n \in 0 .. Bound : h[n] \in Pointer
  <2> DEFINE Bad == {n \in 0 .. Bound : h[n] \notin Pointer}
  <2> SUFFICES ASSUME Bad # {} PROVE FALSE
    OBVIOUS
  <2>1. PICK n \in Bad : \A k \in Bad : n <= k
    <3> Bad \in SUBSET Nat
      BY <1>0
    <3> HIDE DEF Bad
    <3> QED BY LeastNatural
  <2>2. n # 0
    BY <1>9, <2>1
  <2>3. n \in 1 .. Bound /\ n - 1 \in 0 .. Bound /\ n - 1 \notin Bad
    BY <1>0, <2>1, <2>2
  <2>4. h[n - 1] \in Pointer
    BY <2>3
  <2>5. h[n] \in Pointer
    <3> HIDE DEF h
    <3> QED BY <1>9, <2>3, <2>4, SocketType DEF Pointer
  <2> QED BY <2>1, <2>5
<1> QED BY <1>9, <1>10, <1>11

\* A path in a list descends.
LEMMA PathDescends ==
  ASSUME NEW m \in Memory, NEW w \in Placing, NEW b \in Nat, NEW r \in Ranking(b), Threads(m, w, r),
         NEW v \in Lists, NEW p \in Pointer, p # NULL => w[p] = v,
         NEW j \in 0 .. Bound, Path(m, p)[j] # NULL
  PROVE  /\ Path(m, p)[j] \in Sockets /\ w[Path(m, p)[j]] = v
         /\ \A i \in 0 .. j - 1 : /\ Path(m, p)[i] \in Sockets
                                  /\ r[Path(m, p)[j]] < r[Path(m, p)[i]]
<1> DEFINE h == Path(m, p)
           Good(n) == h[n] # NULL => /\ h[n] \in Sockets /\ w[h[n]] = v
                                     /\ \A i \in 0 .. n - 1 : h[i] \in Sockets /\ r[h[n]] < r[h[i]]
           Bad == {n \in 0 .. Bound : ~Good(n)}
<1>0. Bound \in Nat /\ NULL \notin Sockets
  BY Constants
<1>1. /\ h \in [0 .. Bound -> Pointer] /\ h[0] = p
      /\ \A n \in 1 .. Bound : h[n] = IF h[n - 1] = NULL THEN NULL ELSE m.sock[h[n - 1]].next
  BY PathSteps
<1>2. \A s \in Sockets : w[s] \in Lists /\ m.sock[s].next # NULL =>
        m.sock[s].next \in Sockets /\ w[m.sock[s].next] = w[s] /\ r[m.sock[s].next] < r[s]
  BY DEF Threads
<1>3. \A s \in Sockets : r[s] \in Nat
  BY DEF Ranking
<1> HIDE DEF h
<1> SUFFICES ASSUME Bad # {} PROVE FALSE
  <2>1. Good(j)
    OBVIOUS
  <2> QED BY <2>1 DEF h
<1>4. PICK n \in Bad : \A k \in Bad : n <= k
  <2> Bad \in SUBSET Nat
    BY <1>0
  <2> HIDE DEF Bad
  <2> QED BY LeastNatural
<1>5. n \in 0 .. Bound /\ ~Good(n)
  BY <1>4
<1>6. CASE n = 0
  <2>1. p # NULL => p \in Sockets
    BY DEF Pointer
  <2> QED BY <1>1, <1>5, <1>6, <2>1
<1>7. CASE n # 0
  <2>1. n \in 1 .. Bound /\ n - 1 \in 0 .. Bound
    BY <1>0, <1>5, <1>7
  <2>2. Good(n - 1)
    BY <1>0, <1>4, <2>1
  <2>3. h[n] # NULL
    BY <1>5
  <2>4. h[n - 1] # NULL /\ h[n] = m.sock[h[n - 1]].next
    BY <1>1, <2>1, <2>3
  <2>5. /\ h[n - 1] \in Sockets /\ w[h[n - 1]] = v
        /\ \A i \in 0 .. (n - 1) - 1 : h[i] \in Sockets /\ r[h[n - 1]] < r[h[i]]
    BY <2>2, <2>4
  <2>6. h[n] \in Sockets /\ w[h[n]] = v /\ r[h[n]] < r[h[n - 1]]
    BY <1>2, <2>3, <2>4, <2>5
  <2>7. ASSUME NEW i \in 0 .. n - 1 PROVE h[i] \in Sockets /\ r[h[n]] < r[h[i]]
    <3>1. CASE i = n - 1
      BY <2>5, <2>6, <3>1
    <3>2. CASE i # n - 1
      <4>1. i \in 0 .. (n - 1) - 1
        BY <2>1, <3>2
      <4>2. h[i] \in Sockets /\ r[h[n - 1]] < r[h[i]]
        BY <2>5, <4>1
      <4> QED BY <1>3, <2>5, <2>6, <4>2
    <3> QED BY <3>1, <3>2
  <2> QED BY <1>5, <2>6, <2>7
<1> QED BY <1>6, <1>7

\* So it ends before it has passed more sockets than there are.
LEMMA PathEnds ==
  ASSUME NEW m \in Memory, NEW w \in Placing, NEW b \in Nat, NEW r \in Ranking(b), Threads(m, w, r),
         NEW v \in Lists, NEW p \in Pointer, p # NULL => w[p] = v
  PROVE  \E n \in 0 .. Cardinality(Sockets) : Path(m, p)[n] = NULL
<1> DEFINE h == Path(m, p)
           N == Cardinality(Sockets)
<1> SUFFICES ASSUME \A n \in 0 .. N : h[n] # NULL PROVE FALSE
  OBVIOUS
<1>0. N \in Nat /\ Bound \in Nat /\ 0 .. N \subseteq 0 .. Bound /\ IsFiniteSet(Sockets)
  BY Constants DEF Bound
<1>1. \A j \in 0 .. N : h[j] \in Sockets /\ \A i \in 0 .. j - 1 : h[i] \in Sockets /\ r[h[j]] < r[h[i]]
  BY <1>0, PathDescends
<1> DEFINE g == [n \in 0 .. N |-> h[n]]
<1>2. g \in [0 .. N -> Sockets]
  BY <1>1
<1>3. IsFiniteSet(0 .. N) /\ Cardinality(Sockets) < Cardinality(0 .. N)
  <2> HIDE DEF N
  <2>1. 0 \in Int /\ N \in Int /\ ~(0 > N)
    BY <1>0
  <2>2. IsFiniteSet(0 .. N) /\ Cardinality(0 .. N) = IF 0 > N THEN 0 ELSE N - 0 + 1
    BY ONLY <2>1, FS_Interval
  <2> QED BY <1>0, <2>1, <2>2 DEF N
<1>4. PICK x, y \in 0 .. N : x # y /\ g[x] = g[y]
  <2> HIDE DEF g, N
  <2> QED BY <1>0, <1>2, <1>3, FS_PigeonHole
<1>5. h[x] = h[y]
  BY <1>4
<1>6. \A s \in Sockets : r[s] \in Nat
  BY DEF Ranking
<1>7. x \in 0 .. y - 1 \/ y \in 0 .. x - 1
  BY <1>0, <1>4
<1> HIDE DEF h, g
<1>8. CASE x \in 0 .. y - 1
  <2>1. h[y] \in Sockets /\ r[h[y]] < r[h[x]]
    BY <1>1, <1>8
  <2> QED BY <1>5, <1>6, <2>1
<1>9. CASE y \in 0 .. x - 1
  <2>1. h[x] \in Sockets /\ r[h[x]] < r[h[y]]
    BY <1>1, <1>9
  <2> QED BY <1>5, <1>6, <2>1
<1> QED BY <1>7, <1>8, <1>9

\* The chain is the path up to its end.
LEMMA ChainOfPath ==
  ASSUME NEW m \in Memory, NEW w \in Placing, NEW b \in Nat, NEW r \in Ranking(b), Threads(m, w, r),
         NEW v \in Lists, NEW p \in Pointer, p # NULL => w[p] = v
  PROVE  \E n \in 0 .. Cardinality(Sockets) :
           /\ Path(m, p)[n] = NULL
           /\ \A k \in 0 .. n - 1 : Path(m, p)[k] # NULL
           /\ Chain(m, p) = [i \in 1 .. n |-> Path(m, p)[i - 1]]
<1> DEFINE h == Path(m, p)
           Stop(n) == (h[n] = NULL \/ n = Bound) /\ \A k \in 0 .. n - 1 : h[k] # NULL
           len == CHOOSE n \in DOMAIN h : Stop(n)
           Ends == {n \in 0 .. Cardinality(Sockets) : h[n] = NULL}
<1>0. Cardinality(Sockets) \in Nat /\ Bound = Cardinality(Sockets) + 1
  BY Constants DEF Bound
<1>1. Ends # {} /\ Ends \in SUBSET Nat
  BY <1>0, PathEnds
<1>2. PICK e \in Ends : \A k \in Ends : e <= k
  <2> HIDE DEF Ends
  <2> QED BY <1>1, LeastNatural
<1>3. e \in 0 .. Cardinality(Sockets) /\ h[e] = NULL /\ \A k \in 0 .. e - 1 : h[k] # NULL
  <2>1. \A k \in 0 .. e - 1 : k \in 0 .. Cardinality(Sockets) /\ k < e
    BY <1>0, <1>2
  <2> QED BY <1>0, <1>2, <2>1
<1>4. DOMAIN h = 0 .. Bound
  BY PathSteps
<1>5. e \in DOMAIN h /\ Stop(e)
  BY <1>0, <1>3, <1>4
<1>6. len \in DOMAIN h /\ Stop(len)
  <2> HIDE DEF Stop
  <2> QED BY <1>5
<1>7. Chain(m, p) = [i \in 1 .. len |-> h[i - 1]]
  BY DEF Chain, Bound
<1> HIDE DEF len
<1>8. len = e
  <2>1. len \in Nat /\ e \in Nat
    BY <1>0, <1>3, <1>4, <1>6
  <2>2. ~(e < len)
    BY <1>3, <1>6, <2>1
  <2>3. ~(len < e)
    BY <1>0, <1>3, <1>6, <2>1
  <2> QED BY <2>1, <2>2, <2>3
<1> QED BY <1>3, <1>7, <1>8

\* The chain from p in list v: the sockets from p on, by their ranks.
Descends(m, w, r, v, p, q) ==
  /\ q \in Seq(Sockets)
  /\ q = <<>> <=> p = NULL
  /\ p # NULL => q[1] = p
  /\ \A i \in 1 .. Len(q) : w[q[i]] = v
  /\ \A i \in 1 .. Len(q) : i > 1 => m.sock[q[i - 1]].next = q[i]
  /\ \A i, j \in 1 .. Len(q) : i < j => r[q[j]] < r[q[i]]
  /\ \A t \in Sockets : w[t] = v /\ p # NULL /\ r[t] <= r[p] => \E i \in 1 .. Len(q) : q[i] = t

\* Chain follows a thread downwards in rank and ends at NULL.
LEMMA ChainDescends ==
  ASSUME NEW m \in Memory, NEW w \in Placing, NEW b \in Nat, NEW r \in Ranking(b), Threads(m, w, r),
         NEW v \in Lists, NEW p \in Pointer, p # NULL => w[p] = v
  PROVE  Descends(m, w, r, v, p, Chain(m, p))
<1> DEFINE h == Path(m, p)
           q == Chain(m, p)
<1>0. Cardinality(Sockets) \in Nat /\ Bound = Cardinality(Sockets) + 1 /\ NULL \notin Sockets
  BY Constants DEF Bound
<1>1. PICK n \in 0 .. Cardinality(Sockets) :
        h[n] = NULL /\ (\A k \in 0 .. n - 1 : h[k] # NULL) /\ q = [i \in 1 .. n |-> h[i - 1]]
  BY ChainOfPath
<1>2. /\ h \in [0 .. Bound -> Pointer] /\ h[0] = p
      /\ \A k \in 1 .. Bound : h[k] = IF h[k - 1] = NULL THEN NULL ELSE m.sock[h[k - 1]].next
  BY PathSteps
<1>3. \A j \in 0 .. n - 1 : /\ h[j] \in Sockets /\ w[h[j]] = v
                            /\ \A i \in 0 .. j - 1 : h[i] \in Sockets /\ r[h[j]] < r[h[i]]
  <2> SUFFICES ASSUME NEW j \in 0 .. n - 1
               PROVE  /\ h[j] \in Sockets /\ w[h[j]] = v
                      /\ \A i \in 0 .. j - 1 : h[i] \in Sockets /\ r[h[j]] < r[h[i]]
    OBVIOUS
  <2>1. j \in 0 .. Bound /\ h[j] # NULL
    BY <1>0, <1>1
  <2> QED BY <2>1, PathDescends
<1> HIDE DEF h
<1>4. \A i \in 1 .. n : i - 1 \in 0 .. n - 1 /\ q[i] = h[i - 1]
  BY <1>0, <1>1
<1>5. q \in Seq(Sockets) /\ Len(q) = n
  <2>1. \A i \in 1 .. n : h[i - 1] \in Sockets
    BY <1>3, <1>4
  <2>2. [i \in 1 .. n |-> h[i - 1]] \in [1 .. n -> Sockets]
    BY <2>1
  <2>3. n \in Nat
    BY <1>0
  <2>4. q \in [1 .. n -> Sockets]
    BY <1>1, <2>2
  <2> HIDE DEF q
  <2> QED BY <2>3, <2>4
<1>6. n = 0 <=> p = NULL
  <2>1. n # 0 => 0 \in 0 .. n - 1
    BY <1>0
  <2> QED BY <1>1, <1>2, <2>1
<1> HIDE DEF q
<1>7. q = <<>> <=> p = NULL
  BY <1>5, <1>6
<1>8. p # NULL => q[1] = p
  BY <1>0, <1>2, <1>4, <1>6
<1>9. \A i \in 1 .. Len(q) : w[q[i]] = v
  BY <1>3, <1>4, <1>5
<1>10. \A i \in 1 .. Len(q) : i > 1 => m.sock[q[i - 1]].next = q[i]
  <2> SUFFICES ASSUME NEW i \in 1 .. Len(q), i > 1 PROVE m.sock[q[i - 1]].next = q[i]
    OBVIOUS
  <2>1. i - 1 \in 1 .. n /\ i - 1 \in 1 .. Bound /\ q[i] = h[i - 1] /\ q[i - 1] = h[(i - 1) - 1]
    BY <1>0, <1>4, <1>5
  <2>2. (i - 1) - 1 \in 0 .. n - 1
    BY <1>4, <2>1
  <2>3. h[(i - 1) - 1] # NULL
    BY <1>1, <2>2
  <2> QED BY <1>2, <2>1, <2>3
<1>11. \A i, j \in 1 .. Len(q) : i < j => r[q[j]] < r[q[i]]
  <2> SUFFICES ASSUME NEW i \in 1 .. Len(q), NEW j \in 1 .. Len(q), i < j PROVE r[q[j]] < r[q[i]]
    OBVIOUS
  <2>1. j - 1 \in 0 .. n - 1 /\ i - 1 \in 0 .. (j - 1) - 1 /\ q[i] = h[i - 1] /\ q[j] = h[j - 1]
    BY <1>0, <1>4, <1>5
  <2> QED BY <1>3, <2>1
<1>12. ASSUME NEW t \in Sockets, w[t] = v, p # NULL, r[t] <= r[p], \A i \in 1 .. Len(q) : q[i] # t
       PROVE  FALSE
  <2>0. \A s \in Sockets : r[s] \in Nat
    BY DEF Ranking
  <2> DEFINE Good(k) == h[k] # NULL /\ r[t] < r[h[k]]
             Bad == {k \in 0 .. n : ~Good(k)}
  <2>1. n \in Bad /\ Bad \in SUBSET Nat
    BY <1>0, <1>1
  <2>2. PICK k \in Bad : \A i \in Bad : k <= i
    <3> HIDE DEF Bad
    <3> QED BY <2>1, LeastNatural
  <2>3. \A k_1 \in 0 .. n - 1 : h[k_1] # t
    <3> SUFFICES ASSUME NEW k_1 \in 0 .. n - 1 PROVE h[k_1] # t
      OBVIOUS
    <3>1. k_1 + 1 \in 1 .. Len(q) /\ (k_1 + 1) - 1 = k_1
      BY <1>0, <1>5
    <3>2. q[k_1 + 1] = h[k_1]
      BY <1>4, <1>5, <3>1
    <3> QED BY <1>12, <3>1, <3>2
  <2>4. p \in Sockets /\ w[p] = v
    BY <1>12 DEF Pointer
  <2>5. \A s, u \in Sockets : w[s] = v /\ w[u] = v /\ r[u] = r[s] => u = s
    BY DEF Threads
  <2>6. k # 0
    <3>1. Good(0)
      <4>1. n # 0 /\ 0 \in 0 .. n - 1 /\ h[0] = p
        BY <1>0, <1>2, <1>6, <1>12
      <4>2. t # p
        BY <2>3, <4>1
      <4>3. r[t] # r[p]
        BY <1>12, <2>4, <2>5, <4>2
      <4> QED BY <1>12, <2>0, <2>4, <4>1, <4>3
    <3> QED BY <2>2, <3>1
  <2>7. k \in 1 .. n /\ k \in 1 .. Bound /\ k - 1 \in 0 .. n /\ k - 1 \in 0 .. n - 1
    BY <1>0, <2>2, <2>6
  <2>8. Good(k - 1)
    BY <2>2, <2>7
  <2>9. h[k - 1] \in Sockets /\ w[h[k - 1]] = v /\ h[k] = m.sock[h[k - 1]].next
    BY <1>2, <1>3, <2>7, <2>8
  <2>10. m.sock[h[k - 1]].next # NULL /\ r[t] <= r[m.sock[h[k - 1]].next]
    BY <1>12, <2>8, <2>9 DEF Threads
  <2>11. h[k] # NULL /\ r[t] <= r[h[k]]
    BY <2>9, <2>10
  <2>12. k \in 0 .. n - 1
    BY <1>0, <1>1, <2>7, <2>11
  <2>13. h[k] \in Sockets /\ w[h[k]] = v /\ h[k] # t
    BY <1>3, <2>3, <2>12
  <2>14. r[t] # r[h[k]]
    BY <1>12, <2>5, <2>13
  <2>15. Good(k)
    BY <2>0, <2>11, <2>13, <2>14
  <2> QED BY <2>2, <2>15
<1> QED BY <1>5, <1>7, <1>8, <1>9, <1>10, <1>11, <1>12 DEF Descends, q

\* The pointer to a first socket is a pointer.
LEMMA FirstType ==
  ASSUME NEW m \in Memory, NEW v \in Lists
  PROVE  First(m, v) \in Pointer
<1>1. /\ m.closed \in Pointer /\ m.low \in Pointer
      /\ \A c \in Contexts : m.head[c] \in Pointer /\ m.listen[c] \in Pointer
  BY DEF Memory
<1>2. CASE v = Closed \/ v = Queue
  BY <1>1, <1>2 DEF First
<1>3. CASE v \in Heads \cup Listens
  <2>1. v[2] \in Contexts
    BY <1>3 DEF Heads, Listens
  <2> QED BY <1>1, <2>1 DEF First
<1> QED BY <1>2, <1>3 DEF Lists, Doubly

\* The elements of a sequence, and the sockets that w places in v.
Elements(q) == {q[i] : i \in DOMAIN q}
At(w, v)    == {s \in Sockets : w[s] = v}

\* The chain from the first socket of a list holds the sockets of the list.
LEMMA WholeList ==
  ASSUME NEW m \in Memory, NEW w \in Placing, NEW b \in Nat, NEW r \in Ranking(b), Threads(m, w, r),
         NEW v \in Lists, NEW q, q = Chain(m, First(m, v))
  PROVE  /\ Descends(m, w, r, v, First(m, v), q)
         /\ Elements(q) = At(w, v)
         /\ Len(q) = Cardinality(At(w, v))
         /\ v \in Doubly => \A i \in DOMAIN q : m.sock[q[i]].prev = IF i = 1 THEN NULL ELSE q[i - 1]
<1> DEFINE p == First(m, v)
           S == {s \in Sockets : w[s] = v}
<1>1. p \in Pointer /\ (p # NULL => p \in Sockets /\ w[p] = v)
  BY FirstType DEF Threads
<1>2. Descends(m, w, r, v, p, q)
  BY <1>1, ChainDescends
<1>3. \A s \in S : p # NULL /\ r[s] <= r[p]
  BY DEF Threads
<1>4. q \in Seq(Sockets) /\ Len(q) \in Nat /\ DOMAIN q = 1 .. Len(q) /\ \A i \in 1 .. Len(q) : q[i] \in Sockets
  BY <1>2 DEF Descends
<1>5. \A i \in 1 .. Len(q) : q[i] \in S
  BY <1>2, <1>4 DEF Descends
<1>6. \A s \in S : \E i \in 1 .. Len(q) : q[i] = s
  BY <1>2, <1>3 DEF Descends
<1>7. {q[i] : i \in DOMAIN q} = S
  BY <1>4, <1>5, <1>6
<1>8. \A s \in Sockets : r[s] \in Nat
  BY DEF Ranking
<1>9. ASSUME NEW i \in 1 .. Len(q), NEW j \in 1 .. Len(q), q[i] = q[j] PROVE i = j
  <2>1. ~(i < j) /\ ~(j < i)
    BY <1>2, <1>4, <1>8, <1>9 DEF Descends
  <2> QED BY <1>4, <2>1
<1>10. Len(q) = Cardinality(S)
  <2>1. q \in [1 .. Len(q) -> S]
    BY <1>4, <1>5
  <2>2. q \in Bijection(1 .. Len(q), S)
    BY <1>6, <1>9, <2>1 DEF Bijection, Injection, Surjection, IsInjective
  <2>3. ExistsBijection(1 .. Len(q), S)
    BY <2>2 DEF ExistsBijection
  <2>4. IsFiniteSet(1 .. Len(q)) /\ Cardinality(1 .. Len(q)) = Len(q)
    <3> DEFINE n == Len(q)
    <3>1. n \in Nat /\ n \in Int /\ 1 \in Int
      BY <1>4
    <3> HIDE DEF n
    <3>2. IsFiniteSet(1 .. n) /\ Cardinality(1 .. n) = IF 1 > n THEN 0 ELSE n - 1 + 1
      BY <3>1, FS_Interval
    <3>3. Cardinality(1 .. n) = n
      BY <3>1, <3>2
    <3> QED BY <3>2, <3>3 DEF n
  <2> DEFINE I == 1 .. Len(q)
  <2>5. ExistsBijection(I, S) /\ IsFiniteSet(I)
    BY <2>3, <2>4
  <2> HIDE DEF S, I
  <2>6. Cardinality(S) = Cardinality(I)
    BY <2>5, FS_Bijection
  <2> QED BY <2>4, <2>6 DEF I
<1>11. ASSUME v \in Doubly, NEW i \in DOMAIN q PROVE m.sock[q[i]].prev = IF i = 1 THEN NULL ELSE q[i - 1]
  <2>1. CASE i = 1
    <3>1. p # NULL /\ q[1] = p
      BY <1>2, <1>4, <2>1, <1>11 DEF Descends
    <3> QED BY <1>11, <2>1, <3>1 DEF Threads
  <2>2. CASE i # 1
    <3>1. i \in 1 .. Len(q) /\ i > 1 /\ i - 1 \in 1 .. Len(q)
      BY <1>4, <1>11, <2>2
    <3>2. m.sock[q[i - 1]].next = q[i] /\ q[i - 1] \in Sockets /\ w[q[i - 1]] = v /\ q[i] \in Sockets
      BY <1>2, <1>4, <3>1 DEF Descends
    <3>3. q[i] # NULL
      BY <3>2, Constants
    <3>4. m.sock[q[i]].prev = q[i - 1]
      BY <1>11, <3>2, <3>3 DEF Threads
    <3> QED BY <2>2, <3>4
  <2> QED BY <2>1, <2>2
<1> QED BY <1>2, <1>7, <1>10, <1>11 DEF Elements, At

-----------------------------------------------------------------------------
(* What the operations on lists do to the threads.                         *)

\* s is taken out of its list.
Removed(m, n, w, s) ==
  /\ \A t \in Sockets \ {s} :
       /\ n.sock[t].next = IF t = m.sock[s].prev THEN m.sock[s].next ELSE m.sock[t].next
       /\ n.sock[t].prev = IF t = m.sock[s].next THEN m.sock[s].prev ELSE m.sock[t].prev
  /\ \A u \in Lists :
       First(n, u) = IF u = w[s] /\ m.sock[s].prev = NULL THEN m.sock[s].next ELSE First(m, u)

\* s is put before the first socket of list v.
Pushed(m, n, v, s) ==
  /\ n.sock[s].next = First(m, v)
  /\ v \in Doubly => n.sock[s].prev = NULL
  /\ \A t \in Sockets \ {s} :
       /\ n.sock[t].next = m.sock[t].next
       /\ n.sock[t].prev = IF v \in Doubly /\ t = First(m, v) THEN s ELSE m.sock[t].prev
  /\ \A u \in Lists : First(n, u) = IF u = v THEN s ELSE First(m, u)

\* The pointers of the lists are left alone.
Kept(m, n, w) ==
  /\ \A t \in Sockets : w[t] \in Lists =>
       n.sock[t].next = m.sock[t].next /\ (w[t] \in Doubly => n.sock[t].prev = m.sock[t].prev)
  /\ \A u \in Lists : First(n, u) = First(m, u)

\* Out is no list, and the list of closed sockets is not doubly linked.
LEMMA ListsDiffer ==
  /\ Out \notin Lists /\ Closed \notin Doubly /\ Doubly \subseteq Lists /\ Closed \in Lists
  /\ \A v \in Lists : v \in Doubly \/ v = Closed
BY DEF Out, Closed, Lists, Doubly, Queue, Listens, Heads

\* Threads depend on the pointers of the threaded sockets and on the heads only.
LEMMA ThreadsKept ==
  ASSUME NEW m, NEW n, NEW w \in Placing, NEW r, Threads(m, w, r), Kept(m, n, w)
  PROVE  Threads(n, w, r)
<1>1. \A s \in Sockets : w[s] \in Lists =>
        n.sock[s].next = m.sock[s].next /\ (w[s] \in Doubly => n.sock[s].prev = m.sock[s].prev)
  BY DEF Kept
<1>2. \A u \in Lists : First(n, u) = First(m, u)
  BY DEF Kept
<1>3. Doubly \subseteq Lists
  BY ListsDiffer
<1>4. \A s \in Sockets : w[s] \in Lists /\ n.sock[s].next # NULL =>
        /\ n.sock[s].next \in Sockets
        /\ w[n.sock[s].next] = w[s]
        /\ r[n.sock[s].next] < r[s]
        /\ w[s] \in Doubly => n.sock[n.sock[s].next].prev = s
  BY <1>1, <1>3 DEF Threads
<1>5. \A s \in Sockets : w[s] \in Doubly /\ n.sock[s].prev # NULL =>
        /\ n.sock[s].prev \in Sockets
        /\ w[n.sock[s].prev] = w[s]
        /\ n.sock[n.sock[s].prev].next = s
  BY <1>1, <1>3 DEF Threads
<1>6. \A v \in Lists : First(n, v) # NULL =>
        /\ First(n, v) \in Sockets
        /\ w[First(n, v)] = v
        /\ v \in Doubly => n.sock[First(n, v)].prev = NULL
  BY <1>1, <1>2, <1>3 DEF Threads
<1>7. \A s \in Sockets : w[s] \in Doubly /\ n.sock[s].prev = NULL => First(n, w[s]) = s
  BY <1>1, <1>2, <1>3 DEF Threads
<1>8. \A s \in Sockets : w[s] \in Lists => First(n, w[s]) # NULL /\ r[s] <= r[First(n, w[s])]
  BY <1>1, <1>2, <1>3 DEF Threads
<1>9. \A s, t \in Sockets : w[s] \in Lists /\ w[t] = w[s] /\ r[t] < r[s] =>
        n.sock[s].next # NULL /\ r[t] <= r[n.sock[s].next]
  BY <1>1 DEF Threads
<1>10. \A s, t \in Sockets : w[s] \in Lists /\ w[t] = w[s] /\ r[t] = r[s] => t = s
  BY DEF Threads
<1> QED BY <1>4, <1>5, <1>6, <1>7, <1>8, <1>9, <1>10 DEF Threads

\* Nothing is its own neighbour, and two neighbours are not the same.
LEMMA Neighbours ==
  ASSUME NEW m, NEW w \in Placing, NEW b \in Nat, NEW r \in Ranking(b), Threads(m, w, r),
         NEW s \in Sockets, w[s] \in Doubly
  PROVE  /\ m.sock[s].next \in (Sockets \cup {NULL}) \ {s} /\ m.sock[s].prev \in (Sockets \cup {NULL}) \ {s}
         /\ m.sock[s].next = m.sock[s].prev => m.sock[s].next = NULL
<1>0. \A t \in Sockets : r[t] \in Nat
  BY DEF Ranking
<1>1. w[s] \in Lists /\ s # NULL
  BY ListsDiffer, Constants
<1>2. m.sock[s].next # NULL => m.sock[s].next \in Sockets /\ r[m.sock[s].next] < r[s]
  BY <1>1 DEF Threads
<1>3. m.sock[s].prev # NULL =>
        m.sock[s].prev \in Sockets /\ w[m.sock[s].prev] = w[s] /\ m.sock[m.sock[s].prev].next = s
  BY DEF Threads
<1>4. m.sock[s].prev # NULL => r[s] < r[m.sock[s].prev]
  BY <1>1, <1>3 DEF Threads
<1> QED BY <1>0, <1>1, <1>2, <1>3, <1>4

\* Taking a socket out of a doubly linked list leaves the threads of the others.
LEMMA ThreadsRemoved ==
  ASSUME NEW m, NEW n, NEW w \in Placing, NEW b \in Nat, NEW r \in Ranking(b), Threads(m, w, r),
         NEW s \in Sockets, w[s] \in Doubly, Removed(m, n, w, s)
  PROVE  [w EXCEPT ![s] = Out] \in Placing /\ Threads(n, [w EXCEPT ![s] = Out], r)
<1> DEFINE x == [w EXCEPT ![s] = Out]
           nx == m.sock[s].next
           pv == m.sock[s].prev
           v == w[s]
<1>0. /\ \A t \in Sockets : r[t] \in Nat
      /\ Out \notin Lists /\ Out \notin Doubly /\ Doubly \subseteq Lists /\ v \in Lists /\ v \in Doubly
      /\ NULL \notin Sockets
  BY ListsDiffer, Constants DEF Ranking
<1>1. x \in Placing /\ x[s] = Out /\ \A t \in Sockets : t # s => x[t] = w[t]
  BY DEF Placing
<1>2. /\ nx \in (Sockets \cup {NULL}) \ {s} /\ pv \in (Sockets \cup {NULL}) \ {s}
      /\ nx = pv => nx = NULL
  BY Neighbours
<1>3. nx # NULL => w[nx] = v /\ r[nx] < r[s] /\ m.sock[nx].prev = s
  BY <1>0 DEF Threads
<1>4. pv # NULL => w[pv] = v /\ m.sock[pv].next = s
  BY <1>0 DEF Threads
<1>5. pv # NULL => r[s] < r[pv]
  BY <1>0, <1>2, <1>4 DEF Threads
<1>6. \A t \in Sockets : t # s => /\ n.sock[t].next = IF t = pv THEN nx ELSE m.sock[t].next
                                  /\ n.sock[t].prev = IF t = nx THEN pv ELSE m.sock[t].prev
  BY DEF Removed
<1>7. \A u \in Lists : First(n, u) = IF u = v /\ pv = NULL THEN nx ELSE First(m, u)
  BY DEF Removed
<1>8. pv = NULL => First(m, v) = s
  BY <1>0 DEF Threads
<1>9. \A t \in Sockets : w[t] \in Lists /\ m.sock[t].next = s => t = pv
  <2> SUFFICES ASSUME NEW t \in Sockets, w[t] \in Lists, m.sock[t].next = s PROVE t = pv
    OBVIOUS
  <2>1. s # NULL /\ w[t] = v
    BY <1>0 DEF Threads
  <2> QED BY <1>0, <2>1 DEF Threads
<1>10. \A t \in Sockets : w[t] \in Doubly /\ m.sock[t].prev = s => t = nx
  <2> SUFFICES ASSUME NEW t \in Sockets, w[t] \in Doubly, m.sock[t].prev = s PROVE t = nx
    OBVIOUS
  <2>1. s # NULL
    BY <1>0
  <2> QED BY <2>1 DEF Threads
<1> HIDE DEF x, nx, pv, v
<1>11. ASSUME NEW t \in Sockets, x[t] \in Lists, n.sock[t].next # NULL
       PROVE  /\ n.sock[t].next \in Sockets
              /\ x[n.sock[t].next] = x[t]
              /\ r[n.sock[t].next] < r[t]
              /\ x[t] \in Doubly => n.sock[n.sock[t].next].prev = t
  <2>1. t # s /\ x[t] = w[t] /\ w[t] \in Lists
    BY <1>0, <1>1, <1>11
  <2>2. CASE t = pv
    <3>0. n.sock[t].next = nx
      BY <1>6, <2>1, <2>2
    <3>1. n.sock[t].next = nx /\ nx # NULL /\ nx \in Sockets /\ nx # s /\ w[t] = v
      BY <1>0, <1>2, <1>4, <1>11, <2>2, <3>0
    <3>2. n.sock[nx].prev = pv /\ x[nx] = v /\ r[nx] < r[t]
      BY <1>0, <1>1, <1>3, <1>5, <1>6, <2>2, <3>1, Constants
    <3> QED BY <2>1, <2>2, <3>1, <3>2
  <2>3. CASE t # pv
    <3>1. n.sock[t].next = m.sock[t].next /\ m.sock[t].next # s
      BY <1>6, <1>9, <2>1, <2>3
    <3>2. /\ m.sock[t].next \in Sockets /\ w[m.sock[t].next] = w[t] /\ r[m.sock[t].next] < r[t]
          /\ w[t] \in Doubly => m.sock[m.sock[t].next].prev = t
      BY <1>11, <2>1, <3>1 DEF Threads
    <3>3. w[t] \in Doubly => m.sock[t].next # nx
      BY <1>2, <1>3, <2>1, <3>2, Constants
    <3>4. w[t] \in Doubly => n.sock[m.sock[t].next].prev = t
      BY <1>6, <3>1, <3>2, <3>3
    <3> QED BY <1>1, <2>1, <3>1, <3>2, <3>4
  <2> QED BY <2>2, <2>3
<1>12. ASSUME NEW t \in Sockets, x[t] \in Doubly, n.sock[t].prev # NULL
       PROVE  /\ n.sock[t].prev \in Sockets
              /\ x[n.sock[t].prev] = x[t]
              /\ n.sock[n.sock[t].prev].next = t
  <2>1. t # s /\ x[t] = w[t] /\ w[t] \in Doubly
    BY <1>0, <1>1, <1>12
  <2>2. CASE t = nx
    <3>0. n.sock[t].prev = pv
      BY <1>6, <2>1, <2>2
    <3>1. n.sock[t].prev = pv /\ pv # NULL /\ pv \in Sockets /\ pv # s /\ w[t] = v
      BY <1>0, <1>2, <1>3, <1>12, <2>2, <3>0
    <3> QED BY <1>1, <1>4, <1>6, <2>1, <2>2, <3>1, Constants
  <2>3. CASE t # nx
    <3>1. n.sock[t].prev = m.sock[t].prev /\ m.sock[t].prev # s
      BY <1>6, <1>10, <2>1, <2>3
    <3>2. /\ m.sock[t].prev \in Sockets /\ w[m.sock[t].prev] = w[t]
          /\ m.sock[m.sock[t].prev].next = t
      BY <1>12, <2>1, <3>1 DEF Threads
    <3>3. m.sock[t].prev # pv
      BY <1>4, <2>1, <3>2, Constants
    <3> QED BY <1>1, <1>6, <2>1, <3>1, <3>2, <3>3
  <2> QED BY <2>2, <2>3
<1>13. ASSUME NEW u \in Lists, First(n, u) # NULL
       PROVE  /\ First(n, u) \in Sockets
              /\ x[First(n, u)] = u
              /\ u \in Doubly => n.sock[First(n, u)].prev = NULL
  <2>1. CASE u = v /\ pv = NULL
    <3>0. First(n, u) = nx
      BY <1>7, <2>1
    <3>1. First(n, u) = nx /\ nx # NULL /\ nx \in Sockets /\ nx # s
      BY <1>2, <1>13, <3>0
    <3> QED BY <1>1, <1>3, <1>6, <2>1, <3>1, Constants
  <2>2. CASE ~(u = v /\ pv = NULL)
    <3>1. First(n, u) = First(m, u)
      BY <1>7, <2>2
    <3>2. First(m, u) \in Sockets /\ w[First(m, u)] = u /\ (u \in Doubly => m.sock[First(m, u)].prev = NULL)
      BY <1>13, <3>1 DEF Threads
    <3>3. First(m, u) # s
      BY <1>0, <2>2, <3>2 DEF pv, v
    <3>4. u \in Doubly => First(m, u) # nx
      BY <1>0, <1>3, <3>2
    <3> QED BY <1>1, <1>6, <3>1, <3>2, <3>3, <3>4
  <2> QED BY <2>1, <2>2
<1>14. ASSUME NEW t \in Sockets, x[t] \in Doubly, n.sock[t].prev = NULL PROVE First(n, x[t]) = t
  <2>1. t # s /\ x[t] = w[t] /\ w[t] \in Doubly /\ w[t] \in Lists
    BY <1>0, <1>1, <1>14
  <2>2. CASE t = nx
    <3>1. pv = NULL /\ w[t] = v
      BY <1>0, <1>3, <1>6, <1>14, <2>1, <2>2
    <3> QED BY <1>7, <2>1, <2>2, <3>1
  <2>3. CASE t # nx
    <3>1. m.sock[t].prev = NULL
      BY <1>6, <1>14, <2>1, <2>3
    <3>2. First(m, w[t]) = t
      BY <2>1, <3>1 DEF Threads
    <3> QED BY <1>7, <1>8, <2>1, <3>2
  <2> QED BY <2>2, <2>3
<1>15. ASSUME NEW t \in Sockets, x[t] \in Lists PROVE First(n, x[t]) # NULL /\ r[t] <= r[First(n, x[t])]
  <2>1. t # s /\ x[t] = w[t] /\ w[t] \in Lists
    BY <1>0, <1>1, <1>15
  <2>2. First(m, w[t]) # NULL /\ r[t] <= r[First(m, w[t])]
    BY <2>1 DEF Threads
  <2>3. CASE w[t] = v /\ pv = NULL
    <3>1. r[t] <= r[s]
      BY <1>8, <2>2, <2>3
    <3>2. r[t] # r[s]
      BY <1>0, <2>1, <2>3 DEF Threads, v
    <3>3. r[t] < r[s]
      BY <1>0, <3>1, <3>2
    <3>4. nx # NULL /\ r[t] <= r[nx]
      BY <1>0, <2>1, <2>3, <3>3 DEF Threads, v, nx
    <3> QED BY <1>7, <2>1, <2>3, <3>4
  <2>4. CASE ~(w[t] = v /\ pv = NULL)
    BY <1>7, <2>1, <2>2, <2>4
  <2> QED BY <2>3, <2>4
<1>16. ASSUME NEW t \in Sockets, NEW t_1 \in Sockets, x[t] \in Lists, x[t_1] = x[t], r[t_1] < r[t]
       PROVE  n.sock[t].next # NULL /\ r[t_1] <= r[n.sock[t].next]
  <2>1. t # s /\ x[t] = w[t] /\ w[t] \in Lists /\ t_1 # s /\ x[t_1] = w[t_1]
    BY <1>0, <1>1, <1>16
  <2>2. m.sock[t].next # NULL /\ r[t_1] <= r[m.sock[t].next]
    BY <1>16, <2>1 DEF Threads
  <2>3. CASE t = pv
    <3>1. m.sock[t].next = s /\ w[t] = v
      BY <1>0, <1>4, <2>3
    <3>2. r[t_1] # r[s]
      BY <1>0, <1>16, <2>1, <3>1 DEF Threads, v
    <3>3. r[t_1] < r[s]
      BY <1>0, <2>2, <3>1, <3>2
    <3>4. nx # NULL /\ r[t_1] <= r[nx]
      BY <1>0, <1>16, <2>1, <3>1, <3>3 DEF Threads, v, nx
    <3> QED BY <1>6, <2>1, <2>3, <3>4
  <2>4. CASE t # pv
    BY <1>6, <2>1, <2>2, <2>4
  <2> QED BY <2>3, <2>4
<1>17. \A t, t_1 \in Sockets : x[t] \in Lists /\ x[t_1] = x[t] /\ r[t_1] = r[t] => t_1 = t
  <2> SUFFICES ASSUME NEW t \in Sockets, NEW t_1 \in Sockets, x[t] \in Lists, x[t_1] = x[t], r[t_1] = r[t]
               PROVE  t_1 = t
    OBVIOUS
  <2>1. t # s /\ x[t] = w[t] /\ t_1 # s /\ x[t_1] = w[t_1]
    BY <1>0, <1>1
  <2> QED BY <2>1 DEF Threads
<1>18. Threads(n, x, r)
  BY <1>11, <1>12, <1>13, <1>14, <1>15, <1>16, <1>17 DEF Threads
<1> QED BY <1>1, <1>18 DEF x

\* The memory is threaded as w places, with the ranks as before but for s.
KeptBut(n, w, b, r, s) == \E z \in Ranking(b) : Threads(n, w, z) /\ \A t \in Sockets \ {s} : z[t] = r[t]

\* A socket that no list holds, put in front of one, gets the highest rank.
LEMMA ThreadsPushed ==
  ASSUME NEW m, NEW n, NEW w \in Placing, NEW b \in Nat, NEW r \in Ranking(b), Threads(m, w, r),
         NEW s \in Sockets, w[s] = Out, NEW v \in Lists, Pushed(m, n, v, s)
  PROVE  /\ [w EXCEPT ![s] = v] \in Placing
         /\ KeptBut(n, [w EXCEPT ![s] = v], b + 1, r, s)
<1> DEFINE x == [w EXCEPT ![s] = v]
           z == [r EXCEPT ![s] = b + 1]
           p == First(m, v)
<1>0. Out \notin Lists /\ Out \notin Doubly /\ Doubly \subseteq Lists /\ NULL \notin Sockets
  BY ListsDiffer, Constants
<1>1. x \in Placing /\ x[s] = v /\ \A t \in Sockets : t # s => x[t] = w[t]
  BY DEF Placing
<1>2. /\ z \in Ranking(b + 1) /\ z[s] = b + 1 /\ \A t \in Sockets : t # s => z[t] = r[t]
      /\ \A t \in Sockets : r[t] \in Nat /\ r[t] <= b
  BY DEF Ranking
<1>3. p # NULL => p \in Sockets /\ w[p] = v /\ p # s /\ (v \in Doubly => m.sock[p].prev = NULL)
  BY <1>0 DEF Threads
<1>4. n.sock[s].next = p /\ (v \in Doubly => n.sock[s].prev = NULL)
  BY DEF Pushed
<1>5. \A t \in Sockets : t # s => /\ n.sock[t].next = m.sock[t].next
                                  /\ n.sock[t].prev = IF v \in Doubly /\ t = p THEN s ELSE m.sock[t].prev
  BY DEF Pushed
<1>6. \A u \in Lists : First(n, u) = IF u = v THEN s ELSE First(m, u)
  BY DEF Pushed
<1>7. s # NULL /\ s \in Sockets /\ v \in Lists /\ b \in Nat
  BY <1>0
<1> HIDE DEF x, z, p
<1>11. ASSUME NEW t \in Sockets, x[t] \in Lists, n.sock[t].next # NULL
       PROVE  /\ n.sock[t].next \in Sockets
              /\ x[n.sock[t].next] = x[t]
              /\ z[n.sock[t].next] < z[t]
              /\ x[t] \in Doubly => n.sock[n.sock[t].next].prev = t
  <2>1. CASE t = s
    <3>1. n.sock[t].next = p /\ p # NULL /\ p \in Sockets /\ p # s /\ w[p] = v
      BY <1>3, <1>4, <1>11, <2>1
    <3>2. x[p] = v /\ z[p] < z[s] /\ (v \in Doubly => n.sock[p].prev = s)
      BY <1>1, <1>2, <1>5, <1>7, <3>1
    <3> QED BY <1>1, <2>1, <3>1, <3>2
  <2>2. CASE t # s
    <3>1. x[t] = w[t] /\ w[t] \in Lists /\ n.sock[t].next = m.sock[t].next
      BY <1>1, <1>5, <1>11, <2>2
    <3>2. /\ m.sock[t].next \in Sockets /\ w[m.sock[t].next] = w[t] /\ r[m.sock[t].next] < r[t]
          /\ w[t] \in Doubly => m.sock[m.sock[t].next].prev = t
      BY <1>11, <3>1 DEF Threads
    <3>3. m.sock[t].next # s
      BY <1>0, <3>1, <3>2
    <3>4. v \in Doubly => m.sock[t].next # p
      BY <1>0, <1>3, <3>1, <3>2
    <3>5. w[t] \in Doubly => n.sock[m.sock[t].next].prev = t
      BY <1>5, <3>2, <3>3, <3>4
    <3> QED BY <1>1, <1>2, <2>2, <3>1, <3>2, <3>3, <3>5
  <2> QED BY <2>1, <2>2
<1>12. ASSUME NEW t \in Sockets, x[t] \in Doubly, n.sock[t].prev # NULL
       PROVE  /\ n.sock[t].prev \in Sockets
              /\ x[n.sock[t].prev] = x[t]
              /\ n.sock[n.sock[t].prev].next = t
  <2>1. t # s /\ x[t] = w[t]
    BY <1>1, <1>4, <1>12
  <2>2. CASE v \in Doubly /\ t = p
    <3>1. n.sock[t].prev = s
      BY <1>5, <2>1, <2>2
    <3>2. w[t] = v
      BY <1>0, <1>3, <2>2
    <3> QED BY <1>1, <1>4, <1>7, <2>1, <2>2, <3>1, <3>2
  <2>3. CASE ~(v \in Doubly /\ t = p)
    <3>1. n.sock[t].prev = m.sock[t].prev
      BY <1>5, <2>1, <2>3
    <3>2. m.sock[t].prev \in Sockets /\ w[m.sock[t].prev] = w[t] /\ m.sock[m.sock[t].prev].next = t
      BY <1>12, <2>1, <3>1 DEF Threads
    <3>3. m.sock[t].prev # s
      BY <1>0, <1>12, <2>1, <3>2
    <3> QED BY <1>1, <1>5, <2>1, <3>1, <3>2, <3>3
  <2> QED BY <2>2, <2>3
<1>13. ASSUME NEW u \in Lists, First(n, u) # NULL
       PROVE  /\ First(n, u) \in Sockets
              /\ x[First(n, u)] = u
              /\ u \in Doubly => n.sock[First(n, u)].prev = NULL
  <2>1. CASE u = v
    BY <1>1, <1>4, <1>6, <1>7, <2>1
  <2>2. CASE u # v
    <3>1. First(n, u) = First(m, u)
      BY <1>6, <2>2
    <3>2. First(m, u) \in Sockets /\ w[First(m, u)] = u /\ (u \in Doubly => m.sock[First(m, u)].prev = NULL)
      BY <1>13, <3>1 DEF Threads
    <3>3. First(m, u) # s /\ First(m, u) # p
      BY <1>0, <1>3, <2>2, <3>2
    <3> QED BY <1>1, <1>5, <3>1, <3>2, <3>3
  <2> QED BY <2>1, <2>2
<1>14. ASSUME NEW t \in Sockets, x[t] \in Doubly, n.sock[t].prev = NULL PROVE First(n, x[t]) = t
  <2>1. CASE t = s
    BY <1>1, <1>6, <1>7, <2>1
  <2>2. CASE t # s
    <3>1. x[t] = w[t] /\ w[t] \in Lists /\ w[t] \in Doubly
      BY <1>0, <1>1, <1>14, <2>2
    <3>2. ~(v \in Doubly /\ t = p) /\ m.sock[t].prev = NULL
      BY <1>5, <1>7, <1>14, <2>2
    <3>3. First(m, w[t]) = t
      BY <3>1, <3>2 DEF Threads
    <3>4. w[t] # v
      BY <3>1, <3>2, <3>3 DEF p
    <3> QED BY <1>6, <3>1, <3>3, <3>4
  <2> QED BY <2>1, <2>2
<1>15. ASSUME NEW t \in Sockets, x[t] \in Lists PROVE First(n, x[t]) # NULL /\ z[t] <= z[First(n, x[t])]
  <2>1. z[t] \in Nat /\ z[t] <= b + 1
    BY <1>2, <1>7
  <2>2. CASE x[t] = v
    BY <1>2, <1>6, <1>7, <2>1, <2>2
  <2>3. CASE x[t] # v
    <3>1. t # s /\ x[t] = w[t] /\ w[t] \in Lists
      BY <1>1, <1>15, <2>3
    <3>2. First(m, w[t]) # NULL /\ r[t] <= r[First(m, w[t])] /\ First(n, x[t]) = First(m, w[t])
      BY <1>6, <2>3, <3>1 DEF Threads
    <3>3. First(m, w[t]) \in Sockets /\ w[First(m, w[t])] = w[t]
      BY <3>1, <3>2 DEF Threads
    <3>4. First(m, w[t]) # s
      BY <1>0, <3>1, <3>3
    <3> QED BY <1>2, <3>1, <3>2, <3>3, <3>4
  <2> QED BY <2>2, <2>3
<1>16. ASSUME NEW t \in Sockets, NEW t_1 \in Sockets, x[t] \in Lists, x[t_1] = x[t], z[t_1] < z[t]
       PROVE  n.sock[t].next # NULL /\ z[t_1] <= z[n.sock[t].next]
  <2>1. t_1 # s
    BY <1>2, <1>7, <1>16
  <2>2. CASE t = s
    <3>1. w[t_1] = v /\ z[t_1] = r[t_1]
      BY <1>1, <1>2, <1>16, <2>1, <2>2
    <3>2. p # NULL /\ r[t_1] <= r[p]
      BY <3>1 DEF Threads, p
    <3>3. z[p] = r[p]
      BY <1>2, <1>3, <3>2
    <3> QED BY <1>4, <2>2, <3>1, <3>2, <3>3
  <2>3. CASE t # s
    <3>1. /\ x[t] = w[t] /\ w[t] \in Lists /\ w[t_1] = w[t] /\ r[t_1] < r[t] /\ z[t_1] = r[t_1]
          /\ n.sock[t].next = m.sock[t].next
      BY <1>1, <1>2, <1>5, <1>16, <2>1, <2>3
    <3>2. m.sock[t].next # NULL /\ r[t_1] <= r[m.sock[t].next]
      BY <3>1 DEF Threads
    <3>3. m.sock[t].next \in Sockets /\ w[m.sock[t].next] = w[t]
      BY <3>1, <3>2 DEF Threads
    <3>4. m.sock[t].next # s
      BY <1>0, <3>1, <3>3
    <3> QED BY <1>2, <3>1, <3>2, <3>3, <3>4
  <2> QED BY <2>2, <2>3
<1>17. ASSUME NEW t \in Sockets, NEW t_1 \in Sockets, x[t] \in Lists, x[t_1] = x[t], z[t_1] = z[t]
       PROVE  t_1 = t
  <2>1. CASE t # s /\ t_1 # s
    <3>1. w[t] \in Lists /\ w[t_1] = w[t] /\ r[t_1] = r[t]
      BY <1>1, <1>2, <1>17, <2>1
    <3> QED BY <3>1 DEF Threads
  <2>2. CASE ~(t # s /\ t_1 # s)
    BY <1>2, <1>7, <1>17, <2>2
  <2> QED BY <2>1, <2>2
<1>18. Threads(n, x, z)
  BY <1>11, <1>12, <1>13, <1>14, <1>15, <1>16, <1>17 DEF Threads
<1> QED BY <1>1, <1>2, <1>18 DEF x, KeptBut

-----------------------------------------------------------------------------
(* What the operations do to the memory.                                   *)

\* Two records that differ in their pointers only, neither or both closed.
Alike(j, k) ==
  /\ k.kind = j.kind /\ k.ctx = j.ctx /\ k.low = j.low /\ k.shaking = j.shaking /\ k.reads = j.reads
  /\ k.timeout = j.timeout /\ k.long = j.long /\ k.wait = j.wait /\ k.longWait = j.longWait
  /\ k.missed = j.missed /\ k.late = j.late /\ k.handle = j.handle
  /\ k.prev = j.prev \/ (j.prev \in Pointer /\ k.prev \in Pointer)

OthersAlike(m, n, s) == \A t \in Sockets \ {s} : Alike(m.sock[t], n.sock[t])

\* All but the sockets.
RestKept(m, n) ==
  /\ n.head = m.head /\ n.listen = m.listen /\ n.iterator = m.iterator /\ n.tick = m.tick
  /\ n.low = m.low /\ n.budget = m.budget /\ n.closed = m.closed

NextSet(m, n, p, q) ==
  /\ n \in Memory
  /\ RestKept(m, n)
  /\ \A t \in Sockets : n.sock[t] = IF t = p THEN [m.sock[t] EXCEPT !.next = q] ELSE m.sock[t]

\* SetNext writes next of the socket p points to, and nothing through NULL.
LEMMA SetNextIs ==
  ASSUME NEW m \in Memory, NEW p \in Pointer, NEW q \in Pointer
  PROVE  NextSet(m, SetNext(m, p, q), p, q)
<1>0. NULL \notin Sockets
  BY Constants
<1>1. CASE p = NULL
  BY <1>0, <1>1 DEF SetNext, RestKept, NextSet
<1>2. CASE p # NULL
  <2>1. p \in Sockets
    BY <1>2 DEF Pointer
  <2>2. m.sock \in [Sockets -> Socket]
    BY DEF Memory
  <2>3. [m.sock[p] EXCEPT !.next = q] \in Socket
    BY <2>1, <2>2 DEF Socket
  <2> DEFINE x == [m.sock EXCEPT ![p].next = q]
  <2>4. x \in [Sockets -> Socket] /\ \A t \in Sockets : x[t] = IF t = p THEN [m.sock[t] EXCEPT !.next = q] ELSE m.sock[t]
    BY <2>1, <2>2, <2>3
  <2> HIDE DEF x
  <2>5. SetNext(m, p, q) = [m EXCEPT !.sock = x]
    BY <1>2 DEF SetNext, x, Memory
  <2>6. [m EXCEPT !.sock = x] \in Memory /\ [m EXCEPT !.sock = x].sock = x /\ RestKept(m, [m EXCEPT !.sock = x])
    BY <2>4 DEF Memory, RestKept
  <2> QED BY <2>4, <2>5, <2>6 DEF NextSet
<1> QED BY <1>1, <1>2

PrevSet(m, n, p, q) ==
  /\ n \in Memory
  /\ RestKept(m, n)
  /\ \A t \in Sockets : n.sock[t] = IF t = p THEN [m.sock[t] EXCEPT !.prev = q] ELSE m.sock[t]

\* SetPrev writes prev of the socket p points to, and nothing through NULL.
LEMMA SetPrevIs ==
  ASSUME NEW m \in Memory, NEW p \in Pointer, NEW q \in Pointer
  PROVE  PrevSet(m, SetPrev(m, p, q), p, q)
<1>0. NULL \notin Sockets
  BY Constants
<1>1. CASE p = NULL
  BY <1>0, <1>1 DEF SetPrev, RestKept, PrevSet
<1>2. CASE p # NULL
  <2>1. p \in Sockets
    BY <1>2 DEF Pointer
  <2>2. m.sock \in [Sockets -> Socket]
    BY DEF Memory
  <2>3. [m.sock[p] EXCEPT !.prev = q] \in Socket
    BY <2>1, <2>2 DEF Socket
  <2> DEFINE x == [m.sock EXCEPT ![p].prev = q]
  <2>4. x \in [Sockets -> Socket] /\ \A t \in Sockets : x[t] = IF t = p THEN [m.sock[t] EXCEPT !.prev = q] ELSE m.sock[t]
    BY <2>1, <2>2, <2>3
  <2> HIDE DEF x
  <2>5. SetPrev(m, p, q) = [m EXCEPT !.sock = x]
    BY <1>2 DEF SetPrev, x, Memory
  <2>6. [m EXCEPT !.sock = x] \in Memory /\ [m EXCEPT !.sock = x].sock = x /\ RestKept(m, [m EXCEPT !.sock = x])
    BY <2>4 DEF Memory, RestKept
  <2> QED BY <2>4, <2>5, <2>6 DEF PrevSet
<1> QED BY <1>1, <1>2

\* A record is like itself.
LEMMA AlikeSelf ==
  \A j : Alike(j, j)
BY DEF Alike

\* A record with changed pointers.
LEMMA AlikePointers ==
  ASSUME NEW j \in Socket, NEW q \in Pointer, NEW p \in Pointer
  PROVE  /\ Alike(j, j)
         /\ Alike(j, [j EXCEPT !.next = q])
         /\ [j EXCEPT !.next = q].next = q /\ [j EXCEPT !.next = q].prev = j.prev
         /\ [j EXCEPT !.prev = p].next = j.next /\ [j EXCEPT !.prev = p].prev = p
         /\ j.prev \in Pointer => Alike(j, [j EXCEPT !.prev = p]) /\ Alike(j, [j EXCEPT !.next = q, !.prev = p])
BY DEF Alike, Socket

\* Another next pointer is no more than that.
LEMMA AlikeNext ==
  ASSUME NEW j \in Socket, NEW q \in Pointer
  PROVE  [j EXCEPT !.next = q].next = q /\ [j EXCEPT !.next = q].prev = j.prev /\ Alike(j, [j EXCEPT !.next = q])
BY DEF Alike, Socket

\* Another prev pointer of a socket that is not closed is no more than that.
LEMMA AlikePrev ==
  ASSUME NEW j \in Socket, NEW p \in Pointer, j.prev \in Pointer
  PROVE  [j EXCEPT !.prev = p].next = j.next /\ [j EXCEPT !.prev = p].prev = p /\ Alike(j, [j EXCEPT !.prev = p])
BY DEF Alike, Socket

\* Alike records are in the same list.
LEMMA AlikePlace ==
  ASSUME NEW j \in Socket, NEW k \in Socket, Alike(j, k)
  PROVE  Place(k) = Place(j)
<1>1. j.ctx \in Contexts /\ k.ctx = j.ctx /\ k.kind = j.kind /\ k.low = j.low
  BY DEF Alike, Socket
<1>2. \A q \in Pointer : q # j.ctx
  BY <1>1, Constants DEF Pointer
<1>3. k.prev = k.ctx <=> j.prev = j.ctx
  BY <1>1, <1>2 DEF Alike
<1> QED BY <1>1, <1>3 DEF Place

\* All but the pointers to the first sockets.
FirstsOnly(m, n) ==
  /\ n.sock = m.sock /\ n.iterator = m.iterator /\ n.tick = m.tick
  /\ n.low = m.low /\ n.budget = m.budget /\ n.closed = m.closed

FirstSet(m, n, v, q) ==
  /\ n \in Memory
  /\ FirstsOnly(m, n)
  /\ \A u \in Lists : First(n, u) = IF u = v THEN q ELSE First(m, u)

\* Writing a head or the listen list of a context changes the first of one list.
LEMMA SetFirstIs ==
  ASSUME NEW m \in Memory, NEW list \in {"head", "listen"}, NEW c \in Contexts, NEW q \in Pointer
  PROVE  FirstSet(m, [m EXCEPT ![list][c] = q], <<list, c>>, q)
<1> DEFINE n == [m EXCEPT ![list][c] = q]
<1>1. m.head \in [Contexts -> Pointer] /\ m.listen \in [Contexts -> Pointer]
  BY DEF Memory
<1>2. CASE list = "head"
  <2> DEFINE x == [m.head EXCEPT ![c] = q]
  <2>1. x \in [Contexts -> Pointer] /\ \A d \in Contexts : x[d] = IF d = c THEN q ELSE m.head[d]
    BY <1>1
  <2>2. n = [m EXCEPT !.head = x]
    BY <1>2 DEF Memory
  <2> HIDE DEF x
  <2>3. [m EXCEPT !.head = x] \in Memory /\ FirstsOnly(m, [m EXCEPT !.head = x])
        /\ [m EXCEPT !.head = x].head = x /\ [m EXCEPT !.head = x].listen = m.listen
    BY <2>1 DEF Memory, FirstsOnly
  <2> HIDE DEF n
  <2>4. n \in Memory /\ FirstsOnly(m, n) /\ n.head = x /\ n.listen = m.listen
    BY <2>2, <2>3
  <2>5. ASSUME NEW u \in Lists PROVE First(n, u) = IF u = <<list, c>> THEN q ELSE First(m, u)
    <3>1. CASE u = Closed \/ u = Queue
      BY <1>2, <2>4, <3>1 DEF First, FirstsOnly, Closed, Queue
    <3>2. CASE u \in Listens \cup Heads
      <4>1. PICK d \in Contexts : u = <<"listen", d>> \/ u = <<"head", d>>
        BY <3>2 DEF Listens, Heads
      <4> QED BY <1>2, <2>1, <2>4, <4>1 DEF First, Closed, Queue
    <3> QED BY <3>1, <3>2 DEF Lists, Doubly
  <2> QED BY <2>4, <2>5 DEF n, FirstSet
<1>3. CASE list = "listen"
  <2> DEFINE x == [m.listen EXCEPT ![c] = q]
  <2>1. x \in [Contexts -> Pointer] /\ \A d \in Contexts : x[d] = IF d = c THEN q ELSE m.listen[d]
    BY <1>1
  <2>2. n = [m EXCEPT !.listen = x]
    BY <1>3 DEF Memory
  <2> HIDE DEF x
  <2>3. [m EXCEPT !.listen = x] \in Memory /\ FirstsOnly(m, [m EXCEPT !.listen = x])
        /\ [m EXCEPT !.listen = x].listen = x /\ [m EXCEPT !.listen = x].head = m.head
    BY <2>1 DEF Memory, FirstsOnly
  <2> HIDE DEF n
  <2>4. n \in Memory /\ FirstsOnly(m, n) /\ n.listen = x /\ n.head = m.head
    BY <2>2, <2>3
  <2>5. ASSUME NEW u \in Lists PROVE First(n, u) = IF u = <<list, c>> THEN q ELSE First(m, u)
    <3>1. CASE u = Closed \/ u = Queue
      BY <1>3, <2>4, <3>1 DEF First, FirstsOnly, Closed, Queue
    <3>2. CASE u \in Listens \cup Heads
      <4>1. PICK d \in Contexts : u = <<"listen", d>> \/ u = <<"head", d>>
        BY <3>2 DEF Listens, Heads
      <4> QED BY <1>3, <2>1, <2>4, <4>1 DEF First, Closed, Queue
    <3> QED BY <3>1, <3>2 DEF Lists, Doubly
  <2> QED BY <2>4, <2>5 DEF n, FirstSet
<1> QED BY <1>2, <1>3

\* The list of its context that a socket belongs to.
Own(k) == <<ListOf(k), k.ctx>>

\* The list of an open socket is a list of its context.
LEMMA OwnType ==
  ASSUME NEW k \in Socket
  PROVE  Own(k) \in Doubly /\ ListOf(k) \in {"head", "listen"} /\ k.ctx \in Contexts
BY DEF Own, ListOf, Doubly, Listens, Heads, Socket

\* The iterator of the context of s is moved on if it is at s.
LEMMA IteratorMoves ==
  ASSUME NEW m \in Memory, NEW c \in Contexts, NEW x \in Pointer
  PROVE  LET n == [m EXCEPT !.iterator[c] = x]
         IN  /\ n \in Memory /\ n.sock = m.sock /\ n.iterator = [m.iterator EXCEPT ![c] = x]
             /\ n.tick = m.tick /\ n.low = m.low /\ n.budget = m.budget /\ n.closed = m.closed
             /\ \A u \in Lists : First(n, u) = First(m, u)
<1> DEFINE n == [m EXCEPT !.iterator[c] = x]
           y == [m.iterator EXCEPT ![c] = x]
<1>1. y \in [Contexts -> Pointer] /\ n = [m EXCEPT !.iterator = y]
  BY DEF Memory
<1> HIDE DEF y
<1>2. LET k == [m EXCEPT !.iterator = y]
      IN  /\ k \in Memory /\ k.sock = m.sock /\ k.iterator = y /\ k.head = m.head /\ k.listen = m.listen
          /\ k.tick = m.tick /\ k.low = m.low /\ k.budget = m.budget /\ k.closed = m.closed
  BY <1>1 DEF Memory
<1> HIDE DEF n
<1>3. /\ n \in Memory /\ n.sock = m.sock /\ n.iterator = y /\ n.head = m.head /\ n.listen = m.listen
      /\ n.tick = m.tick /\ n.low = m.low /\ n.budget = m.budget /\ n.closed = m.closed
  BY <1>1, <1>2
<1>4. \A u \in Lists : First(n, u) = First(m, u)
  BY <1>3 DEF First
<1> QED BY <1>3, <1>4 DEF n, y

\* s leaves its list with the record k.
Unlinked(m, n, w, s, k) ==
  /\ n \in Memory
  /\ Removed(m, n, w, s)
  /\ OthersAlike(m, n, s)
  /\ n.sock[s] = k
  /\ n.tick = m.tick /\ n.budget = m.budget

\* us_internal_socket_context_unlink_socket removes the socket between its neighbours and
\* moves the iterator on if it was there (context.c:73-111).
LEMMA UnlinkIs ==
  ASSUME NEW m \in Memory, NEW w \in Placing, NEW b \in Nat, NEW r \in Ranking(b), Threads(m, w, r),
         NEW s \in Sockets, w[s] = Own(m.sock[s])
  PROVE  /\ Unlinked(m, Unlink(m, s), w, s, m.sock[s])
         /\ Unlink(m, s).iterator =
              [m.iterator EXCEPT ![m.sock[s].ctx] = IF @ = s THEN m.sock[s].next ELSE @]
<1> DEFINE k == m.sock[s]
           list == ListOf(k)
           c == k.ctx
           it == IF m.iterator[c] = s THEN k.next ELSE m.iterator[c]
           m1 == [m EXCEPT !.iterator[c] = it]
           m2 == [m1 EXCEPT ![list][c] = NULL]
           m3 == [m1 EXCEPT ![list][c] = k.next]
           m4 == SetNext(m1, k.prev, k.next)
           n == Unlink(m, s)
<1>1. /\ m.sock \in [Sockets -> Socket] /\ k \in Socket /\ k.next \in Pointer /\ NULL \in Pointer /\ NULL \notin Sockets
      /\ list \in {"head", "listen"} /\ c \in Contexts /\ w[s] \in Doubly /\ w[s] = <<list, c>>
  BY SocketType, OwnType, Constants DEF Own, Pointer, Memory
<1>2. /\ k.next \in (Sockets \cup {NULL}) \ {s} /\ k.prev \in (Sockets \cup {NULL}) \ {s}
      /\ k.next = k.prev => k.next = NULL
  BY <1>1, Neighbours
<1>3. k.next \in Pointer /\ k.prev \in Pointer /\ k.next # s /\ k.prev # s
  BY <1>2 DEF Pointer
<1>4. it \in Pointer
  BY <1>1 DEF Memory
<1>5. [m.iterator EXCEPT ![c] = it] = [m.iterator EXCEPT ![c] = IF @ = s THEN k.next ELSE @]
  BY <1>1 DEF Memory
<1>6. n = IF k.prev = k.next THEN m2
          ELSE SetPrev(IF k.prev = NULL THEN m3 ELSE m4, k.next, k.prev)
  BY DEF Unlink
<1> DEFINE j == [m.iterator EXCEPT ![c] = it]
<1> HIDE DEF it
<1>7. /\ m1 \in Memory /\ m1.sock = m.sock /\ m1.iterator = j /\ m1.tick = m.tick /\ m1.budget = m.budget
      /\ \A u \in Lists : First(m1, u) = First(m, u)
  BY <1>1, <1>4, IteratorMoves
<1> HIDE DEF m1, list, c, k, n, j
<1> SUFFICES Unlinked(m, n, w, s, m.sock[s]) /\ n.iterator = j
  BY <1>5 DEF n, j, c, k
<1>8. /\ m2 \in Memory /\ m2.sock = m.sock /\ m2.iterator = j /\ m2.tick = m.tick /\ m2.budget = m.budget
      /\ \A u \in Lists : First(m2, u) = IF u = w[s] THEN NULL ELSE First(m, u)
  <2>1. FirstSet(m1, m2, <<list, c>>, NULL)
    BY <1>1, <1>7, SetFirstIs
  <2> HIDE DEF m2
  <2> QED BY <1>1, <1>7, <2>1 DEF FirstSet, FirstsOnly
<1>9. /\ m3 \in Memory /\ m3.sock = m.sock /\ m3.iterator = j /\ m3.tick = m.tick /\ m3.budget = m.budget
      /\ \A u \in Lists : First(m3, u) = IF u = w[s] THEN k.next ELSE First(m, u)
  <2>1. FirstSet(m1, m3, <<list, c>>, k.next)
    BY <1>1, <1>7, SetFirstIs
  <2> HIDE DEF m3
  <2> QED BY <1>1, <1>7, <2>1 DEF FirstSet, FirstsOnly
<1>10. /\ m4 \in Memory /\ m4.iterator = j /\ m4.tick = m.tick /\ m4.budget = m.budget
       /\ \A t \in Sockets : m4.sock[t] = IF t = k.prev THEN [m.sock[t] EXCEPT !.next = k.next] ELSE m.sock[t]
       /\ \A u \in Lists : First(m4, u) = First(m, u)
  <2>1. NextSet(m1, m4, k.prev, k.next)
    BY <1>3, <1>7, SetNextIs
  <2> HIDE DEF m4
  <2>2. \A u \in Lists : First(m4, u) = First(m1, u)
    BY <2>1 DEF NextSet, RestKept, First
  <2> QED BY <1>7, <2>1, <2>2 DEF NextSet, RestKept
<1> HIDE DEF m2, m3, m4
<1>12. \A t \in Sockets \ {s} : t = k.next => m.sock[t].prev = s
  <2>1. w[s] \in Lists
    BY <1>1, ListsDiffer
  <2> QED BY <1>1, <2>1 DEF Threads, k
<1>13. ASSUME NEW m5 \in Memory, m5.iterator = j, m5.tick = m.tick, m5.budget = m.budget,
              \A t \in Sockets : m5.sock[t] = IF t = k.prev THEN [m.sock[t] EXCEPT !.next = k.next] ELSE m.sock[t],
              \A u \in Lists : First(m5, u) = IF u = w[s] /\ k.prev = NULL THEN k.next ELSE First(m, u),
              n = SetPrev(m5, k.next, k.prev)
       PROVE  Unlinked(m, n, w, s, m.sock[s]) /\ n.iterator = j
  <2>1. /\ n \in Memory /\ RestKept(m5, n)
        /\ \A t \in Sockets : n.sock[t] = IF t = k.next THEN [m5.sock[t] EXCEPT !.prev = k.prev] ELSE m5.sock[t]
    <3>1. PrevSet(m5, n, k.next, k.prev)
      BY <1>3, <1>13, SetPrevIs
    <3> QED BY <3>1 DEF PrevSet
  <2>2. \A u \in Lists : First(n, u) = IF u = w[s] /\ k.prev = NULL THEN k.next ELSE First(m, u)
    BY <1>13, <2>1 DEF RestKept, First
  <2>3. n.tick = m.tick /\ n.budget = m.budget /\ n.iterator = j
    BY <1>13, <2>1 DEF RestKept
  <2>4. n.sock[s] = m.sock[s]
    BY <1>3, <1>13, <2>1
  <2>5. ASSUME NEW t \in Sockets \ {s}
        PROVE  /\ n.sock[t].next = IF t = k.prev THEN k.next ELSE m.sock[t].next
               /\ n.sock[t].prev = IF t = k.next THEN k.prev ELSE m.sock[t].prev
               /\ Alike(m.sock[t], n.sock[t])
    <3>1. m.sock[t] \in Socket
      BY <1>1
    <3>2. CASE t = k.prev
      <4>1. t # k.next
        BY <1>2, <3>2, <1>1
      <4>2. n.sock[t] = [m.sock[t] EXCEPT !.next = k.next]
        BY <1>13, <2>1, <3>2, <4>1
      <4>3. [m.sock[t] EXCEPT !.next = k.next].next = k.next /\ [m.sock[t] EXCEPT !.next = k.next].prev = m.sock[t].prev
        BY <3>1 DEF Socket
      <4>4. Alike(m.sock[t], [m.sock[t] EXCEPT !.next = k.next])
        BY <3>1 DEF Alike, Socket
      <4> QED BY <3>2, <4>1, <4>2, <4>3, <4>4
    <3>3. CASE t = k.next
      <4>1. t # k.prev
        BY <1>2, <3>3, <1>1
      <4>2. n.sock[t] = [m.sock[t] EXCEPT !.prev = k.prev]
        BY <1>13, <2>1, <3>3, <4>1
      <4>3. [m.sock[t] EXCEPT !.prev = k.prev].prev = k.prev /\ [m.sock[t] EXCEPT !.prev = k.prev].next = m.sock[t].next
        BY <3>1 DEF Socket
      <4>4. m.sock[t].prev \in Pointer
        BY <1>12, <3>3 DEF Pointer
      <4>5. Alike(m.sock[t], [m.sock[t] EXCEPT !.prev = k.prev])
        BY <1>3, <3>1, <4>4 DEF Alike, Socket
      <4> QED BY <3>3, <4>1, <4>2, <4>3, <4>5
    <3>4. CASE t # k.prev /\ t # k.next
      <4>1. n.sock[t] = m.sock[t]
        BY <1>13, <2>1, <3>4
      <4> QED BY <1>1, <3>1, <3>4, <4>1, AlikePointers
    <3> QED BY <3>2, <3>3, <3>4
  <2>6. Removed(m, n, w, s) /\ OthersAlike(m, n, s)
    BY <2>2, <2>5 DEF Removed, OthersAlike, k
  <2> QED BY <2>1, <2>3, <2>4, <2>6 DEF Unlinked
<1>14. CASE k.prev = k.next
  <2>1. k.prev = NULL /\ k.next = NULL
    BY <1>2, <1>14
  <2>2. n = SetPrev(m2, k.next, k.prev)
    BY <1>6, <1>14, <2>1 DEF SetPrev
  <2>3. \A t \in Sockets : m2.sock[t] = IF t = k.prev THEN [m.sock[t] EXCEPT !.next = k.next] ELSE m.sock[t]
    BY <1>1, <1>8, <2>1
  <2>4. \A u \in Lists : First(m2, u) = IF u = w[s] /\ k.prev = NULL THEN k.next ELSE First(m, u)
    BY <1>8, <2>1
  <2> QED BY <1>8, <1>13, <2>2, <2>3, <2>4
<1>15. CASE k.prev # k.next /\ k.prev = NULL
  <2>1. \A t \in Sockets : m3.sock[t] = IF t = k.prev THEN [m.sock[t] EXCEPT !.next = k.next] ELSE m.sock[t]
    BY <1>1, <1>9, <1>15
  <2>2. \A u \in Lists : First(m3, u) = IF u = w[s] /\ k.prev = NULL THEN k.next ELSE First(m, u)
    BY <1>9, <1>15
  <2>3. n = SetPrev(m3, k.next, k.prev)
    BY <1>6, <1>15
  <2> QED BY <1>9, <1>13, <2>1, <2>2, <2>3
<1>16. CASE k.prev # k.next /\ k.prev # NULL
  <2>1. \A u \in Lists : First(m4, u) = IF u = w[s] /\ k.prev = NULL THEN k.next ELSE First(m, u)
    BY <1>10, <1>16
  <2>2. n = SetPrev(m4, k.next, k.prev)
    BY <1>6, <1>16
  <2> QED BY <1>10, <1>13, <2>1, <2>2
<1> QED BY <1>14, <1>15, <1>16

\* The record of s becomes k.
SockSet(m, n, s, k) ==
  /\ n \in Memory
  /\ RestKept(m, n)
  /\ n.sock = [m.sock EXCEPT ![s] = k]

\* Writing one record leaves the others.
LEMMA SetSockIs ==
  ASSUME NEW m \in Memory, NEW s \in Sockets, NEW k \in Socket
  PROVE  SockSet(m, [m EXCEPT !.sock[s] = k], s, k)
<1> DEFINE x == [m.sock EXCEPT ![s] = k]
<1>1. x \in [Sockets -> Socket]
  BY DEF Memory
<1>2. [m EXCEPT !.sock[s] = k] = [m EXCEPT !.sock = x]
  BY DEF Memory
<1> HIDE DEF x
<1>3. [m EXCEPT !.sock = x] \in Memory /\ [m EXCEPT !.sock = x].sock = x /\ RestKept(m, [m EXCEPT !.sock = x])
  BY <1>1 DEF Memory, RestKept
<1> QED BY <1>2, <1>3 DEF SockSet, x

\* The low-priority queue, or the list of closed sockets, begins at q.
LEMMA SetLowIs ==
  ASSUME NEW m \in Memory, NEW q \in Pointer
  PROVE  LET n == [m EXCEPT !.low = q]
         IN  /\ n \in Memory /\ n.sock = m.sock /\ n.iterator = m.iterator
             /\ n.tick = m.tick /\ n.budget = m.budget
             /\ \A u \in Lists : First(n, u) = IF u = Queue THEN q ELSE First(m, u)
<1> DEFINE n == [m EXCEPT !.low = q]
<1>1. /\ n \in Memory /\ n.sock = m.sock /\ n.iterator = m.iterator /\ n.head = m.head /\ n.listen = m.listen
      /\ n.tick = m.tick /\ n.low = q /\ n.budget = m.budget /\ n.closed = m.closed
  BY DEF Memory
<1> HIDE DEF n
<1>2. \A u \in Lists : First(n, u) = IF u = Queue THEN q ELSE First(m, u)
  BY <1>1 DEF First, Queue, Closed
<1> QED BY <1>1, <1>2 DEF n

\* Writing the list of closed sockets changes no other list.
LEMMA SetClosedIs ==
  ASSUME NEW m \in Memory, NEW q \in Pointer
  PROVE  LET n == [m EXCEPT !.closed = q]
         IN  /\ n \in Memory /\ n.sock = m.sock /\ n.iterator = m.iterator
             /\ n.tick = m.tick /\ n.budget = m.budget
             /\ \A u \in Lists : First(n, u) = IF u = Closed THEN q ELSE First(m, u)
<1> DEFINE n == [m EXCEPT !.closed = q]
<1>1. /\ n \in Memory /\ n.sock = m.sock /\ n.iterator = m.iterator /\ n.head = m.head /\ n.listen = m.listen
      /\ n.tick = m.tick /\ n.low = m.low /\ n.budget = m.budget /\ n.closed = q
  BY DEF Memory
<1> HIDE DEF n
<1>2. \A u \in Lists : First(n, u) = IF u = Closed THEN q ELSE First(m, u)
  BY <1>1 DEF First, Queue, Closed
<1> QED BY <1>1, <1>2 DEF n

\* s comes to the front of list v with the record k.
Linked(m, n, v, s, k) ==
  /\ n \in Memory
  /\ Pushed(m, n, v, s)
  /\ OthersAlike(m, n, s)
  /\ n.sock[s] = k
  /\ n.iterator = m.iterator /\ n.tick = m.tick /\ n.budget = m.budget

\* The record of s and the pointer to the first socket are set, and then the
\* prev of the socket that was first.
LEMMA PushIs ==
  ASSUME NEW m \in Memory, NEW w \in Placing, NEW b \in Nat, NEW r \in Ranking(b), Threads(m, w, r),
         NEW s \in Sockets, w[s] = Out, NEW v \in Lists, NEW k \in Socket,
         k.next = First(m, v), v \in Doubly => k.prev = NULL,
         NEW m1 \in Memory, m1.sock = [m.sock EXCEPT ![s] = k],
         m1.iterator = m.iterator, m1.tick = m.tick, m1.budget = m.budget,
         \A u \in Lists : First(m1, u) = IF u = v THEN s ELSE First(m, u),
         NEW n, n = IF v \in Doubly THEN SetPrev(m1, First(m, v), s) ELSE m1
  PROVE  Linked(m, n, v, s, k)
<1> DEFINE p == First(m, v)
<1>0. NULL \notin Sockets /\ Out \notin Lists
  BY Constants, ListsDiffer
<1>1. p \in Pointer /\ p # s /\ (p # NULL => p \in Sockets /\ (v \in Doubly => m.sock[p].prev = NULL))
  <2>1. p # NULL => p \in Sockets /\ w[p] = v /\ (v \in Doubly => m.sock[p].prev = NULL)
    BY DEF Threads
  <2> QED BY <1>0, <2>1, FirstType
<1>2. m.sock \in [Sockets -> Socket] /\ s \in Pointer
  BY DEF Memory, Pointer
<1> HIDE DEF p
<1>3. CASE v \in Doubly
  <2>1. PrevSet(m1, n, p, s)
    BY <1>1, <1>2, <1>3, SetPrevIs DEF p
  <2>2. n \in Memory /\ n.iterator = m.iterator /\ n.tick = m.tick /\ n.budget = m.budget
    BY <2>1 DEF PrevSet, RestKept
  <2>3. \A u \in Lists : First(n, u) = IF u = v THEN s ELSE First(m, u)
    <3>1. \A u \in Lists : First(n, u) = First(m1, u)
      BY <2>1 DEF PrevSet, RestKept, First
    <3> QED BY <3>1
  <2>4. n.sock[s] = k
    <3>1. n.sock[s] = m1.sock[s]
      BY <1>1, <2>1 DEF PrevSet
    <3> QED BY <1>2, <3>1
  <2>5. ASSUME NEW t \in Sockets \ {s}
        PROVE  /\ n.sock[t].next = m.sock[t].next
               /\ n.sock[t].prev = IF v \in Doubly /\ t = p THEN s ELSE m.sock[t].prev
               /\ Alike(m.sock[t], n.sock[t])
    <3>1. m.sock[t] \in Socket /\ m1.sock[t] = m.sock[t]
      BY <1>2
    <3>2. n.sock[t] = IF t = p THEN [m.sock[t] EXCEPT !.prev = s] ELSE m.sock[t]
      BY <2>1, <3>1 DEF PrevSet
    <3>3. CASE t = p
      <4>1. m.sock[t].prev = NULL /\ NULL \in Pointer
        BY <1>0, <1>1, <1>3, <3>3 DEF Pointer
      <4>2. n.sock[t] = [m.sock[t] EXCEPT !.prev = s]
        BY <3>2, <3>3
      <4>3. m.sock[t] \in Socket /\ s \in Pointer /\ m.sock[t].prev \in Pointer
        BY <1>2, <3>1, <4>1
      <4> DEFINE j == m.sock[t]
      <4> HIDE DEF j
      <4>4. [j EXCEPT !.prev = s].next = j.next /\ [j EXCEPT !.prev = s].prev = s /\ Alike(j, [j EXCEPT !.prev = s])
        BY <4>3, AlikePrev DEF j
      <4> QED BY <1>3, <3>3, <4>2, <4>4 DEF j
    <3>4. CASE t # p
      <4>1. n.sock[t] = m.sock[t]
        BY <3>2, <3>4
      <4> QED BY <3>4, <4>1, AlikeSelf
    <3> QED BY <3>3, <3>4
  <2>6. Pushed(m, n, v, s)
    BY <1>3, <2>3, <2>4, <2>5 DEF Pushed, p
  <2> QED BY <2>2, <2>4, <2>5, <2>6 DEF Linked, OthersAlike
<1>4. CASE v \notin Doubly
  <2>1. n = m1 /\ n.sock[s] = k
    BY <1>2, <1>4
  <2>2. \A t \in Sockets \ {s} : n.sock[t] = m.sock[t] /\ Alike(m.sock[t], n.sock[t])
    BY <1>2, <2>1, AlikeSelf
  <2>3. Pushed(m, n, v, s)
    BY <1>4, <2>1, <2>2 DEF Pushed
  <2> QED BY <2>1, <2>2, <2>3 DEF Linked, OthersAlike
<1> QED BY <1>3, <1>4

\* The record of a socket that comes first in a list of context c.
Front(j, c, q) == [j EXCEPT !.ctx = c, !.next = q, !.prev = NULL]

\* The record of a socket that is linked into a context.
LEMMA FrontType ==
  ASSUME NEW j \in Socket, NEW c \in Contexts, NEW q \in Pointer
  PROVE  LET k == Front(j, c, q)
         IN  /\ k \in Socket /\ k.next = q /\ k.prev = NULL /\ k.ctx = c /\ k.kind = j.kind /\ k.low = j.low
             /\ k.reads = j.reads /\ k.shaking = j.shaking /\ k.timeout = j.timeout /\ k.long = j.long
             /\ k.wait = j.wait /\ k.longWait = j.longWait /\ k.missed = j.missed /\ k.late = j.late
             /\ k.handle = j.handle
<1>1. NULL \in Pointer \cup Contexts
  BY DEF Pointer
<1> QED BY <1>1 DEF Socket, Front

\* us_internal_socket_context_link_socket pushes the socket (context.c:114-133).
LEMMA LinkIs ==
  ASSUME NEW m \in Memory, NEW w \in Placing, NEW b \in Nat, NEW r \in Ranking(b), Threads(m, w, r),
         NEW s \in Sockets, w[s] = Out, NEW c \in Contexts,
         NEW v, v = <<ListOf(m.sock[s]), c>>, NEW k, k = Front(m.sock[s], c, First(m, v))
  PROVE  Linked(m, Link(m, c, s), v, s, k)
<1> DEFINE list == ListOf(m.sock[s])
           m0 == [m EXCEPT !.sock[s] = k]
           m1 == [m0 EXCEPT ![list][c] = s]
<1>1. m.sock[s] \in Socket /\ list \in {"head", "listen"} /\ s \in Pointer
  BY SocketType DEF ListOf, Pointer
<1>2. v \in Doubly /\ v \in Lists /\ v[2] = c
  BY <1>1 DEF Doubly, Heads, Listens, Lists
<1>3. First(m, v) = m[list][c] /\ First(m, v) \in Pointer
  BY <1>1, <1>2, FirstType DEF First, Closed, Queue
<1>4. k \in Socket /\ k.next = First(m, v) /\ k.prev = NULL
  <2> DEFINE j == m.sock[s]
             q == First(m, v)
  <2>1. j \in Socket /\ q \in Pointer /\ k = Front(j, c, q)
    BY <1>1, <1>3
  <2> HIDE DEF j, q
  <2>2. Front(j, c, q) \in Socket /\ Front(j, c, q).next = q /\ Front(j, c, q).prev = NULL
    BY <2>1, FrontType
  <2> QED BY <2>1, <2>2 DEF q
<1>5. SockSet(m, m0, s, k)
  BY <1>4, SetSockIs
<1>6. Link(m, c, s) = SetPrev(m1, First(m, v), s)
  <2>1. Link(m, c, s) =
          SetPrev([m EXCEPT !.sock[s] = [@ EXCEPT !.ctx = c, !.next = m[list][c], !.prev = NULL],
                            ![list][c] = s], m[list][c], s)
    BY DEF Link
  <2>2. [m EXCEPT !.sock[s] = [@ EXCEPT !.ctx = c, !.next = m[list][c], !.prev = NULL], ![list][c] = s] = m1
    BY <1>1, <1>3 DEF Memory, Front
  <2> HIDE DEF m1
  <2> QED BY <1>3, <2>1, <2>2
<1> HIDE DEF m0, list
<1>7. m0 \in Memory /\ m0.sock = [m.sock EXCEPT ![s] = k] /\ RestKept(m, m0) /\ \A u \in Lists : First(m0, u) = First(m, u)
  BY <1>5 DEF SockSet, RestKept, First
<1>8. FirstSet(m0, m1, <<list, c>>, s)
  BY <1>1, <1>7, SetFirstIs
<1> HIDE DEF m1
<1>9. /\ m1 \in Memory /\ m1.sock = [m.sock EXCEPT ![s] = k]
      /\ m1.iterator = m.iterator /\ m1.tick = m.tick /\ m1.budget = m.budget
      /\ \A u \in Lists : First(m1, u) = IF u = v THEN s ELSE First(m, u)
  BY <1>7, <1>8 DEF FirstSet, FirstsOnly, RestKept, list
<1> DEFINE n == Link(m, c, s)
<1>10. n = IF v \in Doubly THEN SetPrev(m1, First(m, v), s) ELSE m1
  BY <1>2, <1>6
<1> HIDE DEF n
<1> QED BY <1>2, <1>4, <1>9, <1>10, PushIs DEF n

\* What PushLow makes of the record of a socket.
QueuedRecord(j, q) == [j EXCEPT !.prev = NULL, !.next = q, !.low = 1, !.reads = FALSE]

\* The record of a socket that is put into the low-priority queue.
LEMMA QueuedRecordType ==
  ASSUME NEW j \in Socket, NEW q \in Pointer
  PROVE  LET k == QueuedRecord(j, q)
         IN  /\ k \in Socket /\ k.next = q /\ k.prev = NULL /\ k.low = 1 /\ k.reads = FALSE
             /\ k.kind = j.kind /\ k.ctx = j.ctx /\ k.shaking = j.shaking /\ k.late = j.late /\ k.handle = j.handle
             /\ k.timeout = j.timeout /\ k.wait = j.wait /\ k.long = j.long /\ k.longWait = j.longWait
             /\ k.missed = j.missed
<1>1. 1 \in 0 .. 2 /\ FALSE \in BOOLEAN /\ NULL \in Pointer \cup Contexts
  BY DEF Pointer
<1> QED BY <1>1 DEF Socket, QueuedRecord

\* Queueing pushes the socket in front of the low-priority queue (loop.c:396-406).
LEMMA PushLowIs ==
  ASSUME NEW m \in Memory, NEW w \in Placing, NEW b \in Nat, NEW r \in Ranking(b), Threads(m, w, r),
         NEW s \in Sockets, w[s] = Out, NEW k, k = QueuedRecord(m.sock[s], m.low)
  PROVE  Linked(m, PushLow(m, s), Queue, s, k)
<1> DEFINE m0 == [m EXCEPT !.sock[s] = k]
           m1 == [m0 EXCEPT !.low = s]
<1>1. m.sock[s] \in Socket /\ s \in Pointer /\ m.low \in Pointer
  BY SocketType DEF Pointer, Memory
<1>2. Queue \in Doubly /\ Queue \in Lists /\ First(m, Queue) = m.low
  BY DEF Doubly, Lists, First, Queue, Closed
<1>4. k \in Socket /\ k.next = m.low /\ k.prev = NULL
  <2> DEFINE j == m.sock[s]
  <2>1. j \in Socket /\ m.low \in Pointer /\ k = QueuedRecord(j, m.low)
    BY <1>1
  <2> HIDE DEF j
  <2>2. QueuedRecord(j, m.low) \in Socket /\ QueuedRecord(j, m.low).next = m.low /\ QueuedRecord(j, m.low).prev = NULL
    BY <2>1, QueuedRecordType
  <2> QED BY <2>1, <2>2
<1>5. SockSet(m, m0, s, k)
  BY <1>4, SetSockIs
<1>6. PushLow(m, s) = SetPrev(m1, m.low, s)
  <2>1. [m EXCEPT !.sock[s] = [@ EXCEPT !.prev = NULL, !.next = m.low, !.low = 1, !.reads = FALSE], !.low = s] = m1
    BY DEF Memory, QueuedRecord
  <2> HIDE DEF m1
  <2> QED BY <2>1 DEF PushLow
<1> HIDE DEF m0
<1>7. m0 \in Memory /\ m0.sock = [m.sock EXCEPT ![s] = k] /\ RestKept(m, m0) /\ \A u \in Lists : First(m0, u) = First(m, u)
  BY <1>5 DEF SockSet, RestKept, First
<1>8. /\ m1 \in Memory /\ m1.sock = m0.sock /\ m1.iterator = m0.iterator
      /\ m1.tick = m0.tick /\ m1.budget = m0.budget
      /\ \A u \in Lists : First(m1, u) = IF u = Queue THEN s ELSE First(m0, u)
  BY <1>1, <1>7, SetLowIs
<1> HIDE DEF m1
<1>9. /\ m1 \in Memory /\ m1.sock = [m.sock EXCEPT ![s] = k]
      /\ m1.iterator = m.iterator /\ m1.tick = m.tick /\ m1.budget = m.budget
      /\ \A u \in Lists : First(m1, u) = IF u = Queue THEN s ELSE First(m, u)
  BY <1>7, <1>8 DEF RestKept
<1> DEFINE n == PushLow(m, s)
<1>10. n = IF Queue \in Doubly THEN SetPrev(m1, First(m, Queue), s) ELSE m1
  BY <1>2, <1>6
<1> HIDE DEF n
<1> QED BY <1>2, <1>4, <1>9, <1>10, PushIs DEF n

\* What ToClosed makes of the record of a socket.
ClosedRecord(k, q) ==
  [PollStop(k) EXCEPT !.next = q, !.prev = k.ctx, !.timeout = None, !.long = None, !.wait = 0, !.longWait = 0,
                      !.missed = {}, !.shaking = FALSE, !.late = (phase = "immediates")]

\* The record of a closed socket: prev is its context, next the closed list.
LEMMA ClosedRecordType ==
  ASSUME NEW k \in Socket, NEW q \in Pointer
  PROVE  /\ ClosedRecord(k, q) \in Socket
         /\ ClosedRecord(k, q).next = q /\ ClosedRecord(k, q).prev = k.ctx /\ ClosedRecord(k, q).ctx = k.ctx
         /\ ClosedRecord(k, q).kind = k.kind /\ ClosedRecord(k, q).handle = "stopping"
         /\ ClosedRecord(k, q).reads = FALSE /\ ClosedRecord(k, q).late = (phase = "immediates")
         /\ ClosedRecord(k, q).timeout = None /\ ClosedRecord(k, q).long = None
<1>1. None \in 0 .. Modulus /\ 0 \in Nat /\ {} \in SUBSET {"short", "long"} /\ FALSE \in BOOLEAN
  BY SocketLoopAssumption DEF None
<1> DEFINE e == (phase = "immediates")
           j == PollStop(k)
<1>2. e \in BOOLEAN
  OBVIOUS
<1>3. /\ j \in Socket /\ j.kind = k.kind /\ j.ctx = k.ctx /\ j.handle = "stopping" /\ j.reads = FALSE
      /\ k.ctx \in Pointer \cup Contexts
  BY <1>1 DEF PollStop, Socket
<1>4. ClosedRecord(k, q) =
        [j EXCEPT !.next = q, !.prev = k.ctx, !.timeout = None, !.long = None, !.wait = 0, !.longWait = 0,
                  !.missed = {}, !.shaking = FALSE, !.late = e]
  BY DEF ClosedRecord
<1> HIDE DEF j, e
<1>5. LET x == [j EXCEPT !.next = q, !.prev = k.ctx, !.timeout = None, !.long = None, !.wait = 0, !.longWait = 0,
                         !.missed = {}, !.shaking = FALSE, !.late = e]
      IN  x \in Socket /\ x.next = q /\ x.prev = k.ctx /\ x.ctx = j.ctx /\ x.kind = j.kind
          /\ x.handle = j.handle /\ x.reads = j.reads /\ x.late = e
  BY <1>1, <1>2, <1>3 DEF Socket
<1> QED BY <1>3, <1>4, <1>5 DEF e

\* Closing pushes the socket in front of the list of closed sockets.
LEMMA ToClosedIs ==
  ASSUME NEW m \in Memory, NEW w \in Placing, NEW b \in Nat, NEW r \in Ranking(b), Threads(m, w, r),
         NEW s \in Sockets, w[s] = Out
  PROVE  Linked(m, ToClosed(m, s), Closed, s, ClosedRecord(m.sock[s], m.closed))
<1> DEFINE k == ClosedRecord(m.sock[s], m.closed)
           m0 == [m EXCEPT !.sock[s] = k]
           m1 == [m0 EXCEPT !.closed = s]
<1>1. m.sock[s] \in Socket /\ s \in Pointer /\ m.closed \in Pointer
  BY SocketType DEF Pointer, Memory
<1>2. Closed \notin Doubly /\ Closed \in Lists /\ First(m, Closed) = m.closed
  BY ListsDiffer DEF First
<1>4. k \in Socket /\ k.next = m.closed
  BY <1>1, ClosedRecordType
<1>5. SockSet(m, m0, s, k)
  <2> HIDE DEF k
  <2> QED BY <1>4, SetSockIs
<1>6. ToClosed(m, s) = m1
  BY DEF ToClosed, ClosedRecord, Memory
<1> HIDE DEF m0, k
<1>7. m0 \in Memory /\ m0.sock = [m.sock EXCEPT ![s] = k] /\ RestKept(m, m0) /\ \A u \in Lists : First(m0, u) = First(m, u)
  BY <1>5 DEF SockSet, RestKept, First
<1>8. /\ m1 \in Memory /\ m1.sock = m0.sock /\ m1.iterator = m0.iterator
      /\ m1.tick = m0.tick /\ m1.budget = m0.budget
      /\ \A u \in Lists : First(m1, u) = IF u = Closed THEN s ELSE First(m0, u)
  BY <1>1, <1>7, SetClosedIs
<1> HIDE DEF m1
<1>9. /\ m1 \in Memory /\ m1.sock = [m.sock EXCEPT ![s] = k]
      /\ m1.iterator = m.iterator /\ m1.tick = m.tick /\ m1.budget = m.budget
      /\ \A u \in Lists : First(m1, u) = IF u = Closed THEN s ELSE First(m, u)
  BY <1>7, <1>8 DEF RestKept
<1> DEFINE n == ToClosed(m, s)
<1>10. n = IF Closed \in Doubly THEN SetPrev(m1, First(m, Closed), s) ELSE m1
  BY <1>2, <1>6
<1> HIDE DEF n
<1>11. Linked(m, n, Closed, s, k)
  BY <1>2, <1>4, <1>9, <1>10, PushIs
<1> QED BY <1>11 DEF n, k

\* A record that is out of the queue.
Unqueued(k) == [k EXCEPT !.low = 0]

\* The record of a socket that was taken out of the queue.
LEMMA UnqueuedType ==
  ASSUME NEW j \in Socket
  PROVE  LET k == Unqueued(j)
         IN  /\ k \in Socket /\ k.next = j.next /\ k.prev = j.prev /\ k.low = 0 /\ k.kind = j.kind
             /\ k.ctx = j.ctx /\ k.late = j.late
BY DEF Socket, Unqueued

\* Closing a queued socket removes it from the low-priority queue.
LEMMA UnlinkLowIs ==
  ASSUME NEW m \in Memory, NEW w \in Placing, NEW b \in Nat, NEW r \in Ranking(b), Threads(m, w, r),
         NEW s \in Sockets, w[s] = Queue
  PROVE  /\ Unlinked(m, UnlinkLow(m, s), w, s, Unqueued(m.sock[s]))
         /\ UnlinkLow(m, s).iterator = m.iterator
<1> DEFINE k == m.sock[s]
           m2 == [m EXCEPT !.low = k.next]
           m4 == SetNext(m, k.prev, k.next)
           n == UnlinkLow(m, s)
<1>1. /\ m.sock \in [Sockets -> Socket] /\ k \in Socket /\ k.next \in Pointer /\ NULL \in Pointer /\ NULL \notin Sockets
      /\ w[s] \in Doubly /\ w[s] \in Lists
  BY SocketType, Constants, ListsDiffer DEF Pointer, Memory, Doubly
<1>2. /\ k.next \in (Sockets \cup {NULL}) \ {s} /\ k.prev \in (Sockets \cup {NULL}) \ {s}
      /\ k.next = k.prev => k.next = NULL
  BY <1>1, Neighbours
<1>3. k.next \in Pointer /\ k.prev \in Pointer /\ k.next # s /\ k.prev # s
  BY <1>2 DEF Pointer
<1> DEFINE m1 == IF k.prev = NULL THEN m2 ELSE m4
           m5 == SetPrev(m1, k.next, k.prev)
<1>6. n = [m5 EXCEPT !.sock[s].low = 0]
  BY DEF UnlinkLow
<1> HIDE DEF k, n
<1>8. /\ m2 \in Memory /\ m2.sock = m.sock /\ m2.iterator = m.iterator /\ m2.tick = m.tick /\ m2.budget = m.budget
      /\ \A u \in Lists : First(m2, u) = IF u = w[s] THEN k.next ELSE First(m, u)
  BY <1>1, SetLowIs
<1>10. /\ m4 \in Memory /\ m4.iterator = m.iterator /\ m4.tick = m.tick /\ m4.budget = m.budget
       /\ \A t \in Sockets : m4.sock[t] = IF t = k.prev THEN [m.sock[t] EXCEPT !.next = k.next] ELSE m.sock[t]
       /\ \A u \in Lists : First(m4, u) = First(m, u)
  <2>1. NextSet(m, m4, k.prev, k.next)
    BY <1>3, SetNextIs
  <2> HIDE DEF m4
  <2>2. \A u \in Lists : First(m4, u) = First(m, u)
    BY <2>1 DEF NextSet, RestKept, First
  <2> QED BY <2>1, <2>2 DEF NextSet, RestKept
<1> HIDE DEF m2, m4
<1>11. /\ m1 \in Memory /\ m1.iterator = m.iterator /\ m1.tick = m.tick /\ m1.budget = m.budget
       /\ \A t \in Sockets : m1.sock[t] = IF t = k.prev THEN [m.sock[t] EXCEPT !.next = k.next] ELSE m.sock[t]
       /\ \A u \in Lists : First(m1, u) = IF u = w[s] /\ k.prev = NULL THEN k.next ELSE First(m, u)
  <2>1. CASE k.prev = NULL
    BY <1>1, <1>8, <2>1
  <2>2. CASE k.prev # NULL
    BY <1>10, <2>2
  <2> QED BY <2>1, <2>2
<1> HIDE DEF m1
<1>12. \A t \in Sockets \ {s} : t = k.next => m.sock[t].prev = s
  BY <1>1 DEF Threads, k
<1>13. PrevSet(m1, m5, k.next, k.prev)
  BY <1>3, <1>11, SetPrevIs
<1> HIDE DEF m5
<1>14. m5.sock[s] = k
  BY <1>3, <1>11, <1>13 DEF PrevSet, k
<1>15. SockSet(m5, n, s, Unqueued(k))
  <2>1. n = [m5 EXCEPT !.sock[s] = Unqueued(k)]
    BY <1>6, <1>14 DEF Unqueued
  <2>2. m5 \in Memory /\ Unqueued(k) \in Socket
    BY <1>1, <1>13, UnqueuedType DEF PrevSet
  <2> QED BY <2>1, <2>2, SetSockIs
<1>16. /\ n \in Memory /\ n.iterator = m.iterator /\ n.tick = m.tick /\ n.budget = m.budget /\ n.sock[s] = Unqueued(k)
       /\ \A u \in Lists : First(n, u) = IF u = w[s] /\ k.prev = NULL THEN k.next ELSE First(m, u)
       /\ \A t \in Sockets \ {s} : n.sock[t] = IF t = k.next THEN [m1.sock[t] EXCEPT !.prev = k.prev] ELSE m1.sock[t]
  <2>1. \A u \in Lists : First(n, u) = First(m5, u) /\ First(m5, u) = First(m1, u)
    BY <1>13, <1>15 DEF PrevSet, SockSet, RestKept, First
  <2>2. /\ n \in Memory /\ n.iterator = m.iterator /\ n.tick = m.tick /\ n.budget = m.budget
    BY <1>11, <1>13, <1>15 DEF PrevSet, SockSet, RestKept
  <2>3. m5.sock \in [Sockets -> Socket]
    BY <1>13 DEF PrevSet, Memory
  <2>4. n.sock = [m5.sock EXCEPT ![s] = Unqueued(k)]
    BY <1>15 DEF SockSet
  <2>5. n.sock[s] = Unqueued(k) /\ \A t \in Sockets \ {s} : n.sock[t] = m5.sock[t]
    BY <2>3, <2>4
  <2>6. \A t \in Sockets : m5.sock[t] = IF t = k.next THEN [m1.sock[t] EXCEPT !.prev = k.prev] ELSE m1.sock[t]
    BY <1>13 DEF PrevSet
  <2> QED BY <1>11, <2>1, <2>2, <2>5, <2>6
<1>17. ASSUME NEW t \in Sockets \ {s}
       PROVE  /\ n.sock[t].next = IF t = k.prev THEN k.next ELSE m.sock[t].next
              /\ n.sock[t].prev = IF t = k.next THEN k.prev ELSE m.sock[t].prev
              /\ Alike(m.sock[t], n.sock[t])
  <2> DEFINE j == m.sock[t]
  <2>1. j \in Socket
    BY <1>1
  <2> HIDE DEF j
  <2>2. CASE t = k.prev
    <3>1. t # k.next
      BY <1>1, <1>2, <2>2
    <3>2. n.sock[t] = [j EXCEPT !.next = k.next]
      BY <1>11, <1>16, <2>2, <3>1 DEF j
    <3>3. [j EXCEPT !.next = k.next].next = k.next /\ [j EXCEPT !.next = k.next].prev = j.prev /\ Alike(j, [j EXCEPT !.next = k.next])
      BY <1>3, <2>1, AlikeNext
    <3> QED BY <2>2, <3>1, <3>2, <3>3 DEF j
  <2>3. CASE t = k.next
    <3>1. t # k.prev
      BY <1>1, <1>2, <2>3
    <3>2. n.sock[t] = [j EXCEPT !.prev = k.prev]
      BY <1>11, <1>16, <2>3, <3>1 DEF j
    <3>3. j.prev \in Pointer
      BY <1>12, <2>3 DEF Pointer, j
    <3>4. [j EXCEPT !.prev = k.prev].next = j.next /\ [j EXCEPT !.prev = k.prev].prev = k.prev /\ Alike(j, [j EXCEPT !.prev = k.prev])
      BY <1>3, <2>1, <3>3, AlikePrev
    <3> QED BY <2>3, <3>1, <3>2, <3>4 DEF j
  <2>4. CASE t # k.prev /\ t # k.next
    <3>1. n.sock[t] = m.sock[t]
      BY <1>11, <1>16, <2>4
    <3> QED BY <2>4, <3>1, AlikeSelf
  <2> QED BY <2>2, <2>3, <2>4
<1>18. Removed(m, n, w, s) /\ OthersAlike(m, n, s)
  BY <1>16, <1>17 DEF Removed, OthersAlike, k
<1> QED BY <1>16, <1>18 DEF Unlinked, k, n

-----------------------------------------------------------------------------
(* A socket changes its list.                                              *)

\* Every record says a place.
LEMMA PlaceType ==
  ASSUME NEW k \in Socket
  PROVE  Place(k) \in Lists \cup {Out}
BY DEF Place, Socket, Lists, Doubly, Listens, Heads

\* The records place the sockets.
LEMMA PlacedType ==
  ASSUME NEW m \in Memory
  PROVE  Placed(m) \in Placing /\ \A s \in Sockets : Placed(m)[s] = Place(m.sock[s]) /\ m.sock[s] \in Socket
BY SocketType, PlaceType DEF Placed, Placing

\* If the others are alike, one socket changes its place.
LEMMA PlacedMoves ==
  ASSUME NEW m \in Memory, NEW n \in Memory, NEW s \in Sockets, OthersAlike(m, n, s)
  PROVE  Placed(n) = [Placed(m) EXCEPT ![s] = Place(n.sock[s])]
<1>1. \A t \in Sockets \ {s} : Place(n.sock[t]) = Place(m.sock[t])
  BY SocketType, AlikePlace DEF OthersAlike
<1> QED BY <1>1 DEF Placed

\* Being alike is transitive.
LEMMA AlikeTrans ==
  ASSUME NEW j, NEW k, NEW i, Alike(j, k), Alike(k, i)
  PROVE  Alike(j, i)
BY DEF Alike

\* So it is for all sockets but one.
LEMMA OthersTrans ==
  ASSUME NEW m, NEW n, NEW o, NEW s \in Sockets, OthersAlike(m, n, s), OthersAlike(n, o, s)
  PROVE  OthersAlike(m, o, s)
BY AlikeTrans DEF OthersAlike

\* The same, as the records say.
Keeps(n, r, s) == \E b \in Nat : KeptBut(n, Placed(n), b, r, s)

\* From m to n, s goes to another list, where its record is k.
Shifts(m, n, r, s, k) ==
  /\ n \in Memory
  /\ OthersAlike(m, n, s)
  /\ n.sock[s] = k
  /\ n.tick = m.tick
  /\ Keeps(n, r, s)

\* s, which w places in no list, comes to list v.
LEMMA ShiftsIn ==
  ASSUME NEW m \in Memory, NEW m1 \in Memory, NEW n, NEW b \in Nat, NEW r \in Ranking(b), NEW s \in Sockets,
         OthersAlike(m, m1, s), m1.tick = m.tick,
         NEW w \in Placing, w = [Placed(m) EXCEPT ![s] = Out], Threads(m1, w, r),
         NEW v \in Lists, NEW k, Linked(m1, n, v, s, k), Place(k) = v
  PROVE  Shifts(m, n, r, s, k)
<1>1. n \in Memory /\ OthersAlike(m1, n, s) /\ n.sock[s] = k /\ n.tick = m1.tick /\ Pushed(m1, n, v, s)
  BY DEF Linked
<1>2. OthersAlike(m, n, s)
  BY <1>1, OthersTrans
<1>3. Placed(m) \in [Sockets -> Lists \cup {Out}]
  BY PlacedType DEF Placing
<1>4. w[s] = Out
  BY <1>3
<1> DEFINE x == [w EXCEPT ![s] = v]
<1>5. KeptBut(n, x, b + 1, r, s)
  BY <1>1, <1>4, ThreadsPushed
<1>6. Placed(n) = [Placed(m) EXCEPT ![s] = v]
  BY <1>1, <1>2, PlacedMoves
<1>7. x = Placed(n)
  BY <1>3, <1>6
<1>8. b + 1 \in Nat
  OBVIOUS
<1> HIDE DEF x
<1>9. Keeps(n, r, s)
  BY <1>5, <1>7, <1>8 DEF Keeps
<1> QED BY <1>1, <1>2, <1>9 DEF Shifts

\* s leaves its list and comes to list v.
LEMMA ShiftsTo ==
  ASSUME NEW m \in Memory, NEW m1, NEW n, NEW b \in Nat, NEW r \in Ranking(b), NEW s \in Sockets,
         Threads(m, Placed(m), r), Placed(m)[s] \in Doubly,
         NEW k1, Unlinked(m, m1, Placed(m), s, k1),
         NEW v \in Lists, NEW k, Linked(m1, n, v, s, k), Place(k) = v
  PROVE  Shifts(m, n, r, s, k)
<1>1. Placed(m) \in Placing
  BY PlacedType
<1>2. m1 \in Memory /\ OthersAlike(m, m1, s) /\ m1.tick = m.tick /\ Removed(m, m1, Placed(m), s)
  BY DEF Unlinked
<1> DEFINE w == [Placed(m) EXCEPT ![s] = Out]
<1>3. w \in Placing /\ Threads(m1, w, r)
  BY <1>1, <1>2, ThreadsRemoved
<1> HIDE DEF w
<1>4. w = [Placed(m) EXCEPT ![s] = Out]
  BY DEF w
<1> QED BY <1>2, <1>3, <1>4, ShiftsIn

\* The sweep's cursor moves on when its socket leaves the list of its context.
CursorMoves(m, n, s) ==
  \A c \in Contexts :
    n.iterator[c] = IF m.iterator[c] = s /\ m.sock[s].ctx = c /\ Place(m.sock[s]) # Queue
                    THEN m.sock[s].next ELSE m.iterator[c]

\* The places of the sockets that are not closed.
LEMMA PlaceAlive ==
  ASSUME NEW m \in Memory, NEW s \in Sockets
  PROVE  LET k == m.sock[s]
         IN  /\ Alive(m, s) <=> Place(k) \in Doubly
             /\ Alive(m, s) /\ k.kind = "listen" => Place(k) = Own(k)
             /\ Alive(m, s) /\ k.kind = "socket" /\ k.low # 1 => Place(k) = Own(k)
             /\ Alive(m, s) /\ k.kind = "socket" /\ k.low = 1 <=> Place(k) = Queue
             /\ Place(k) = Closed <=> k.kind \in {"socket", "listen"} /\ k.prev = k.ctx
             /\ Place(k) = Out <=> k.kind \in {"free", "dead"}
             /\ \A c \in Contexts : /\ Place(k) = <<"head", c>> <=>
                                         Alive(m, s) /\ k.kind = "socket" /\ k.low # 1 /\ k.ctx = c
                                    /\ Place(k) = <<"listen", c>> <=> Alive(m, s) /\ k.kind = "listen" /\ k.ctx = c
<1> DEFINE k == m.sock[s]
<1>1. k.kind \in {"free", "socket", "listen", "dead"} /\ k.ctx \in Contexts
  BY SocketType DEF Socket
<1>2. Alive(m, s) <=> k.kind \in {"socket", "listen"} /\ k.prev # k.ctx
  BY DEF Alive, IsClosed
<1> HIDE DEF k
<1>3. CASE k.kind \in {"free", "dead"}
  <2>1. Place(k) = Out
    BY <1>3 DEF Place
  <2> QED BY <1>2, <1>3, <2>1 DEF k, Out, Closed, Doubly, Queue, Listens, Heads
<1>4. CASE k.kind \in {"socket", "listen"} /\ k.prev = k.ctx
  <2>1. Place(k) = Closed
    BY <1>4 DEF Place
  <2> QED BY <1>2, <1>4, <2>1 DEF k, Out, Closed, Doubly, Queue, Listens, Heads
<1>5. CASE k.kind = "listen" /\ k.prev # k.ctx
  <2>1. Place(k) = <<"listen", k.ctx>>
    BY <1>5 DEF Place
  <2> QED BY <1>1, <1>2, <1>5, <2>1 DEF k, Out, Closed, Doubly, Queue, Listens, Heads, Own, ListOf
<1>6. CASE k.kind = "socket" /\ k.prev # k.ctx /\ k.low = 1
  <2>1. Place(k) = Queue
    BY <1>6 DEF Place
  <2> QED BY <1>2, <1>6, <2>1 DEF k, Out, Closed, Doubly, Queue, Listens, Heads
<1>7. CASE k.kind = "socket" /\ k.prev # k.ctx /\ k.low # 1
  <2>1. Place(k) = <<"head", k.ctx>>
    BY <1>7 DEF Place
  <2> QED BY <1>1, <1>2, <1>7, <2>1 DEF k, Out, Closed, Doubly, Queue, Listens, Heads, Own, ListOf
<1> QED BY <1>1, <1>3, <1>4, <1>5, <1>6, <1>7

\* What remains of the record of a socket that is closed.
ClosedAs(j, k) ==
  /\ k.kind = j.kind /\ k.ctx = j.ctx /\ k.prev = k.ctx /\ k.handle = "stopping" /\ k.reads = FALSE
  /\ k.late = (phase = "immediates") /\ k.timeout = None /\ k.long = None

\* A socket that left its list is closed.
LEMMA UnlinkedCloses ==
  ASSUME NEW m \in Memory, NEW m1, NEW b \in Nat, NEW r \in Ranking(b), NEW s \in Sockets,
         Threads(m, Placed(m), r), Alive(m, s), Placed(m)[s] \in Doubly,
         NEW k1 \in Socket, k1.kind = m.sock[s].kind, k1.ctx = m.sock[s].ctx,
         Unlinked(m, m1, Placed(m), s, k1)
  PROVE  /\ \E k : Shifts(m, ToClosed(m1, s), r, s, k) /\ ClosedAs(m.sock[s], k)
         /\ ToClosed(m1, s).iterator = m1.iterator /\ ToClosed(m1, s).budget = m.budget
<1> DEFINE w == [Placed(m) EXCEPT ![s] = Out]
           n == ToClosed(m1, s)
           k == ClosedRecord(k1, m1.closed)
<1>1. Placed(m) \in Placing /\ m1 \in Memory /\ Removed(m, m1, Placed(m), s) /\ m1.sock[s] = k1 /\ m1.budget = m.budget
  BY PlacedType DEF Unlinked
<1>2. w \in Placing /\ Threads(m1, w, r)
  BY <1>1, ThreadsRemoved
<1>3. w[s] = Out
  BY <1>1 DEF Placing
<1> HIDE DEF w
<1>4. Linked(m1, n, Closed, s, k)
  BY <1>1, <1>2, <1>3, ToClosedIs
<1>5. m1.closed \in Pointer
  BY <1>1 DEF Memory
<1>6. ClosedAs(m.sock[s], k) /\ k.kind \in {"socket", "listen"}
  BY <1>5, ClosedRecordType DEF ClosedAs, Alive
<1>7. Place(k) = Closed /\ Closed \in Lists
  BY <1>6, ListsDiffer DEF Place, ClosedAs
<1> HIDE DEF k, n
<1>8. Shifts(m, n, r, s, k)
  BY <1>4, <1>7, ShiftsTo
<1>9. n.iterator = m1.iterator /\ n.budget = m.budget
  BY <1>1, <1>4 DEF Linked
<1> QED BY <1>6, <1>8, <1>9 DEF n

\* us_socket_close and us_listen_socket_close.
LEMMA UnlinkCloses ==
  ASSUME NEW m \in Memory, NEW b \in Nat, NEW r \in Ranking(b), NEW s \in Sockets,
         Threads(m, Placed(m), r), Alive(m, s), Place(m.sock[s]) = Own(m.sock[s]),
         NEW n, n = ToClosed(Unlink(m, s), s)
  PROVE  /\ \E k : Shifts(m, n, r, s, k) /\ ClosedAs(m.sock[s], k)
         /\ CursorMoves(m, n, s) /\ n.budget = m.budget
<1>1. Placed(m) \in Placing /\ Placed(m)[s] = Own(m.sock[s]) /\ m.sock[s] \in Socket
  BY PlacedType
<1>2. Own(m.sock[s]) \in Doubly /\ Own(m.sock[s]) # Queue /\ m.sock[s].ctx \in Contexts
  BY <1>1, OwnType DEF Own, Queue, ListOf
<1> DEFINE m1 == Unlink(m, s)
<1>3. /\ Unlinked(m, m1, Placed(m), s, m.sock[s])
      /\ m1.iterator = [m.iterator EXCEPT ![m.sock[s].ctx] = IF @ = s THEN m.sock[s].next ELSE @]
  BY <1>1, UnlinkIs
<1> DEFINE k1 == m.sock[s]
<1>4. /\ n = ToClosed(m1, s) /\ Unlinked(m, m1, Placed(m), s, k1) /\ Placed(m)[s] \in Doubly
      /\ k1 \in Socket /\ k1.kind = m.sock[s].kind /\ k1.ctx = m.sock[s].ctx
  BY <1>1, <1>2, <1>3 DEF m1
<1> HIDE DEF m1, k1
<1>5. /\ \E k : Shifts(m, n, r, s, k) /\ ClosedAs(m.sock[s], k)
      /\ n.iterator = m1.iterator /\ n.budget = m.budget
  BY <1>4, UnlinkedCloses
<1>6. CursorMoves(m, n, s)
  <2>1. m.iterator \in [Contexts -> Pointer] /\ Place(m.sock[s]) # Queue
    BY <1>2 DEF Memory
  <2> QED BY <1>3, <1>5, <2>1 DEF CursorMoves
<1> QED BY <1>5, <1>6

\* us_socket_close and us_listen_socket_close move the socket, wherever it was, into the
\* list of closed sockets.
LEMMA CloseShifts ==
  ASSUME NEW m \in Memory, NEW b \in Nat, NEW r \in Ranking(b), NEW s \in Sockets,
         Threads(m, Placed(m), r), Alive(m, s),
         NEW n, \/ n = Close(m, s) /\ m.sock[s].kind = "socket"
                \/ n = ListenClose(m, s) /\ m.sock[s].kind = "listen"
  PROVE  /\ \E k : Shifts(m, n, r, s, k) /\ ClosedAs(m.sock[s], k)
         /\ CursorMoves(m, n, s) /\ n.budget = m.budget
<1>1. CASE n = ListenClose(m, s) /\ m.sock[s].kind = "listen"
  <2>1. Place(m.sock[s]) = Own(m.sock[s])
    BY <1>1, PlaceAlive
  <2> QED BY <1>1, <2>1, UnlinkCloses DEF ListenClose
<1>2. CASE n = Close(m, s) /\ m.sock[s].kind = "socket" /\ m.sock[s].low # 1
  <2>1. Place(m.sock[s]) = Own(m.sock[s])
    BY <1>2, PlaceAlive
  <2>2. n = ToClosed(Unlink(m, s), s)
    BY <1>2 DEF Close, Detach
  <2> QED BY <2>1, <2>2, UnlinkCloses
<1>3. CASE n = Close(m, s) /\ m.sock[s].kind = "socket" /\ m.sock[s].low = 1
  <2>1. Place(m.sock[s]) = Queue
    BY <1>3, PlaceAlive
  <2>2. Placed(m) \in Placing /\ Placed(m)[s] = Queue /\ Queue \in Doubly /\ m.sock[s] \in Socket
    BY <2>1, PlacedType DEF Doubly
  <2> DEFINE m1 == UnlinkLow(m, s)
             k1 == Unqueued(m.sock[s])
  <2>3. Unlinked(m, m1, Placed(m), s, k1) /\ m1.iterator = m.iterator
    BY <2>2, UnlinkLowIs
  <2>4. n = ToClosed(m1, s)
    BY <1>3 DEF Close, Detach
  <2>5. k1 \in Socket /\ k1.kind = m.sock[s].kind /\ k1.ctx = m.sock[s].ctx
    BY <2>2, UnqueuedType
  <2> HIDE DEF m1, k1
  <2>6. /\ \E k : Shifts(m, n, r, s, k) /\ ClosedAs(m.sock[s], k)
        /\ n.iterator = m1.iterator /\ n.budget = m.budget
    BY <2>2, <2>3, <2>4, <2>5, UnlinkedCloses
  <2>7. CursorMoves(m, n, s)
    BY <2>1, <2>3, <2>6 DEF CursorMoves
  <2> QED BY <2>6, <2>7
<1> QED BY <1>1, <1>2, <1>3

\* What else changes in a record that goes back to the list of its context.
RequeuedAs(j, k) ==
  /\ k.kind = j.kind /\ k.ctx = j.ctx /\ k.prev = NULL /\ k.low = 2 /\ k.reads = TRUE
  /\ k.shaking = j.shaking /\ k.timeout = j.timeout /\ k.long = j.long /\ k.wait = j.wait
  /\ k.longWait = j.longWait /\ k.missed = j.missed /\ k.late = j.late /\ k.handle = j.handle

Requeued(j, q) == [Front(j, j.ctx, q) EXCEPT !.low = 2, !.reads = TRUE]

\* The record of a socket that left the low-priority queue.
LEMMA RequeuedType ==
  ASSUME NEW j \in Socket, NEW q \in Pointer
  PROVE  Requeued(j, q) \in Socket /\ Requeued(j, q).next = q /\ RequeuedAs(j, Requeued(j, q))
<1> DEFINE k == Front(j, j.ctx, q)
<1>1. j.ctx \in Contexts /\ 2 \in 0 .. 2 /\ TRUE \in BOOLEAN
  BY DEF Socket
<1>2. /\ k \in Socket /\ k.next = q /\ k.prev = NULL /\ k.ctx = j.ctx /\ k.kind = j.kind
      /\ k.shaking = j.shaking /\ k.timeout = j.timeout /\ k.long = j.long
      /\ k.wait = j.wait /\ k.longWait = j.longWait /\ k.missed = j.missed /\ k.late = j.late
      /\ k.handle = j.handle
  BY <1>1, FrontType
<1> HIDE DEF k
<1>3. LET i == [k EXCEPT !.low = 2, !.reads = TRUE]
      IN  /\ i \in Socket /\ i.next = k.next /\ i.prev = k.prev /\ i.ctx = k.ctx /\ i.kind = k.kind
          /\ i.low = 2 /\ i.reads = TRUE
          /\ i.shaking = k.shaking /\ i.timeout = k.timeout /\ i.long = k.long
          /\ i.wait = k.wait /\ i.longWait = k.longWait /\ i.missed = k.missed /\ i.late = k.late
          /\ i.handle = k.handle
  BY <1>1, <1>2 DEF Socket
<1> DEFINE i == [k EXCEPT !.low = 2, !.reads = TRUE]
<1>4. Requeued(j, q) = i
  BY DEF Requeued, k
<1> HIDE DEF i
<1> QED BY <1>2, <1>3, <1>4 DEF RequeuedAs, i

\* Only the record of s is changed, and not its pointers.
LEMMA LinkedAlso ==
  ASSUME NEW m \in Memory, NEW n0, NEW v \in Lists, NEW s \in Sockets, NEW k0, Linked(m, n0, v, s, k0),
         NEW k \in Socket, k.next = k0.next, k.prev = k0.prev, NEW n, n = [n0 EXCEPT !.sock[s] = k]
  PROVE  Linked(m, n, v, s, k)
<1>1. n0 \in Memory /\ n0.sock \in [Sockets -> Socket]
  BY DEF Linked, Memory
<1>2. SockSet(n0, n, s, k)
  BY <1>1, SetSockIs
<1>3. n.sock[s] = k /\ \A t \in Sockets \ {s} : n.sock[t] = n0.sock[t]
  BY <1>1, <1>2 DEF SockSet
<1>4. n \in Memory /\ n.iterator = n0.iterator /\ n.tick = n0.tick /\ n.budget = n0.budget
  BY <1>2 DEF SockSet, RestKept
<1>5. \A u \in Lists : First(n, u) = First(n0, u)
  BY <1>2 DEF SockSet, RestKept, First
<1>6. Pushed(m, n, v, s)
  BY <1>3, <1>5 DEF Linked, Pushed
<1>7. OthersAlike(m, n, s)
  BY <1>3 DEF Linked, OthersAlike
<1> QED BY <1>3, <1>4, <1>6, <1>7 DEF Linked

\* us_internal_handle_low_priority_sockets moves the first of the queue into its context.
LEMMA RequeueShifts ==
  ASSUME NEW m \in Memory, NEW b \in Nat, NEW r \in Ranking(b), Threads(m, Placed(m), r),
         m.low # NULL, m.budget > 0,
         NEW s, s = m.low, NEW n, n = Requeue(m)
  PROVE  /\ s \in Sockets /\ Place(m.sock[s]) = Queue
         /\ \E k : Shifts(m, n, r, s, k) /\ RequeuedAs(m.sock[s], k)
         /\ n.iterator = m.iterator /\ n.budget = m.budget - 1
<1>1. Placed(m) \in Placing /\ Queue \in Lists /\ Queue \in Doubly /\ First(m, Queue) = m.low
  BY PlacedType DEF Lists, Doubly, First, Queue, Closed
<1>2. s \in Sockets /\ Placed(m)[s] = Queue /\ m.sock[s].prev = NULL
  BY <1>1 DEF Threads
<1>3. Place(m.sock[s]) = Queue /\ m.sock[s] \in Socket
  BY <1>2, PlacedType
<1> DEFINE j == m.sock[s]
           nx == m.sock[s].next
           m0 == [m EXCEPT !.low = nx, !.budget = @ - 1]
           m1 == SetPrev(m0, nx, NULL)
           n0 == Link(m1, j.ctx, s)
           w == [Placed(m) EXCEPT ![s] = Out]
<1>4. nx \in Pointer /\ nx # s /\ NULL \in Pointer /\ j.ctx \in Contexts
  <2>1. nx \in (Sockets \cup {NULL}) \ {s}
    BY <1>1, <1>2, Neighbours
  <2> QED BY <1>3, <2>1 DEF Pointer, Socket
<1>5. /\ m0 \in Memory /\ m0.sock = m.sock /\ m0.iterator = m.iterator /\ m0.tick = m.tick /\ m0.budget = m.budget - 1
      /\ m0.head = m.head /\ m0.listen = m.listen /\ m0.closed = m.closed /\ m0.low = nx
  <2>1. m.budget - 1 \in 0 .. Budget
    <3>1. m.budget \in 0 .. Budget /\ Budget \in Nat
      BY SocketLoopAssumption DEF Memory
    <3> QED BY <3>1
  <2> QED BY <1>4, <2>1 DEF Memory
<1>6. \A u \in Lists : First(m0, u) = IF u = Queue THEN nx ELSE First(m, u)
  BY <1>5 DEF First, Queue, Closed
<1>7. n = [n0 EXCEPT !.sock[s].low = 2, !.sock[s].reads = TRUE]
  BY DEF Requeue
<1> HIDE DEF m0, nx
<1>8. PrevSet(m0, m1, nx, NULL)
  BY <1>4, <1>5, SetPrevIs
<1> HIDE DEF m1
<1>9. /\ m1 \in Memory /\ m1.iterator = m.iterator /\ m1.tick = m.tick /\ m1.budget = m.budget - 1
      /\ \A u \in Lists : First(m1, u) = IF u = Queue THEN nx ELSE First(m, u)
      /\ \A t \in Sockets : m1.sock[t] = IF t = nx THEN [m.sock[t] EXCEPT !.prev = NULL] ELSE m.sock[t]
  <2>1. \A u \in Lists : First(m1, u) = First(m0, u)
    BY <1>8 DEF PrevSet, RestKept, First
  <2> QED BY <1>5, <1>6, <1>8, <2>1 DEF PrevSet, RestKept
<1>10. m1.sock[s] = j
  BY <1>2, <1>4, <1>9
<1>11. ASSUME NEW t \in Sockets \ {s}
       PROVE  /\ m1.sock[t].next = IF t = m.sock[s].prev THEN m.sock[s].next ELSE m.sock[t].next
              /\ m1.sock[t].prev = IF t = m.sock[s].next THEN m.sock[s].prev ELSE m.sock[t].prev
              /\ Alike(m.sock[t], m1.sock[t])
  <2> DEFINE i == m.sock[t]
  <2>1. t # NULL /\ i \in Socket
    BY Constants, SocketType
  <2>2. CASE t = nx
    <3>1. i.prev = s /\ s \in Pointer
      BY <1>1, <1>2, <2>1, <2>2 DEF Threads, nx, Pointer
    <3>2. m1.sock[t] = [i EXCEPT !.prev = NULL]
      BY <1>9, <2>2
    <3> HIDE DEF i
    <3>3. [i EXCEPT !.prev = NULL].next = i.next /\ [i EXCEPT !.prev = NULL].prev = NULL /\ Alike(i, [i EXCEPT !.prev = NULL])
      BY <1>4, <2>1, <3>1, AlikePrev
    <3> QED BY <1>2, <2>1, <2>2, <3>2, <3>3 DEF i, nx
  <2>3. CASE t # nx
    <3>1. m1.sock[t] = m.sock[t]
      BY <1>9, <2>3
    <3> QED BY <1>2, <2>1, <2>3, <3>1, AlikeSelf DEF nx
  <2> QED BY <2>2, <2>3
<1>12. OthersAlike(m, m1, s) /\ Removed(m, m1, Placed(m), s)
  BY <1>2, <1>9, <1>11 DEF OthersAlike, Removed, nx
<1>13. w \in Placing /\ Threads(m1, w, r)
  BY <1>1, <1>2, <1>12, ThreadsRemoved
<1>14. w[s] = Out /\ w = [Placed(m) EXCEPT ![s] = Out]
  BY <1>1, <1>2 DEF Placing
<1> DEFINE v == <<"head", j.ctx>>
           k0 == Front(j, j.ctx, First(m1, v))
           k == Requeued(j, First(m1, v))
<1>15. v \in Lists /\ j.kind = "socket" /\ v = <<ListOf(m1.sock[s]), j.ctx>>
  <2>1. j.kind = "socket"
    BY <1>2, <1>3, PlaceAlive
  <2> QED BY <1>4, <1>10, <2>1 DEF Lists, Doubly, Heads, ListOf
<1> HIDE DEF w
<1>16. Linked(m1, n0, v, s, k0)
  <2> DEFINE c == j.ctx
  <2>1. c \in Contexts /\ k0 = Front(m1.sock[s], c, First(m1, v))
        /\ v = <<ListOf(m1.sock[s]), c>>
    BY <1>4, <1>10, <1>15
  <2> HIDE DEF v, k0, n0, c
  <2>2. Linked(m1, Link(m1, c, s), v, s, k0)
    BY <1>2, <1>9, <1>13, <1>14, <2>1, LinkIs
  <2> QED BY <2>2 DEF n0, c
<1>17. First(m1, v) \in Pointer
  BY <1>9, <1>15, FirstType
<1>18. k \in Socket /\ RequeuedAs(j, k) /\ k.next = k0.next /\ k.prev = k0.prev
  <2>1. /\ k \in Socket /\ k.next = First(m1, v) /\ RequeuedAs(j, k)
        /\ k0.next = First(m1, v) /\ k0.prev = NULL
    <3> DEFINE q == First(m1, v)
    <3>1. j \in Socket /\ q \in Pointer /\ j.ctx \in Contexts
      BY <1>3, <1>4, <1>17
    <3> HIDE DEF j, q, v
    <3>2. Requeued(j, q) \in Socket /\ Requeued(j, q).next = q /\ RequeuedAs(j, Requeued(j, q))
      BY <3>1, RequeuedType
    <3>3. Front(j, j.ctx, q).next = q /\ Front(j, j.ctx, q).prev = NULL
      BY <3>1, FrontType
    <3> QED BY <3>2, <3>3 DEF q
  <2> QED BY <2>1 DEF RequeuedAs
<1>19. n = [n0 EXCEPT !.sock[s] = k]
  <2>1. n0.sock[s] = k0 /\ n0 \in Memory
    BY <1>16 DEF Linked
  <2>2. k = [k0 EXCEPT !.low = 2, !.reads = TRUE]
    BY DEF Requeued
  <2> HIDE DEF n0, k, k0
  <2>3. [n0 EXCEPT !.sock[s].low = 2, !.sock[s].reads = TRUE] = [n0 EXCEPT !.sock[s] = [n0.sock[s] EXCEPT !.low = 2, !.reads = TRUE]]
    BY <1>2, <2>1 DEF Memory
  <2> QED BY <1>7, <2>1, <2>2, <2>3
<1> HIDE DEF k, k0, v, n0
<1>20. Linked(m1, n, v, s, k)
  BY <1>2, <1>9, <1>15, <1>16, <1>18, <1>19, LinkedAlso
<1>21. Place(k) = v
  <2>1. j.ctx # NULL
    BY <1>4, Constants
  <2> QED BY <1>15, <1>18, <2>1 DEF Place, RequeuedAs, v
<1>22. Shifts(m, n, r, s, k)
  BY <1>2, <1>9, <1>12, <1>13, <1>14, <1>15, <1>20, <1>21, ShiftsIn
<1>23. n.iterator = m.iterator /\ n.budget = m.budget - 1
  BY <1>9, <1>20 DEF Linked
<1> QED BY <1>2, <1>3, <1>18, <1>22, <1>23

-----------------------------------------------------------------------------
(* The walk of the sweep while lists change.                               *)

\* The short timeout of s, if it is set and was not missed, is to come.
ShortSettled(m, s) ==
  LET k == m.sock[s]
  IN  k.timeout # None /\ "short" \notin k.missed =>
        k.timeout = (m.tick[k.ctx] + k.wait) % Modulus /\ k.wait > 0

\* The long one.
LongSettled(m, s) ==
  LET k == m.sock[s]
  IN  k.long # None /\ "long" \notin k.missed =>
        k.long = ((m.tick[k.ctx] + k.longWait) \div LongRatio) % Modulus /\ k.longWait > 0

Settled(m, s) == m.sock[s].kind = "socket" /\ Alive(m, s) => ShortSettled(m, s) /\ LongSettled(m, s)

\* From m to n the sockets S change their lists; a cursor that is at one of them
\* moves on.
CursorLeaves(m, n, S) ==
  \A c \in Contexts :
    \/ n.iterator[c] = m.iterator[c] /\ m.iterator[c] \notin S
    \/ m.iterator[c] \in S /\ n.iterator[c] = m.sock[m.iterator[c]].next /\ n.iterator[c] \notin S

\* The walk of the sweep survives an operation that moves sockets which have no timeout
\* to come, if the cursor moved on from them.
LEMMA WalkShifts ==
  ASSUME NEW m \in Memory, NEW n \in Memory, NEW ph, NEW a, NEW S \in SUBSET Sockets,
         NEW b \in Nat, NEW r \in Ranking(b), NEW b1 \in Nat, NEW z \in Ranking(b1),
         Threads(m, Placed(m), r), Walk(m, ph, a, r), Threads(n, Placed(n), z), Swept(ph, a),
         \A t \in Sockets \ S : z[t] = r[t] /\ Alike(m.sock[t], n.sock[t]),
         n.tick = m.tick, CursorLeaves(m, n, S),
         \A t \in S : Settled(n, t),
         ph \in Handlers /\ a.sock \in S => n.sock[a.sock].kind = "dead" \/ Place(n.sock[a.sock]) = Closed
  PROVE  Walk(n, ph, a, z)
<1>0. /\ NULL \notin Sockets
      /\ \A t \in Sockets : m.sock[t] \in Socket /\ n.sock[t] \in Socket /\ r[t] \in Nat /\ z[t] \in Nat
      /\ Placed(m) \in Placing /\ \A t \in Sockets : Placed(m)[t] = Place(m.sock[t])
  BY Constants, SocketType, PlacedType DEF Ranking
<1>1. \A t \in Sockets \ S : Place(n.sock[t]) = Place(m.sock[t])
  BY <1>0, AlikePlace
<1>2. \A c \in Contexts : m.iterator[c] # NULL =>
        /\ ph \in Handlers /\ a.ctx = c
        /\ m.iterator[c] \in Sockets /\ Place(m.sock[m.iterator[c]]) = <<"head", c>>
  BY DEF Walk, CursorIn
<1>3. \A c \in Contexts : <<"head", c>> \in Lists /\ <<"head", c>> \in Doubly
  BY DEF Lists, Doubly, Heads
  \* Where the cursor goes from a socket that leaves.
<1>4. ASSUME NEW c \in Contexts, m.iterator[c] \in S, n.iterator[c] = m.sock[m.iterator[c]].next
      PROVE  /\ m.iterator[c] # NULL /\ m.iterator[c] \in Sockets
             /\ n.iterator[c] # NULL => n.iterator[c] \in Sockets /\ Place(m.sock[n.iterator[c]]) = <<"head", c>>
             /\ \A t \in Sockets : Place(m.sock[t]) = <<"head", c>> /\ r[t] <= r[m.iterator[c]] /\ t # m.iterator[c] =>
                  n.iterator[c] # NULL /\ r[t] <= r[n.iterator[c]]
  <2> DEFINE x == m.iterator[c]
  <2>1. x # NULL /\ x \in Sockets /\ Place(m.sock[x]) = <<"head", c>> /\ Placed(m)[x] = <<"head", c>>
    BY <1>0, <1>2, <1>4
  <2>2. m.sock[x].next # NULL => m.sock[x].next \in Sockets /\ Place(m.sock[m.sock[x].next]) = <<"head", c>>
    BY <1>0, <1>3, <2>1 DEF Threads
  <2>3. ASSUME NEW t \in Sockets, Place(m.sock[t]) = <<"head", c>>, r[t] <= r[x], t # x
        PROVE  m.sock[x].next # NULL /\ r[t] <= r[m.sock[x].next]
    <3>1. Placed(m)[t] = <<"head", c>>
      BY <1>0, <2>3
    <3>2. r[t] # r[x]
      BY <1>3, <2>1, <2>3, <3>1 DEF Threads
    <3>3. r[t] < r[x]
      BY <1>0, <2>1, <2>3, <3>2
    <3> QED BY <1>3, <2>1, <3>1, <3>3 DEF Threads
  <2> QED BY <1>4, <2>1, <2>2, <2>3
<1>5. ASSUME NEW c \in Contexts, n.iterator[c] # NULL
      PROVE  /\ ph \in Handlers /\ a.ctx = c
             /\ n.iterator[c] \in Sockets /\ n.iterator[c] \notin S /\ Place(m.sock[n.iterator[c]]) = <<"head", c>>
             /\ Place(n.sock[n.iterator[c]]) = <<"head", c>>
  <2>1. CASE n.iterator[c] = m.iterator[c] /\ m.iterator[c] \notin S
    BY <1>1, <1>2, <1>5, <2>1
  <2>2. CASE m.iterator[c] \in S /\ n.iterator[c] = m.sock[m.iterator[c]].next /\ n.iterator[c] \notin S
    BY <1>1, <1>2, <1>4, <1>5, <2>2
  <2> QED BY <2>1, <2>2 DEF CursorLeaves
<1>6. ASSUME ph \in Handlers
      PROVE  n.iterator[a.ctx] = a.sock \/ n.sock[a.sock].kind = "dead" \/ Place(n.sock[a.sock]) = Closed
  <2>1. a.ctx \in Contexts /\ a.sock \in Sockets
    BY <1>6 DEF Swept
  <2>2. CASE a.sock \in S
    BY <1>6, <2>2
  <2>3. CASE a.sock \notin S
    <3>1. n.sock[a.sock].kind = m.sock[a.sock].kind /\ Place(n.sock[a.sock]) = Place(m.sock[a.sock])
      BY <1>1, <2>1, <2>3 DEF Alike
    <3>2. m.iterator[a.ctx] = a.sock => n.iterator[a.ctx] = a.sock
      BY <2>1, <2>3 DEF CursorLeaves
    <3> QED BY <1>6, <3>1, <3>2 DEF Walk, CursorIn
  <2> QED BY <2>2, <2>3
<1>7. ASSUME NEW t \in Sockets \ S, Ahead(m, ph, a, r, t)
      PROVE  /\ ~(t = m.iterator[a.ctx] /\ m.iterator[a.ctx] \in S)
             /\ Ahead(n, ph, a, z, t)
             /\ (t = n.iterator[a.ctx] /\ t # m.iterator[a.ctx]) => t # a.sock
  <2>0. /\ a.ctx \in Contexts /\ a.sock \in Sockets /\ ph \in Handlers /\ Place(n.sock[t]) = <<"head", a.ctx>>
        /\ Place(m.sock[t]) = <<"head", a.ctx>> /\ z[t] = r[t]
        /\ m.iterator[a.ctx] # NULL /\ r[t] <= r[m.iterator[a.ctx]]
    BY <1>1, <1>7 DEF Ahead, Swept
  <2>1. CASE n.iterator[a.ctx] = m.iterator[a.ctx] /\ m.iterator[a.ctx] \notin S
    <3>1. z[n.iterator[a.ctx]] = r[m.iterator[a.ctx]]
      BY <1>2, <2>0, <2>1
    <3> QED BY <2>0, <2>1, <3>1 DEF Ahead
  <2>2. CASE m.iterator[a.ctx] \in S /\ n.iterator[a.ctx] = m.sock[m.iterator[a.ctx]].next /\ n.iterator[a.ctx] \notin S
    <3>1. t # m.iterator[a.ctx]
      BY <2>2
    <3>2. n.iterator[a.ctx] # NULL /\ r[t] <= r[n.iterator[a.ctx]]
      BY <1>4, <2>0, <2>2, <3>1
    <3>3. n.iterator[a.ctx] \in Sockets \ S
      BY <1>5, <2>0, <3>2
    <3>4. z[n.iterator[a.ctx]] = r[n.iterator[a.ctx]]
      BY <3>3
    <3>5. t = a.sock => FALSE
      <4> SUFFICES ASSUME t = a.sock PROVE FALSE
        OBVIOUS
      <4>1. m.iterator[a.ctx] # a.sock
        BY <3>1
      <4>2. m.sock[t].kind = "dead" \/ Place(m.sock[t]) = Closed
        BY <2>0, <4>1 DEF Walk, CursorIn
      <4>3. Place(m.sock[t]) # Closed /\ Place(m.sock[t]) # Out
        BY <2>0 DEF Closed, Out
      <4> QED BY <4>2, <4>3, PlaceAlive
    <3> QED BY <2>0, <3>1, <3>2, <3>4, <3>5 DEF Ahead
  <2> QED BY <2>0, <2>1, <2>2 DEF CursorLeaves
<1>8. ASSUME NEW t \in Sockets PROVE Coming(n, ph, a, z, t)
  <2>1. CASE t \in S
    BY <2>1 DEF Settled, ShortSettled, LongSettled, Coming, ShortComing, LongComing
  <2>2. CASE t \notin S
    <3>1. Coming(m, ph, a, r, t) /\ Alike(m.sock[t], n.sock[t]) /\ (Alive(n, t) <=> Alive(m, t))
      <4>1. Place(n.sock[t]) = Place(m.sock[t])
        BY <1>1, <2>2
      <4> QED BY <2>2, <4>1, PlaceAlive DEF Walk
    <3> DEFINE j == m.sock[t]
               k == n.sock[t]
               A == Ahead(m, ph, a, r, t)
               B == Ahead(n, ph, a, z, t)
    <3>2. /\ k.kind = j.kind /\ k.ctx = j.ctx /\ k.timeout = j.timeout /\ k.long = j.long /\ k.wait = j.wait
          /\ k.longWait = j.longWait /\ k.missed = j.missed
      BY <3>1 DEF Alike
    <3>3. A => B /\ (t = n.iterator[a.ctx] => t = m.iterator[a.ctx] \/ t # a.sock)
      BY <1>7, <2>2
    <3> HIDE DEF A, B, j, k
    <3>4. (j.kind = "socket" /\ Alive(m, t)) /\ j.timeout # None /\ "short" \notin j.missed =>
            /\ j.timeout = (m.tick[j.ctx] + j.wait) % Modulus
            /\ j.wait > 0 \/ (A /\ (t = m.iterator[a.ctx] => t # a.sock))
      BY <3>1 DEF Coming, ShortComing, A, j
    <3>5. (j.kind = "socket" /\ Alive(m, t)) /\ j.long # None /\ "long" \notin j.missed =>
            /\ j.long = ((m.tick[j.ctx] + j.longWait) \div LongRatio) % Modulus
            /\ j.longWait > 0 \/ (A /\ (t = m.iterator[a.ctx] => t # a.sock \/ ph = "short"))
      BY <3>1 DEF Coming, LongComing, A, j
    <3>6. k.kind = "socket" /\ Alive(n, t) /\ k.timeout # None /\ "short" \notin k.missed =>
            /\ k.timeout = (n.tick[k.ctx] + k.wait) % Modulus
            /\ k.wait > 0 \/ (B /\ (t = n.iterator[a.ctx] => t # a.sock))
      BY <3>1, <3>2, <3>3, <3>4
    <3>7. k.kind = "socket" /\ Alive(n, t) /\ k.long # None /\ "long" \notin k.missed =>
            /\ k.long = ((n.tick[k.ctx] + k.longWait) \div LongRatio) % Modulus
            /\ k.longWait > 0 \/ (B /\ (t = n.iterator[a.ctx] => t # a.sock \/ ph = "short"))
      BY <3>1, <3>2, <3>3, <3>5
    <3> QED BY <3>6, <3>7 DEF Coming, ShortComing, LongComing, B, k
  <2> QED BY <2>1, <2>2
<1> QED BY <1>5, <1>6, <1>8 DEF Walk, CursorIn

-----------------------------------------------------------------------------
(* The counters of the timeouts.                                           *)

\* Division with remainder.
LEMMA Division ==
  ASSUME NEW a \in Int, NEW b \in Nat \ {0}
  PROVE  a % b \in 0 .. b - 1 /\ a \div b \in Int /\ a = b * (a \div b) + (a % b)
OBVIOUS

\* Multiplication is monotonic.
LEMMA TimesGrows ==
  ASSUME NEW a \in Nat, NEW b \in Nat, NEW c \in Nat, a <= b
  PROVE  a * c <= b * c
<1>1. (b - a) * c >= 0
  <2> DEFINE d == b - a
  <2>1. d \in Nat
    OBVIOUS
  <2> HIDE DEF d
  <2>2. d * c >= 0
    BY <2>1
  <2> QED BY <2>2 DEF d
<1> QED BY <1>1

\* Quotient and remainder are unique.
LEMMA Divided ==
  ASSUME NEW a \in Int, NEW b \in Nat \ {0}, NEW q \in Int, NEW x \in 0 .. b - 1, a = b * q + x
  PROVE  a % b = x /\ a \div b = q
OBVIOUS

\* q times b more than a.
More(a, b, q) == a + b * q

\* Multiples of the divisor are dropped.
LEMMA MultipleDropped ==
  ASSUME NEW a \in Int, NEW b \in Nat \ {0}, NEW q \in Int
  PROVE  More(a, b, q) % b = a % b /\ More(a, b, q) \div b = (a \div b) + q
<1> DEFINE x == a % b
           y == a \div b
           z == y + q
           c == More(a, b, q)
<1>1. x \in 0 .. b - 1 /\ y \in Int /\ a = b * y + x
  BY Division
<1> HIDE DEF x, y
<1>2. z \in Int /\ c \in Int
  BY <1>1 DEF More
<1>3. c = b * z + x
  BY <1>1 DEF More
<1> HIDE DEF z, c
<1>4. c % b = x /\ c \div b = z
  BY <1>1, <1>2, <1>3, Divided
<1> QED BY <1>4 DEF x, y, z, c

\* The sum of two numbers, by name.
Plus(a, n) == a + n

\* A summand may be reduced first.
LEMMA ModularSum ==
  ASSUME NEW a \in Int, NEW b \in Nat \ {0}, NEW n \in Int
  PROVE  Plus(a % b, n) % b = Plus(a, n) % b
<1> DEFINE x == a % b
           y == a \div b
           d == x + n
<1>1. x \in 0 .. b - 1 /\ y \in Int /\ a = b * y + x
  BY Division
<1> HIDE DEF x, y
<1>2. Plus(a, n) = More(d, b, y) /\ d \in Int /\ Plus(x, n) = d
  BY <1>1 DEF Plus, More
<1> HIDE DEF d
<1>3. More(d, b, y) % b = d % b
  BY <1>1, <1>2, MultipleDropped
<1> QED BY <1>2, <1>3 DEF x

\* What is less than a divisor apart and equal modulo it is equal.
LEMMA ModularApart ==
  ASSUME NEW a \in Int, NEW b \in Nat \ {0}, NEW n \in 0 .. b - 1, (a + n) % b = a % b
  PROVE  n = 0
<1> DEFINE x == a % b
           y == a \div b
<1>1. x \in 0 .. b - 1 /\ y \in Int /\ a = b * y + x
  BY Division
<1> HIDE DEF x, y
<1>2. CASE x + n < b
  <2>1. x + n \in 0 .. b - 1 /\ a + n = b * y + (x + n) /\ a + n \in Int
    BY <1>1, <1>2
  <2> DEFINE e == x + n
             f == a + n
  <2>2. f % b = e
    <3>1. e \in 0 .. b - 1 /\ f = b * y + e /\ f \in Int
      BY <2>1
    <3> HIDE DEF e, f
    <3> QED BY <1>1, <3>1, Divided
  <2> QED BY <1>1, <2>2 DEF x
<1>3. CASE x + n >= b
  <2> DEFINE e == x + n - b
             f == a + n
             z == y + 1
  <2>1. e \in 0 .. b - 1 /\ f = b * z + e /\ f \in Int /\ z \in Int
    BY <1>1, <1>3
  <2>2. f % b = e
    <3> HIDE DEF e, f, z
    <3> QED BY <2>1, Divided
  <2> QED BY <1>1, <2>2 DEF x
<1> QED BY <1>1, <1>2, <1>3

\* What is less than a turn of the long counter apart and equal by it is in the same long tick.
LEMMA LongApart ==
  ASSUME NEW o \in Int, NEW M \in Nat \ {0}, NEW L \in Nat \ {0}, NEW e \in Nat, e <= (M - 1) * L,
         ((o + e) \div L) % M = (o \div L) % M
  PROVE  e < L
<1> DEFINE f == o + e
           y == o \div L
           x == o % L
           d == f \div L
           z == f % L
           q == d - y
<1>1. /\ x \in 0 .. L - 1 /\ y \in Int /\ o = L * y + x
      /\ z \in 0 .. L - 1 /\ d \in Int /\ f = L * d + z /\ f \in Int
  <2>1. f \in Int
    OBVIOUS
  <2> HIDE DEF f
  <2> QED BY <2>1, Division
<1>2. f = o + e /\ d % M = y % M /\ q \in Int /\ d = y + q
  BY <1>1
<1> HIDE DEF f, y, x, d, z, q
<1>3. e = L * q + z - x
  <2>1. L * d = L * y + L * q
    BY <1>1, <1>2
  <2>2. L * y \in Int /\ L * q \in Int
    BY <1>1, <1>2
  <2> QED BY <1>1, <1>2, <2>1, <2>2
<1>4. q >= 0
  <2> SUFFICES ASSUME q <= -1 PROVE FALSE
    BY <1>2
  <2> DEFINE g == -1 - q
  <2>1. g \in Nat /\ q = -1 - g
    BY <1>2
  <2> HIDE DEF g
  <2>2. L * q = -L - L * g /\ L * g >= 0
    BY <2>1
  <2>3. L * q \in Int /\ L * q <= -L
    BY <1>2, <2>1, <2>2
  <2> QED BY <1>1, <1>3, <2>3
<1>5. q <= M - 1
  <2> SUFFICES ASSUME q >= M PROVE FALSE
    BY <1>2
  <2> DEFINE g == q - M
             h == M - 1
  <2>1. g \in Nat /\ q = h + 1 + g /\ h \in Nat
    BY <1>2
  <2>2. e <= h * L
    OBVIOUS
  <2> HIDE DEF g, h
  <2>3. L * q = h * L + L + L * g /\ L * g >= 0 /\ h * L \in Int
    BY <2>1
  <2>4. L * q \in Int /\ L * q >= h * L + L
    BY <1>2, <2>1, <2>3
  <2> QED BY <1>1, <1>3, <2>2, <2>3, <2>4
<1>6. q = 0
  <2>1. q \in 0 .. M - 1
    BY <1>2, <1>4, <1>5
  <2>2. (y + q) % M = y % M
    BY <1>2
  <2> QED BY <1>1, <2>1, <2>2, ModularApart
<1> QED BY <1>1, <1>3, <1>6

\* The next tick, and a wait that is one tick less.
LEMMA TickAligned ==
  ASSUME NEW M \in Nat \ {0}, NEW L \in Nat \ {0}, NEW t \in 0 .. M * L - 1, NEW w \in Nat \ {0},
         NEW u, u = (t + 1) % (M * L)
  PROVE  /\ u \in 0 .. M * L - 1
         /\ (u + (w - 1)) % M = (t + w) % M
         /\ ((u + (w - 1)) \div L) % M = ((t + w) \div L) % M
<1> DEFINE B == M * L
<1>0. B \in Nat \ {0} /\ B = M * L /\ B = L * M /\ t \in 0 .. B - 1 /\ u = (t + 1) % B /\ L \in Int /\ M \in Int
  OBVIOUS
<1> HIDE DEF B
<1>1. CASE t + 1 < B
  <2>1. t + 1 \in 0 .. B - 1 /\ t + 1 = B * 0 + (t + 1)
    BY <1>0, <1>1
  <2>2. u = t + 1
    <3> DEFINE f == t + 1
    <3>1. f \in Int /\ f \in 0 .. B - 1 /\ f = B * 0 + f /\ u = f % B
      BY <1>0, <2>1
    <3> HIDE DEF f
    <3>2. u = f
      BY <1>0, <3>1, Divided
    <3> QED BY <3>2 DEF f
  <2>3. u + (w - 1) = t + w
    BY <2>2
  <2> QED BY <1>0, <2>1, <2>2, <2>3
<1>2. CASE t + 1 = B
  <2>1. u = 0
    <3>1. B = B * 1 + 0 /\ u = B % B /\ 0 \in 0 .. B - 1 /\ B \in Int
      BY <1>0, <1>2
    <3> QED BY <1>0, <3>1, Divided
  <2> DEFINE e == w - 1
             f == t + w
             d == e \div L
  <2>2. u + (w - 1) = e /\ e \in Int /\ f = More(e, M, L) /\ f = More(e, L, M)
    BY <1>0, <1>2, <2>1 DEF More
  <2> HIDE DEF e, f
  <2>3. More(e, M, L) % M = e % M /\ More(e, L, M) \div L = (e \div L) + M
    BY <1>0, <2>2, MultipleDropped
  <2>4. d \in Int
    BY <2>2, Division
  <2> HIDE DEF d
  <2>5. More(d, M, 1) % M = d % M /\ More(d, M, 1) = d + M
    <3>1. 1 \in Int
      OBVIOUS
    <3>2. More(d, M, 1) % M = d % M
      BY <1>0, <2>4, <3>1, MultipleDropped
    <3>3. More(d, M, 1) = d + M
      BY <1>0, <2>4 DEF More
    <3> QED BY <3>2, <3>3
  <2>6. f % M = e % M /\ f \div L = d + M /\ e \div L = d
    BY <2>2, <2>3 DEF d
  <2>7. u \in 0 .. M * L - 1
    BY <1>0, <2>1
  <2> QED BY <2>2, <2>5, <2>6, <2>7 DEF f
<1> QED BY <1>0, <1>1, <1>2

\* The same for short timeouts, in one operator.
TickAligns(M, L, o, e, u) == (u + (e - 1)) % M = (o + e) % M

\* A tick in the middle of a long tick keeps countdowns in step with the counters.
LEMMA ShortTickAligned ==
  ASSUME NEW M \in Nat \ {0}, NEW L \in Nat \ {0}, NEW o \in 0 .. M * L - 1, NEW e \in Nat \ {0},
         NEW u, u = (o + 1) % (M * L)
  PROVE  TickAligns(M, L, o, e, u)
<1>1. /\ (u + (e - 1)) % M = (o + e) % M
      /\ ((u + (e - 1)) \div L) % M = ((o + e) \div L) % M
  BY TickAligned
<1> QED BY <1>1 DEF TickAligns

\* A long timeout that is set is aligned with the counter.
LEMMA LongAligned ==
  ASSUME NEW M \in Nat \ {0}, NEW L \in Nat \ {0}, NEW t \in Int, NEW n \in Nat
  PROVE  (((t \div L) % M) + n) % M = ((t + n * L) \div L) % M
<1> DEFINE d == t \div L
           f == t + n * L
<1>1. d \in Int /\ n \in Int
  BY Division
<1>2. f = More(t, L, n)
  BY DEF More
<1> HIDE DEF f
<1>3. f \div L = d + n
  BY <1>1, <1>2, MultipleDropped
<1> HIDE DEF d
<1>4. Plus(d % M, n) % M = Plus(d, n) % M
  BY <1>1, ModularSum
<1>5. ((d % M) + n) % M = (d + n) % M
  BY <1>4 DEF Plus
<1> QED BY <1>3, <1>5 DEF d, f

-----------------------------------------------------------------------------
(* Steps that move sockets, and the walk.                                  *)

\* Between the phases in which no handler of the sweep runs nothing changes.
LEMMA WalkIdle ==
  ASSUME NEW m, NEW ph, NEW a, NEW r, NEW ph1, NEW a1, Walk(m, ph, a, r), ph \notin Handlers, ph1 \notin Handlers
  PROVE  Walk(m, ph1, a1, r) /\ \A c \in Contexts : m.iterator[c] = NULL
<1>1. \A c \in Contexts : m.iterator[c] = NULL
  BY DEF Walk, CursorIn
<1>2. CursorIn(m, ph1, a1)
  BY <1>1 DEF CursorIn
<1>3. \A s \in Sockets : Coming(m, ph, a, r, s) => Coming(m, ph1, a1, r, s)
  BY DEF Coming, ShortComing, LongComing, Ahead
<1> QED BY <1>1, <1>2, <1>3 DEF Walk

\* One socket shifts.
LEMMA ShiftWalks ==
  ASSUME NEW m \in Memory, NEW n, NEW ph, NEW a, NEW b \in Nat, NEW r \in Ranking(b), NEW s \in Sockets, NEW k,
         Threads(m, Placed(m), r), Walk(m, ph, a, r), Swept(ph, a), Shifts(m, n, r, s, k),
         CursorLeaves(m, n, {s}), Settled(n, s),
         ph \in Handlers /\ a.sock = s => Place(k) = Closed
  PROVE  n \in Memory /\ Walked(n, ph, a)
<1> DEFINE S == {s}
<1>1. n \in Memory /\ OthersAlike(m, n, s) /\ n.sock[s] = k /\ n.tick = m.tick /\ Keeps(n, r, s)
  BY DEF Shifts
<1>2. PICK b1 \in Nat : KeptBut(n, Placed(n), b1, r, s)
  BY <1>1 DEF Keeps
<1>3. PICK z \in Ranking(b1) : Threads(n, Placed(n), z) /\ \A t \in Sockets \ {s} : z[t] = r[t]
  BY <1>2 DEF KeptBut
<1>4. /\ S \in SUBSET Sockets /\ \A t \in Sockets \ S : z[t] = r[t] /\ Alike(m.sock[t], n.sock[t])
      /\ CursorLeaves(m, n, S) /\ \A t \in S : Settled(n, t)
      /\ ph \in Handlers /\ a.sock \in S => n.sock[a.sock].kind = "dead" \/ Place(n.sock[a.sock]) = Closed
  BY <1>1, <1>3 DEF OthersAlike
<1> HIDE DEF S
<1>5. Walk(n, ph, a, z)
  BY <1>1, <1>3, <1>4, WalkShifts
<1> QED BY <1>1, <1>3, <1>5 DEF Walked

\* The cursor at a socket that leaves its list.
LEMMA CursorMovesOn ==
  ASSUME NEW m \in Memory, NEW n, NEW ph, NEW a, NEW b \in Nat, NEW r \in Ranking(b), NEW s \in Sockets,
         Threads(m, Placed(m), r), CursorIn(m, ph, a), CursorMoves(m, n, s)
  PROVE  CursorLeaves(m, n, {s})
<1> SUFFICES ASSUME NEW c \in Contexts
             PROVE  \/ n.iterator[c] = m.iterator[c] /\ m.iterator[c] \notin {s}
                    \/ m.iterator[c] \in {s} /\ n.iterator[c] = m.sock[m.iterator[c]].next /\ n.iterator[c] \notin {s}
  BY DEF CursorLeaves
<1>1. CASE m.iterator[c] = s
  <2>1. Place(m.sock[s]) = <<"head", c>>
    BY <1>1, Constants DEF CursorIn
  <2>2. m.sock[s].ctx = c /\ <<"head", c>> \in Doubly /\ <<"head", c>> # Queue
    BY <2>1, PlaceAlive DEF Doubly, Heads, Queue
  <2>3. Placed(m) \in Placing /\ Placed(m)[s] \in Doubly
    BY <2>1, <2>2, PlacedType
  <2>4. m.sock[s].next # s
    BY <2>3, Neighbours
  <2> QED BY <1>1, <2>1, <2>2, <2>4 DEF CursorMoves
<1>2. CASE m.iterator[c] # s
  BY <1>2 DEF CursorMoves
<1> QED BY <1>1, <1>2

\* A socket is closed.
LEMMA CloseWalks ==
  ASSUME NEW m \in Memory, NEW n, NEW ph, NEW a, NEW b \in Nat, NEW r \in Ranking(b), NEW s \in Sockets, NEW k,
         Threads(m, Placed(m), r), Walk(m, ph, a, r), Swept(ph, a), Alive(m, s),
         Shifts(m, n, r, s, k), ClosedAs(m.sock[s], k), CursorMoves(m, n, s)
  PROVE  n \in Memory /\ Walked(n, ph, a)
<1>1. n \in Memory /\ n.sock[s] = k
  BY DEF Shifts
<1>2. Place(k) = Closed /\ ~Alive(n, s)
  BY <1>1 DEF ClosedAs, Alive, IsClosed, Place
<1>3. Settled(n, s)
  BY <1>2 DEF Settled
<1>4. CursorLeaves(m, n, {s})
  BY CursorMovesOn DEF Walk
<1> QED BY <1>2, <1>3, <1>4, ShiftWalks

\* The short timeout of a record is that of another one.
ShortAs(j, k) == k.timeout = j.timeout /\ k.wait = j.wait /\ ("short" \in k.missed <=> "short" \in j.missed)

LongAs(j, k) == k.long = j.long /\ k.longWait = j.longWait /\ ("long" \in k.missed <=> "long" \in j.missed)

\* A record whose timeouts are those of another one, or that has none.
LEMMA TimesKept ==
  ASSUME NEW j, NEW k, InTime(j), k.timeout = None \/ ShortAs(j, k), k.long = None \/ LongAs(j, k)
  PROVE  InTime(k)
BY DEF InTime, ShortAs, LongAs

\* A record without timeouts.
LEMMA NoTimes ==
  ASSUME NEW k, k.timeout = None, k.long = None
  PROVE  InTime(k)
BY DEF InTime

\* Neighbours are told apart by none of the facts about records.
LEMMA AlikeSound ==
  ASSUME NEW j \in Socket, NEW k \in Socket, Alike(j, k)
  PROVE  /\ RecordSound(j) => RecordSound(k)
         /\ \A s, ph, pa, ti : RecordFits(j, s, ph, pa, ti) => RecordFits(k, s, ph, pa, ti)
<1>1. k.prev = k.ctx <=> j.prev = j.ctx
  <2>1. k.ctx = j.ctx /\ j.ctx \in Contexts
    BY DEF Socket, Alike
  <2>2. j.ctx \notin Pointer
    BY <2>1, Constants DEF Pointer
  <2> QED BY <2>1, <2>2 DEF Alike
<1>2. InTime(j) => InTime(k)
  BY DEF Alike, InTime
<1> QED BY <1>1, <1>2 DEF Alike, RecordSound, RecordFits

\* The records stay sound when one socket moves and its new record is.
LEMMA ShiftRecords ==
  ASSUME NEW m \in Memory, NEW n, NEW r, NEW s \in Sockets, NEW k, Shifts(m, n, r, s, k),
         NEW ph, NEW pa, NEW ti, Records(m, ph, pa, ti),
         RecordSound(k), RecordFits(k, s, ph, pa, ti)
  PROVE  Records(n, ph, pa, ti)
<1>1. n \in Memory /\ n.sock[s] = k /\ OthersAlike(m, n, s)
  BY DEF Shifts
<1> SUFFICES ASSUME NEW t \in Sockets
             PROVE  RecordSound(n.sock[t]) /\ RecordFits(n.sock[t], t, ph, pa, ti)
  BY DEF Records
<1> DEFINE j == m.sock[t]
           i == n.sock[t]
<1>2. CASE t = s
  BY <1>1, <1>2
<1>3. CASE t # s
  <2>1. j \in Socket /\ i \in Socket /\ Alike(j, i) /\ RecordSound(j) /\ RecordFits(j, t, ph, pa, ti)
    BY <1>1, <1>3, SocketType DEF OthersAlike, Records
  <2> HIDE DEF i, j
  <2>2. RecordSound(i) /\ RecordFits(i, t, ph, pa, ti)
    BY <2>1, AlikeSound
  <2> QED BY <2>2 DEF i
<1> QED BY <1>2, <1>3

\* The invariant but for the types of the variables other than the memory.
Sound(m, ph, a, pa, ti) ==
  /\ m \in Memory
  /\ Walked(m, ph, a)
  /\ Records(m, ph, pa, ti)
  /\ Swept(ph, a)

\* us_socket_close and us_listen_socket_close keep the invariant.
LEMMA CloseSound ==
  ASSUME NEW m, NEW a, NEW pa, NEW ti, Sound(m, phase, a, pa, ti), NEW s \in Sockets, Alive(m, s),
         NEW n, \/ n = Close(m, s) /\ m.sock[s].kind = "socket"
                \/ n = ListenClose(m, s) /\ m.sock[s].kind = "listen"
  PROVE  Sound(n, phase, a, pa, ti)
<1> DEFINE ph == phase
<1>0. m \in Memory /\ Walked(m, ph, a) /\ Records(m, ph, pa, ti) /\ Swept(ph, a)
  BY DEF Sound
<1>1. PICK b \in Nat : \E r \in Ranking(b) : Threads(m, Placed(m), r) /\ Walk(m, ph, a, r)
  BY <1>0 DEF Walked
<1>2. PICK r \in Ranking(b) : Threads(m, Placed(m), r) /\ Walk(m, ph, a, r)
  BY <1>1
<1>3. /\ \E k : Shifts(m, n, r, s, k) /\ ClosedAs(m.sock[s], k)
      /\ CursorMoves(m, n, s) /\ n.budget = m.budget
  BY <1>0, <1>2, CloseShifts
<1>4. PICK k : Shifts(m, n, r, s, k) /\ ClosedAs(m.sock[s], k)
  BY <1>3
<1>5. RecordSound(k) /\ RecordFits(k, s, ph, pa, ti)
  <2>1. k.kind \in {"socket", "listen"}
    BY <1>4 DEF ClosedAs, Alive
  <2>2. k.prev = k.ctx /\ k.handle = "stopping" /\ k.reads = FALSE /\ k.late = (phase = "immediates")
    BY <1>4 DEF ClosedAs
  <2>3. InTime(k)
    BY <1>4, NoTimes DEF ClosedAs
  <2> QED BY <2>1, <2>2, <2>3 DEF RecordSound, RecordFits
<1> HIDE DEF ph
<1>6. Records(n, ph, pa, ti)
  BY <1>0, <1>4, <1>5, ShiftRecords
<1>7. n \in Memory /\ Walked(n, ph, a)
  BY <1>0, <1>2, <1>3, <1>4, CloseWalks
<1> QED BY <1>0, <1>6, <1>7 DEF Sound, ph

\* The record of a socket that is opened, in the list that begins with q.
NewRecord(c, kind, q) == Front(New(c, kind), c, q)

\* The record of a new socket.
LEMMA NewRecordType ==
  ASSUME NEW c \in Contexts, NEW kind \in {"socket", "listen"}, NEW q \in Pointer
  PROVE  /\ New(c, kind) \in Socket /\ New(c, kind).kind = kind
         /\ NewRecord(c, kind, q).kind = kind
         /\ NewRecord(c, kind, q).timeout = None /\ NewRecord(c, kind, q).long = None
         /\ Place(NewRecord(c, kind, q)) = <<ListOf(New(c, kind)), c>>
         /\ RecordSound(NewRecord(c, kind, q))
         /\ \A s, ph, pa, ti : RecordFits(NewRecord(c, kind, q), s, ph, pa, ti)
<1> DEFINE j == New(c, kind)
           k == NewRecord(c, kind, q)
<1>0. None \in 0 .. Modulus /\ NULL \in Pointer /\ c # NULL /\ (c \in Secure) \in BOOLEAN
  BY SocketLoopAssumption, Constants DEF None, Pointer
<1>1. /\ j \in Socket /\ j.kind = kind /\ j.low = 0 /\ j.reads = TRUE /\ j.handle = "active"
      /\ j.timeout = None /\ j.long = None /\ j.late = FALSE
  <2> DEFINE x == kind = "socket" /\ c \in Secure
  <2>1. x \in BOOLEAN
    OBVIOUS
  <2>2. j = [Blank EXCEPT !.kind = kind, !.ctx = c, !.reads = TRUE, !.handle = "active", !.shaking = x]
    BY DEF New
  <2>3. Blank \in Socket /\ Blank.low = 0 /\ Blank.timeout = None /\ Blank.long = None /\ Blank.late = FALSE
    <3>1. 1 \in Contexts
      BY SocketLoopAssumption DEF Contexts
    <3>2. Blank.missed = {} /\ {} \in SUBSET {"short", "long"}
      BY DEF Blank
    <3> QED BY <1>0, <3>1, <3>2 DEF Blank, Socket
  <2> HIDE DEF x, j
  <2> QED BY <2>1, <2>2, <2>3 DEF Socket
<1> HIDE DEF j
<1>2. /\ k.kind = kind /\ k.low = 0 /\ k.reads = TRUE /\ k.handle = "active" /\ k.timeout = None /\ k.long = None
      /\ k.late = FALSE /\ k.prev = NULL /\ k.ctx = c
  BY <1>1, FrontType DEF NewRecord, j
<1> HIDE DEF k
<1>3. ListOf(j) = IF kind = "listen" THEN "listen" ELSE "head"
  BY <1>1 DEF ListOf
<1>4. Place(k) = <<ListOf(j), c>>
  BY <1>0, <1>2, <1>3 DEF Place
<1>5. InTime(k)
  BY <1>2, NoTimes
<1>6. RecordSound(k) /\ \A s, ph, pa, ti : RecordFits(k, s, ph, pa, ti)
  BY <1>0, <1>2, <1>5 DEF RecordSound, RecordFits
<1> QED BY <1>1, <1>2, <1>4, <1>6 DEF j, k

\* A socket is opened in memory that is free.
LEMMA NewSound ==
  ASSUME NEW m, NEW ph, NEW a, NEW pa, NEW ti, Sound(m, ph, a, pa, ti), NEW s \in Sockets, m.sock[s].kind = "free",
         NEW c \in Contexts, NEW kind \in {"socket", "listen"},
         NEW n, n = Link([m EXCEPT !.sock[s] = New(c, kind)], c, s)
  PROVE  Sound(n, ph, a, pa, ti) /\ n.budget = m.budget
<1>0. m \in Memory /\ Walked(m, ph, a) /\ Records(m, ph, pa, ti) /\ Swept(ph, a)
  BY DEF Sound
<1>1. PICK b \in Nat : \E r \in Ranking(b) : Threads(m, Placed(m), r) /\ Walk(m, ph, a, r)
  BY <1>0 DEF Walked
<1>2. PICK r \in Ranking(b) : Threads(m, Placed(m), r) /\ Walk(m, ph, a, r)
  BY <1>1
<1> DEFINE w == Placed(m)
           N == New(c, kind)
           m1 == [m EXCEPT !.sock[s] = N]
           v == <<ListOf(N), c>>
<1>3. w \in Placing /\ w[s] = Out /\ Place(m.sock[s]) = Out
  BY <1>0, PlacedType DEF Place
<1>4. N \in Socket /\ N.kind = kind
  BY NewRecordType, FirstType DEF Pointer
<1>5. n = Link(m1, c, s)
  OBVIOUS
<1> HIDE DEF N
<1>6. SockSet(m, m1, s, N)
  BY <1>0, <1>4, SetSockIs
<1>7. v \in Lists /\ v \in Doubly
  BY DEF ListOf, Lists, Doubly, Heads, Listens
<1> HIDE DEF m1, v, w
<1>8. /\ m1 \in Memory /\ m1.sock[s] = N /\ m1.iterator = m.iterator /\ m1.tick = m.tick /\ m1.budget = m.budget
      /\ \A t \in Sockets \ {s} : m1.sock[t] = m.sock[t]
      /\ \A u \in Lists : First(m1, u) = First(m, u)
  BY <1>0, <1>6 DEF SockSet, RestKept, First, Memory
<1>9. Threads(m1, w, r)
  <2>1. Out \notin Lists
    BY ListsDiffer
  <2>2. Kept(m, m1, w)
    BY <1>3, <1>8, <2>1 DEF Kept
  <2> QED BY <1>2, <1>3, <2>2, ThreadsKept DEF w
<1> DEFINE q == First(m1, v)
           k == NewRecord(c, kind, q)
<1>10. q \in Pointer
  BY <1>7, <1>8, FirstType
<1>11. k = Front(m1.sock[s], c, First(m1, v)) /\ v = <<ListOf(m1.sock[s]), c>>
  BY <1>8 DEF NewRecord, N, v
<1> HIDE DEF q
<1>12. Place(k) = v /\ RecordSound(k) /\ RecordFits(k, s, ph, pa, ti) /\ k.timeout = None /\ k.long = None
  BY <1>10, NewRecordType DEF v, N
<1> HIDE DEF k
<1>13. Linked(m1, n, v, s, k)
  BY <1>3, <1>5, <1>8, <1>9, <1>11, LinkIs
<1>14. OthersAlike(m, m1, s)
  BY <1>8, AlikeSelf DEF OthersAlike
<1>15. w = [Placed(m) EXCEPT ![s] = Out]
  BY <1>3 DEF w, Placing
<1>16. Shifts(m, n, r, s, k)
  BY <1>0, <1>3, <1>7, <1>8, <1>9, <1>12, <1>13, <1>14, <1>15, ShiftsIn
<1>17. n.iterator = m.iterator /\ n.sock[s] = k /\ n.budget = m.budget
  BY <1>8, <1>13 DEF Linked
<1>18. Settled(n, s)
  BY <1>12, <1>17 DEF Settled, ShortSettled, LongSettled
<1>19. \A c1 \in Contexts : m.iterator[c1] # s
  <2> SUFFICES ASSUME NEW c1 \in Contexts, m.iterator[c1] = s PROVE FALSE
    OBVIOUS
  <2>1. Place(m.sock[s]) = <<"head", c1>>
    BY <1>2, Constants DEF Walk, CursorIn
  <2> QED BY <1>3, <2>1 DEF Out
<1>20. CursorLeaves(m, n, {s})
  BY <1>17, <1>19 DEF CursorLeaves
<1>21. ~(ph \in Handlers /\ a.sock = s)
  <2> SUFFICES ASSUME ph \in Handlers, a.sock = s PROVE FALSE
    OBVIOUS
  <2>1. m.iterator[a.ctx] = s \/ m.sock[s].kind = "dead" \/ Place(m.sock[s]) = Closed
    BY <1>2 DEF Walk, CursorIn
  <2>2. a.ctx \in Contexts
    BY <1>0 DEF Swept
  <2> QED BY <1>3, <1>19, <2>1, <2>2 DEF Out, Closed
<1>22. n \in Memory /\ Walked(n, ph, a)
  BY <1>0, <1>2, <1>16, <1>18, <1>20, <1>21, ShiftWalks
<1>23. Records(n, ph, pa, ti)
  BY <1>0, <1>12, <1>16, ShiftRecords
<1> QED BY <1>0, <1>17, <1>22, <1>23 DEF Sound

-----------------------------------------------------------------------------
(* Steps that leave the sockets in their lists.                            *)

Stayed(m, n) ==
  /\ n \in Memory
  /\ \A u \in Lists : First(n, u) = First(m, u)
  /\ n.iterator = m.iterator
  /\ \A t \in Sockets :
       /\ Place(n.sock[t]) = Place(m.sock[t])
       /\ Place(m.sock[t]) # Out =>
            /\ n.sock[t].next = m.sock[t].next /\ n.sock[t].prev = m.sock[t].prev
            /\ n.sock[t].kind = m.sock[t].kind /\ n.sock[t].ctx = m.sock[t].ctx

\* If every threaded socket stays where it is, so do the threads.
LEMMA StayedThreads ==
  ASSUME NEW m \in Memory, NEW n, Stayed(m, n), NEW r, Threads(m, Placed(m), r)
  PROVE  Placed(n) = Placed(m) /\ Threads(n, Placed(n), r)
<1>1. Placed(n) = Placed(m)
  BY DEF Stayed, Placed
<1>2. Placed(m) \in Placing /\ Out \notin Lists /\ \A t \in Sockets : Placed(m)[t] = Place(m.sock[t])
  BY PlacedType, ListsDiffer
<1>3. Kept(m, n, Placed(m))
  BY <1>2 DEF Kept, Stayed
<1>4. Threads(n, Placed(m), r)
  BY <1>2, <1>3, ThreadsKept
<1> QED BY <1>1, <1>4

\* From m to n the timeouts of s are kept, or they are set.
Timed(m, n, s) ==
  /\ ShortAs(m.sock[s], n.sock[s]) \/ ShortSettled(n, s)
  /\ LongAs(m.sock[s], n.sock[s]) \/ LongSettled(n, s)

\* ... and the walk, if the timeouts stay too.
LEMMA StayedWalks ==
  ASSUME NEW m \in Memory, NEW n, NEW ph, NEW a, NEW r, Walk(m, ph, a, r), Swept(ph, a),
         Stayed(m, n), n.tick = m.tick,
         \A t \in Sockets : Place(m.sock[t]) \in Doubly => Timed(m, n, t),
         ph \in Handlers /\ m.sock[a.sock].kind = "dead" => n.sock[a.sock].kind = "dead"
  PROVE  Walk(n, ph, a, r)
<1>1. \A t \in Sockets : Place(n.sock[t]) = Place(m.sock[t])
  BY DEF Stayed
<1>2. n \in Memory /\ n.iterator = m.iterator
  BY DEF Stayed
<1>3. CursorIn(n, ph, a)
  BY <1>1, <1>2 DEF Walk, CursorIn, Swept
<1>4. ASSUME NEW t \in Sockets PROVE Coming(n, ph, a, r, t)
  <2>1. CASE Place(m.sock[t]) \notin Doubly
    <3>1. ~Alive(n, t)
      BY <1>1, <1>2, <2>1, PlaceAlive
    <3> QED BY <3>1 DEF Coming
  <2>2. CASE Place(m.sock[t]) \in Doubly
    <3>1. Place(m.sock[t]) # Out
      BY <2>2, ListsDiffer
    <3>2. n.sock[t].kind = m.sock[t].kind /\ n.sock[t].ctx = m.sock[t].ctx /\ n.sock[t].prev = m.sock[t].prev
      BY <3>1 DEF Stayed
    <3>3. Alive(n, t) <=> Alive(m, t)
      BY <3>2 DEF Alive, IsClosed
    <3>4. Ahead(n, ph, a, r, t) <=> Ahead(m, ph, a, r, t)
      BY <1>1, <1>2 DEF Ahead
    <3>5. Coming(m, ph, a, r, t) /\ Timed(m, n, t)
      BY <2>2 DEF Walk
    <3> HIDE DEF Ahead
    <3>6. n.sock[t].kind = "socket" /\ Alive(n, t) => ShortComing(n, ph, a, r, t)
      BY <1>2, <3>2, <3>3, <3>4, <3>5 DEF Coming, ShortComing, Timed, ShortAs, ShortSettled
    <3>7. n.sock[t].kind = "socket" /\ Alive(n, t) => LongComing(n, ph, a, r, t)
      BY <1>2, <3>2, <3>3, <3>4, <3>5 DEF Coming, LongComing, Timed, LongAs, LongSettled
    <3> QED BY <3>6, <3>7 DEF Coming
  <2> QED BY <2>1, <2>2
<1> QED BY <1>3, <1>4 DEF Walk

\* ... and all of the invariant, if the records stay sound.
LEMMA StayedSound ==
  ASSUME NEW m, NEW ph, NEW a, NEW pa, NEW ti, Sound(m, ph, a, pa, ti),
         NEW n, Stayed(m, n), n.tick = m.tick,
         \A t \in Sockets : Place(m.sock[t]) \in Doubly => Timed(m, n, t),
         ph \in Handlers /\ m.sock[a.sock].kind = "dead" => n.sock[a.sock].kind = "dead",
         NEW ph1, NEW pa1, NEW ti1, ph1 = ph \/ (ph \notin Handlers /\ ph1 \notin Handlers /\ ph1 # "sweep"),
         Records(n, ph1, pa1, ti1)
  PROVE  Sound(n, ph1, a, pa1, ti1)
<1>0. m \in Memory /\ Walked(m, ph, a) /\ Swept(ph, a)
  BY DEF Sound
<1>1. PICK b \in Nat : \E r \in Ranking(b) : Threads(m, Placed(m), r) /\ Walk(m, ph, a, r)
  BY <1>0 DEF Walked
<1>2. PICK r \in Ranking(b) : Threads(m, Placed(m), r) /\ Walk(m, ph, a, r)
  BY <1>1
<1>3. Threads(n, Placed(n), r)
  BY <1>0, <1>2, StayedThreads
<1>4. Walk(n, ph, a, r)
  BY <1>0, <1>2, StayedWalks
<1>5. Walk(n, ph1, a, r)
  <2>1. CASE ph1 = ph
    BY <1>4, <2>1
  <2>2. CASE ph \notin Handlers /\ ph1 \notin Handlers
    BY <1>4, <2>2, WalkIdle
  <2> QED BY <2>1, <2>2
<1>6. n \in Memory
  BY DEF Stayed
<1>7. Swept(ph1, a)
  BY <1>0 DEF Swept
<1> QED BY <1>3, <1>5, <1>6, <1>7 DEF Sound, Walked

\* The record of s becomes k.
SetSock(m, s, k) == [m EXCEPT !.sock[s] = k]

\* Only the record of s changes, and it stays where it is.
LEMMA RecordStays ==
  ASSUME NEW m \in Memory, NEW s \in Sockets, NEW k \in Socket, Place(k) = Place(m.sock[s]),
         k.next = m.sock[s].next, k.prev = m.sock[s].prev, k.kind = m.sock[s].kind, k.ctx = m.sock[s].ctx,
         NEW n, n = SetSock(m, s, k)
  PROVE  /\ Stayed(m, n) /\ SockSet(m, n, s, k) /\ n.tick = m.tick /\ n.sock[s] = k
         /\ \A t \in Sockets \ {s} : n.sock[t] = m.sock[t] /\ Timed(m, n, t)
<1>1. SockSet(m, n, s, k)
  BY SetSockIs DEF SetSock
<1>2. n.sock[s] = k /\ \A t \in Sockets \ {s} : n.sock[t] = m.sock[t]
  BY <1>1 DEF SockSet, Memory
<1>3. \A t \in Sockets \ {s} : Timed(m, n, t)
  BY <1>2 DEF Timed, ShortAs, LongAs
<1>4. \A u \in Lists : First(n, u) = First(m, u)
  BY <1>1 DEF SockSet, RestKept, First
<1>5. Stayed(m, n)
  BY <1>1, <1>2, <1>4 DEF SockSet, RestKept, Stayed
<1> QED BY <1>1, <1>2, <1>3, <1>5 DEF SockSet, RestKept

\* Writing one record keeps the invariant, if its place and pointers stay and it is sound.
LEMMA RecordSounds ==
  ASSUME NEW m, NEW ph, NEW a, NEW pa, NEW ti, Sound(m, ph, a, pa, ti),
         NEW s \in Sockets, NEW k \in Socket, Place(k) = Place(m.sock[s]),
         k.next = m.sock[s].next, k.prev = m.sock[s].prev, k.kind = m.sock[s].kind, k.ctx = m.sock[s].ctx,
         NEW n, n = SetSock(m, s, k), Timed(m, n, s),
         NEW pa1, NEW ti1, RecordSound(k), RecordFits(k, s, ph, pa1, ti1),
         \A t \in Sockets \ {s} : RecordFits(m.sock[t], t, ph, pa1, ti1)
  PROVE  Sound(n, ph, a, pa1, ti1)
<1>0. m \in Memory /\ Records(m, ph, pa, ti)
  BY DEF Sound
<1>1. /\ Stayed(m, n) /\ n.tick = m.tick /\ n.sock[s] = k
      /\ \A t \in Sockets \ {s} : n.sock[t] = m.sock[t] /\ Timed(m, n, t)
  BY <1>0, RecordStays
<1>2. \A t \in Sockets : Place(m.sock[t]) \in Doubly => Timed(m, n, t)
  BY <1>1
<1>3. Records(n, ph, pa1, ti1)
  <2> SUFFICES ASSUME NEW t \in Sockets PROVE RecordSound(n.sock[t]) /\ RecordFits(n.sock[t], t, ph, pa1, ti1)
    BY DEF Records
  <2>1. CASE t = s
    BY <1>1, <2>1
  <2>2. CASE t # s
    BY <1>0, <1>1, <2>2 DEF Records
  <2> QED BY <2>1, <2>2
<1>4. ph \in Handlers /\ m.sock[a.sock].kind = "dead" => n.sock[a.sock].kind = "dead"
  <2>1. ph \in Handlers => a.sock \in Sockets
    BY DEF Sound, Swept
  <2> QED BY <1>1, <2>1
<1> QED BY <1>1, <1>2, <1>3, <1>4, StayedSound

\* From j to k only timeouts change.
OnlyTimes(j, k) ==
  /\ k \in Socket /\ k.next = j.next /\ k.prev = j.prev /\ k.kind = j.kind /\ k.ctx = j.ctx /\ k.low = j.low
  /\ k.reads = j.reads /\ k.shaking = j.shaking /\ k.late = j.late /\ k.handle = j.handle

\* The record of a socket whose short timeout is set, and that of one whose long timeout is.
ShortSet(k, x, n) == [k EXCEPT !.timeout = x, !.wait = n, !.missed = @ \ {"short"}]
LongSet(k, x, n)  == [k EXCEPT !.long = x, !.longWait = n, !.missed = @ \ {"long"}]

\* us_socket_timeout writes nothing but the short timeout of a record.
LEMMA ShortSetType ==
  ASSUME NEW j \in Socket, NEW x \in 0 .. Modulus, NEW n \in Nat, NEW k, k = ShortSet(j, x, n)
  PROVE  /\ OnlyTimes(j, k)
         /\ k.timeout = x /\ k.wait = n /\ "short" \notin k.missed /\ LongAs(j, k)
<1> DEFINE y == j.missed \ {"short"}
<1>1. y \in SUBSET {"short", "long"} /\ "short" \notin y /\ ("long" \in y <=> "long" \in j.missed)
  BY DEF Socket
<1>2. k = [j EXCEPT !.timeout = x, !.wait = n, !.missed = y]
  BY DEF ShortSet, Socket
<1> HIDE DEF y
<1>3. OnlyTimes(j, k)
  <2> DEFINE j1 == [j EXCEPT !.timeout = x]
             j2 == [j1 EXCEPT !.wait = n]
  <2>1. j1 \in Socket /\ OnlyTimes(j, j1)
    BY DEF Socket, OnlyTimes
  <2>2. k = [j2 EXCEPT !.missed = y]
    BY <1>2
  <2> HIDE DEF j1
  <2>3. j2 \in Socket /\ OnlyTimes(j1, j2)
    BY <2>1 DEF Socket, OnlyTimes
  <2> HIDE DEF j2
  <2>4. k \in Socket /\ OnlyTimes(j2, k)
    BY <1>1, <2>2, <2>3 DEF Socket, OnlyTimes
  <2> QED BY <2>1, <2>3, <2>4 DEF OnlyTimes
<1>4. k.timeout = x /\ k.wait = n /\ k.missed = y /\ k.long = j.long /\ k.longWait = j.longWait
  BY <1>1, <1>2 DEF Socket
<1> QED BY <1>1, <1>3, <1>4 DEF LongAs

\* It is the record in the memory that changes.
ShortSetIn(m, s, x, n) == [m EXCEPT !.sock[s].timeout = x, !.sock[s].wait = n, !.sock[s].missed = @ \ {"short"}]

\* ... in memory as in the record.
LEMMA ShortSetInMemory ==
  ASSUME NEW m \in Memory, NEW s \in Sockets, NEW x, NEW n
  PROVE  ShortSetIn(m, s, x, n) = SetSock(m, s, ShortSet(m.sock[s], x, n))
<1> DEFINE z == m.sock[s].missed \ {"short"}
<1>1. ShortSetIn(m, s, x, n) = [m EXCEPT !.sock[s].timeout = x, !.sock[s].wait = n, !.sock[s].missed = z]
  BY DEF ShortSetIn, Memory, Socket
<1>2. ShortSet(m.sock[s], x, n) = [m.sock[s] EXCEPT !.timeout = x, !.wait = n, !.missed = z]
  BY SocketType DEF ShortSet, Socket
<1> HIDE DEF z
<1>3. [m EXCEPT !.sock[s].timeout = x, !.sock[s].wait = n, !.sock[s].missed = z]
        = [m EXCEPT !.sock[s] = [m.sock[s] EXCEPT !.timeout = x, !.wait = n, !.missed = z]]
  BY DEF Memory
<1> QED BY <1>1, <1>2, <1>3 DEF SetSock

\* us_socket_long_timeout writes nothing but the long timeout of a record.
LEMMA LongSetType ==
  ASSUME NEW j \in Socket, NEW x \in 0 .. Modulus, NEW n \in Nat, NEW k, k = LongSet(j, x, n)
  PROVE  /\ OnlyTimes(j, k)
         /\ k.long = x /\ k.longWait = n /\ "long" \notin k.missed /\ ShortAs(j, k)
<1> DEFINE y == j.missed \ {"long"}
<1>1. y \in SUBSET {"short", "long"} /\ "long" \notin y /\ ("short" \in y <=> "short" \in j.missed)
  BY DEF Socket
<1>2. k = [j EXCEPT !.long = x, !.longWait = n, !.missed = y]
  BY DEF LongSet, Socket
<1> HIDE DEF y
<1>3. OnlyTimes(j, k)
  <2> DEFINE j1 == [j EXCEPT !.long = x]
             j2 == [j1 EXCEPT !.longWait = n]
  <2>1. j1 \in Socket /\ OnlyTimes(j, j1)
    BY DEF Socket, OnlyTimes
  <2>2. k = [j2 EXCEPT !.missed = y]
    BY <1>2
  <2> HIDE DEF j1
  <2>3. j2 \in Socket /\ OnlyTimes(j1, j2)
    BY <2>1 DEF Socket, OnlyTimes
  <2> HIDE DEF j2
  <2>4. k \in Socket /\ OnlyTimes(j2, k)
    BY <1>1, <2>2, <2>3 DEF Socket, OnlyTimes
  <2> QED BY <2>1, <2>3, <2>4 DEF OnlyTimes
<1>4. k.long = x /\ k.longWait = n /\ k.missed = y /\ k.timeout = j.timeout /\ k.wait = j.wait
  BY <1>1, <1>2 DEF Socket
<1> QED BY <1>1, <1>3, <1>4 DEF ShortAs

\* It is the record in the memory that changes.
LongSetIn(m, s, x, n) == [m EXCEPT !.sock[s].long = x, !.sock[s].longWait = n, !.sock[s].missed = @ \ {"long"}]

\* ... in memory as in the record.
LEMMA LongSetInMemory ==
  ASSUME NEW m \in Memory, NEW s \in Sockets, NEW x, NEW n
  PROVE  LongSetIn(m, s, x, n) = SetSock(m, s, LongSet(m.sock[s], x, n))
<1> DEFINE z == m.sock[s].missed \ {"long"}
<1>1. LongSetIn(m, s, x, n) = [m EXCEPT !.sock[s].long = x, !.sock[s].longWait = n, !.sock[s].missed = z]
  BY DEF LongSetIn, Memory, Socket
<1>2. LongSet(m.sock[s], x, n) = [m.sock[s] EXCEPT !.long = x, !.longWait = n, !.missed = z]
  BY SocketType DEF LongSet, Socket
<1> HIDE DEF z
<1>3. [m EXCEPT !.sock[s].long = x, !.sock[s].longWait = n, !.sock[s].missed = z]
        = [m EXCEPT !.sock[s] = [m.sock[s] EXCEPT !.long = x, !.longWait = n, !.missed = z]]
  BY DEF Memory
<1> QED BY <1>1, <1>2, <1>3 DEF SetSock

\* The application sets a timeout.
LEMMA TimeoutSound ==
  ASSUME NEW m, NEW ph, NEW a, NEW pa, NEW ti, Sound(m, ph, a, pa, ti), NEW s \in Sockets,
         NEW i \in ShortTicks \cup LongMinutes, NEW n, n = SetTimeout(m, s, i) \/ n = SetLongTimeout(m, s, i)
  PROVE  Sound(n, ph, a, pa, ti)
<1> DEFINE j == m.sock[s]
           M == Modulus
           L == LongRatio
           tick == m.tick[j.ctx]
           x == (tick + i) % M
           y == ((tick + i * L) \div L) % M
<1>0. /\ m \in Memory /\ j \in Socket /\ j.ctx \in Contexts /\ M \in Nat \ {0} /\ L \in Nat \ {0}
      /\ Records(m, ph, pa, ti)
  BY SocketType, SocketLoopAssumption DEF Sound, Socket
<1> i \in Nat \ {0}
  BY SocketLoopAssumption
<1>1. tick \in Nat /\ tick \in Int /\ i \in Int /\ i * L \in Nat /\ i * L > 0
  <2>1. tick \in 0 .. M * L - 1
    BY <1>0 DEF Memory
  <2> QED BY <1>0, <2>1
<1>2. x \in 0 .. M - 1 /\ y \in 0 .. M - 1
  <2> DEFINE e == tick + i
             f == tick + i * L
             g == f \div L
  <2>1. e \in Int /\ f \in Int
    BY <1>1
  <2> HIDE DEF e, f, tick, M, L
  <2>2. g \in Int
    BY <1>0, <2>1, Division
  <2> HIDE DEF g
  <2>3. e % M \in 0 .. M - 1 /\ g % M \in 0 .. M - 1
    BY <1>0, <2>1, <2>2, Division
  <2> QED BY <2>3 DEF e, f, g
<1>3. (Timestamp(m, j.ctx) + i) % M = x /\ (LongTimestamp(m, j.ctx) + i) % M = y
  <2> HIDE DEF M, L, tick
  <2>1. Plus(tick % M, i) % M = Plus(tick, i) % M
    BY <1>0, <1>1, ModularSum
  <2>2. (((tick \div L) % M) + i) % M = y
    BY <1>0, <1>1, LongAligned
  <2> QED BY <2>1, <2>2 DEF Plus, Timestamp, LongTimestamp, M, L, tick
<1>4. x \in 0 .. M /\ y \in 0 .. M /\ i # 0
  BY <1>0, <1>2
<1>5. \E k : n = SetSock(m, s, k) /\ (k = ShortSet(j, x, i) \/ k = LongSet(j, y, i * L))
  <2>1. CASE n = SetTimeout(m, s, i)
    <3> HIDE DEF x
    <3>1. n = ShortSetIn(m, s, x, i)
      BY <1>3, <1>4, <2>1 DEF SetTimeout, ShortSetIn
    <3>2. n = SetSock(m, s, ShortSet(m.sock[s], x, i))
      BY <1>0, <3>1, ShortSetInMemory
    <3> QED BY <3>2
  <2>2. CASE n = SetLongTimeout(m, s, i)
    <3> DEFINE e == i * L
    <3>1. n = LongSetIn(m, s, y, e)
      <4> HIDE DEF y
      <4> QED BY <1>3, <1>4, <2>2 DEF SetLongTimeout, LongSetIn
    <3> HIDE DEF y, e
    <3>2. n = SetSock(m, s, LongSet(m.sock[s], y, e))
      BY <1>0, <3>1, LongSetInMemory
    <3> QED BY <3>2 DEF e
  <2> QED BY <2>1, <2>2
<1>6. PICK k : n = SetSock(m, s, k) /\ (k = ShortSet(j, x, i) \/ k = LongSet(j, y, i * L))
  BY <1>5
<1>7. /\ OnlyTimes(j, k)
      /\ \/ k.timeout = x /\ k.wait = i /\ "short" \notin k.missed /\ LongAs(j, k)
         \/ k.long = y /\ k.longWait = i * L /\ "long" \notin k.missed /\ ShortAs(j, k)
  <2> DEFINE e == i * L
  <2>1. e \in Nat
    BY <1>1
  <2>2. k = ShortSet(j, x, i) \/ k = LongSet(j, y, e)
    BY <1>6
  <2>3. x \in 0 .. Modulus /\ y \in 0 .. Modulus /\ j \in Socket
    BY <1>0, <1>4
  <2> HIDE DEF j, x, y, e, M
  <2>4. CASE k = ShortSet(j, x, i)
    <3>1. i \in Nat
      OBVIOUS
    <3> QED BY <2>3, <2>4, <3>1, ShortSetType
  <2>5. CASE k = LongSet(j, y, e)
    <3>1. k.long = y /\ k.longWait = e
      BY <2>1, <2>3, <2>5, LongSetType
    <3>2. OnlyTimes(j, k) /\ "long" \notin k.missed /\ ShortAs(j, k)
      BY <2>1, <2>3, <2>5, LongSetType
    <3> QED BY <3>1, <3>2 DEF e
  <2> QED BY <2>2, <2>4, <2>5
<1>8. n.tick = m.tick /\ n.sock[s] = k
  BY <1>0, <1>6 DEF Memory, SetSock
<1>9. Timed(m, n, s)
  <2>1. k.ctx = j.ctx
    BY <1>7 DEF OnlyTimes
  <2>2. n.tick[k.ctx] = tick /\ i > 0
    BY <1>8, <2>1
  <2>3. CASE k.timeout = x /\ k.wait = i /\ "short" \notin k.missed /\ LongAs(j, k)
    <3>1. ShortSettled(n, s)
      <4> HIDE DEF tick
      <4> QED BY <1>8, <2>2, <2>3 DEF ShortSettled
    <3> QED BY <1>8, <2>3, <3>1 DEF Timed
  <2>4. CASE k.long = y /\ k.longWait = i * L /\ "long" \notin k.missed /\ ShortAs(j, k)
    <3> DEFINE e == i * L
    <3>1. k.longWait = e /\ e > 0 /\ y = ((tick + e) \div L) % M
      BY <1>1, <2>4
    <3>2. LongSettled(n, s)
      <4> HIDE DEF tick, e, y
      <4> QED BY <1>8, <2>2, <2>4, <3>1 DEF LongSettled
    <3> QED BY <1>8, <2>4, <3>2 DEF Timed
  <2> QED BY <1>7, <2>3, <2>4
<1>10. Place(k) = Place(j)
  BY <1>7 DEF Place, OnlyTimes
<1>11. RecordSound(k) /\ RecordFits(k, s, ph, pa, ti)
  <2>1. RecordSound(j) /\ RecordFits(j, s, ph, pa, ti)
    BY <1>0 DEF Records
  <2>2. InTime(k)
    <3>1. i * L \in Nat /\ (LessThanATurn => i < Modulus /\ i * L <= (Modulus - 1) * LongRatio)
      <4>1. LessThanATurn => i \in 1 .. M - 1
        BY DEF LessThanATurn
      <4> HIDE DEF M, L
      <4>2. ASSUME i \in 1 .. M - 1 PROVE i < M /\ i * L <= (M - 1) * L
        <5>1. i <= M - 1 /\ M - 1 \in Nat
          BY <1>0, <4>2
        <5> QED BY <1>0, <4>2, <5>1, TimesGrows
      <4> QED BY <1>1, <4>1, <4>2 DEF M, L
    <3>2. InTime(j)
      BY <2>1 DEF RecordSound
    <3> DEFINE e == i * L
               f == (Modulus - 1) * LongRatio
    <3> HIDE DEF e, f, j, x, y
    <3>3. LessThanATurn => i < Modulus /\ e <= f
      BY <3>1 DEF e, f
    <3>4. InTime(k) <=> (LessThanATurn =>
             /\ k.timeout # None => k.wait < Modulus /\ ("short" \in k.missed => k.wait = 0)
             /\ k.long # None => k.longWait <= f /\ ("long" \in k.missed => k.longWait < LongRatio))
      BY DEF InTime, f
    <3>5. InTime(j) <=> (LessThanATurn =>
             /\ j.timeout # None => j.wait < Modulus /\ ("short" \in j.missed => j.wait = 0)
             /\ j.long # None => j.longWait <= f /\ ("long" \in j.missed => j.longWait < LongRatio))
      BY DEF InTime, f
    <3>6. \/ k.timeout = x /\ k.wait = i /\ "short" \notin k.missed /\ LongAs(j, k)
          \/ k.long = y /\ k.longWait = e /\ "long" \notin k.missed /\ ShortAs(j, k)
      BY <1>7 DEF e
    <3> QED BY <3>2, <3>3, <3>4, <3>5, <3>6 DEF ShortAs, LongAs
  <2> HIDE DEF j
  <2> QED BY <1>7, <2>1, <2>2 DEF RecordSound, RecordFits, OnlyTimes
<1>12. \A t \in Sockets \ {s} : RecordFits(m.sock[t], t, ph, pa, ti)
  BY <1>0 DEF Records
<1>13. k \in Socket /\ k.next = j.next /\ k.prev = j.prev /\ k.kind = j.kind /\ k.ctx = j.ctx
  BY <1>7 DEF OnlyTimes
<1> HIDE DEF x, y
<1> QED BY <1>6, <1>9, <1>10, <1>11, <1>12, <1>13, RecordSounds

\* The budget of the iteration changes.
LEMMA BudgetSound ==
  ASSUME NEW m, NEW ph, NEW a, NEW pa, NEW ti, Sound(m, ph, a, pa, ti), NEW x \in 0 .. Budget,
         NEW n, n = [m EXCEPT !.budget = x]
  PROVE  Sound(n, ph, a, pa, ti) /\ n.budget = x /\ n.sock = m.sock /\ n.low = m.low /\ n.iterator = m.iterator
<1>1. m \in Memory /\ Records(m, ph, pa, ti)
  BY DEF Sound
<1>2. /\ n \in Memory /\ n.sock = m.sock /\ n.iterator = m.iterator /\ n.tick = m.tick /\ n.head = m.head
      /\ n.listen = m.listen /\ n.low = m.low /\ n.closed = m.closed /\ n.budget = x
  BY <1>1 DEF Memory
<1>3. Stayed(m, n)
  BY <1>2 DEF Stayed, First
<1>4. \A t \in Sockets : Place(m.sock[t]) \in Doubly => Timed(m, n, t)
  BY <1>2 DEF Timed, ShortAs, LongAs
<1>5. Records(n, ph, pa, ti)
  BY <1>1, <1>2 DEF Records
<1>6. Sound(n, ph, a, pa, ti)
  BY <1>2, <1>3, <1>4, <1>5, StayedSound
<1> QED BY <1>2, <1>6

\* The data of a socket is processed.
DataRecord(j, more) == [j EXCEPT !.low = 0, !.shaking = more]

\* The record of a socket that was read from.
LEMMA DataRecordType ==
  ASSUME NEW j \in Socket, NEW more \in BOOLEAN, NEW k, k = DataRecord(j, more)
  PROVE  /\ k \in Socket /\ k.next = j.next /\ k.prev = j.prev /\ k.kind = j.kind /\ k.ctx = j.ctx /\ k.low = 0
         /\ k.reads = j.reads /\ k.late = j.late /\ k.handle = j.handle
         /\ ShortAs(j, k) /\ LongAs(j, k)
<1>1. 0 \in 0 .. 2
  OBVIOUS
<1>2. /\ k \in Socket /\ k.next = j.next /\ k.prev = j.prev /\ k.kind = j.kind /\ k.ctx = j.ctx /\ k.low = 0
      /\ k.reads = j.reads /\ k.late = j.late /\ k.handle = j.handle
      /\ k.timeout = j.timeout /\ k.wait = j.wait /\ k.long = j.long /\ k.longWait = j.longWait /\ k.missed = j.missed
  BY <1>1 DEF DataRecord, Socket
<1> QED BY <1>2 DEF ShortAs, LongAs

\* Dispatching data keeps the invariant (loop.c:385-420).
LEMMA DataSound ==
  ASSUME NEW m, NEW ph, NEW a, NEW pa, NEW ti, Sound(m, ph, a, pa, ti), NEW s \in Sockets,
         m.sock[s].kind = "socket", Alive(m, s), m.sock[s].reads, m.sock[s].low = 2 \/ m.budget # 0,
         NEW more \in BOOLEAN,
         NEW n, n = [m EXCEPT !.sock[s].low = 0, !.sock[s].shaking = more,
                              !.budget = IF m.sock[s].low = 2 THEN @ ELSE @ - 1]
  PROVE  Sound(n, ph, a, pa, ti)
<1> DEFINE j == m.sock[s]
           k == DataRecord(j, more)
           n0 == SetSock(m, s, k)
           x == IF m.sock[s].low = 2 THEN m.budget ELSE m.budget - 1
<1>0. m \in Memory /\ Records(m, ph, pa, ti) /\ j \in Socket
  BY SocketType DEF Sound
<1>1. x \in 0 .. Budget
  <2>1. m.budget \in 0 .. Budget /\ Budget \in Nat
    BY <1>0, SocketLoopAssumption DEF Memory
  <2> QED BY <2>1
<1> HIDE DEF x
<1>2. n = [m EXCEPT !.sock[s].low = 0, !.sock[s].shaking = more, !.budget = x]
  BY <1>0 DEF Memory, x
<1>3. n = [n0 EXCEPT !.budget = x]
  <2>1. [m EXCEPT !.sock[s].low = 0, !.sock[s].shaking = more]
          = [m EXCEPT !.sock[s] = [m.sock[s] EXCEPT !.low = 0, !.shaking = more]]
    BY <1>0 DEF Memory
  <2>2. n = [[m EXCEPT !.sock[s].low = 0, !.sock[s].shaking = more] EXCEPT !.budget = x]
    BY <1>2
  <2> QED BY <2>1, <2>2 DEF SetSock, DataRecord
<1> HIDE DEF j, k
<1>4. /\ k \in Socket /\ k.next = j.next /\ k.prev = j.prev /\ k.kind = j.kind /\ k.ctx = j.ctx /\ k.low = 0
      /\ k.reads = j.reads /\ k.late = j.late /\ k.handle = j.handle
      /\ ShortAs(j, k) /\ LongAs(j, k)
  <2>1. k = DataRecord(j, more)
    BY DEF k
  <2> QED BY <1>0, <2>1, DataRecordType
<1>5. RecordSound(j) /\ RecordFits(j, s, ph, pa, ti) /\ j.kind = "socket" /\ j.prev # j.ctx /\ j.reads
  BY <1>0 DEF Records, j, Alive, IsClosed
<1>6. j.low # 1
  BY <1>5 DEF RecordSound
<1>7. Place(k) = Place(j) /\ RecordSound(k) /\ RecordFits(k, s, ph, pa, ti)
  <2>1. InTime(k)
    BY <1>4, <1>5, TimesKept DEF RecordSound
  <2> QED BY <1>4, <1>5, <1>6, <2>1 DEF Place, RecordSound, RecordFits
<1>8. n0.sock[s] = k
  BY <1>0 DEF Memory, SetSock
<1>9. Timed(m, n0, s)
  BY <1>4, <1>8 DEF Timed, j
<1>10. \A t \in Sockets \ {s} : RecordFits(m.sock[t], t, ph, pa, ti)
  BY <1>0 DEF Records
<1>11. Sound(n0, ph, a, pa, ti)
  <2>1. /\ n0 = SetSock(m, s, k) /\ Place(k) = Place(m.sock[s])
        /\ k.next = m.sock[s].next /\ k.prev = m.sock[s].prev /\ k.kind = m.sock[s].kind /\ k.ctx = m.sock[s].ctx
    BY <1>4, <1>7 DEF j
  <2> HIDE DEF n0
  <2> QED BY <1>4, <1>7, <1>9, <1>10, <2>1, RecordSounds
<1> HIDE DEF n0
<1> QED BY ONLY <1>1, <1>3, <1>11, BudgetSound

\* A listen socket is paused: it is put before the others, and the timer is armed.
PausedTo(s, pa, ti, pa1, ti1) == pa1 = <<s>> \o pa /\ ti1 = (ti \/ pa = <<>>) /\ ti1

\* A listen socket is paused.
LEMMA PauseSound ==
  ASSUME NEW m, NEW ph, NEW a, NEW pa \in Seq(Sockets), NEW ti, Sound(m, ph, a, pa, ti), NEW s \in Sockets,
         m.sock[s].kind = "listen", Alive(m, s),
         NEW n, n = [m EXCEPT !.sock[s].reads = FALSE],
         NEW pa1, NEW ti1, PausedTo(s, pa, ti, pa1, ti1)
  PROVE  Sound(n, ph, a, pa1, ti1)
<1> pa1 = <<s>> \o pa /\ ti1
  BY DEF PausedTo
<1> DEFINE j == m.sock[s]
           k == [j EXCEPT !.reads = FALSE]
<1>0. m \in Memory /\ Records(m, ph, pa, ti) /\ j \in Socket
  BY SocketType DEF Sound
<1>1. n = SetSock(m, s, k)
  BY <1>0 DEF SetSock, Memory
<1>2. /\ k \in Socket /\ k.next = j.next /\ k.prev = j.prev /\ k.kind = j.kind /\ k.ctx = j.ctx /\ k.low = j.low
      /\ k.late = j.late /\ k.handle = j.handle /\ k.reads = FALSE
      /\ k.timeout = j.timeout /\ k.wait = j.wait /\ k.long = j.long /\ k.longWait = j.longWait /\ k.missed = j.missed
  <2>1. FALSE \in BOOLEAN
    OBVIOUS
  <2> HIDE DEF j
  <2> QED BY <1>0, <2>1 DEF Socket
<1> HIDE DEF k
<1>3. pa1[1] = s /\ 1 \in DOMAIN pa1 /\ \A i \in DOMAIN pa : \E h \in DOMAIN pa1 : pa1[h] = pa[i]
  <2>1. Len(pa1) = Len(pa) + 1 /\ pa1 \in Seq(Sockets) /\ pa1[1] = s
    OBVIOUS
  <2>2. ASSUME NEW i \in 1 .. Len(pa) PROVE pa1[i + 1] = pa[i] /\ i + 1 \in 1 .. Len(pa1)
    <3> DEFINE h == i + 1
    <3>1. <<s>> \in Seq(Sockets) /\ Len(<<s>>) = 1
      OBVIOUS
    <3>2. Len(pa) \in Nat
      OBVIOUS
    <3>3. h \in 1 .. Len(pa1) /\ h > 1 /\ h - 1 = i
      BY <2>1, <3>2
    <3> HIDE DEF h
    <3>4. h \in 1 .. Len(<<s>>) + Len(pa)
      BY <2>1, <3>1, <3>2, <3>3
    <3>5. (<<s>> \o pa)[h] = IF h <= Len(<<s>>) THEN <<s>>[h] ELSE pa[h - Len(<<s>>)]
      BY <3>1, <3>4
    <3>6. pa1[h] = pa[i]
      BY <3>1, <3>3, <3>5
    <3> QED BY <3>3, <3>6 DEF h
  <2>3. DOMAIN pa = 1 .. Len(pa) /\ DOMAIN pa1 = 1 .. Len(pa1) /\ Len(pa) \in Nat
    BY <2>1
  <2>4. \A i \in DOMAIN pa : \E h \in DOMAIN pa1 : pa1[h] = pa[i]
    BY <2>2, <2>3
  <2>5. 1 \in DOMAIN pa1
    BY <2>1, <2>3
  <2> QED BY <2>1, <2>4, <2>5
<1>4. ti1
  OBVIOUS
<1>5. RecordSound(j) /\ RecordFits(j, s, ph, pa, ti) /\ j.kind = "listen" /\ j.prev # j.ctx
  BY <1>0 DEF Records, Alive, IsClosed
<1>6. Place(k) = Place(j) /\ RecordSound(k) /\ RecordFits(k, s, ph, pa1, ti1)
  <2> HIDE DEF j
  <2>1. InTime(k)
    BY <1>2, <1>5 DEF RecordSound, InTime
  <2> QED BY <1>2, <1>3, <1>4, <1>5, <2>1 DEF Place, RecordSound, RecordFits
<1>7. n.sock[s] = k
  BY <1>0, <1>1 DEF Memory, SetSock
<1>8. Timed(m, n, s)
  BY <1>2, <1>7 DEF Timed, ShortAs, LongAs
<1>9. \A t \in Sockets \ {s} : RecordFits(m.sock[t], t, ph, pa1, ti1)
  <2>1. \A t \in Sockets \ {s} : RecordFits(m.sock[t], t, ph, pa, ti)
    BY <1>0 DEF Records
  <2> QED BY <1>3, <1>4, <2>1 DEF RecordFits
<1> QED BY <1>1, <1>2, <1>4, <1>6, <1>8, <1>9, RecordSounds

\* Outside of the handlers of the sweep a socket moves to another list.
LEMMA IdleMoves ==
  ASSUME NEW m, NEW ph, NEW a, NEW pa, NEW ti, Sound(m, ph, a, pa, ti), ph \notin Handlers,
         NEW b \in Nat, NEW r \in Ranking(b), Threads(m, Placed(m), r), Walk(m, ph, a, r),
         NEW s \in Sockets, NEW k, NEW n, Shifts(m, n, r, s, k), n.iterator = m.iterator,
         RecordSound(k), RecordFits(k, s, ph, pa, ti),
         Alive(m, s), k.kind = m.sock[s].kind, k.ctx = m.sock[s].ctx,
         ShortAs(m.sock[s], k), LongAs(m.sock[s], k)
  PROVE  Sound(n, ph, a, pa, ti)
<1>0. m \in Memory /\ Records(m, ph, pa, ti) /\ Swept(ph, a)
  BY DEF Sound
<1>1. \A c \in Contexts : m.iterator[c] = NULL
  BY DEF Walk, CursorIn
<1>2. CursorLeaves(m, n, {s})
  BY <1>1, Constants DEF CursorLeaves
<1>3. n.tick = m.tick /\ n.sock[s] = k
  BY DEF Shifts
<1>4. Coming(m, ph, a, r, s)
  BY DEF Walk
<1>5. Settled(n, s)
  BY <1>3, <1>4 DEF Settled, Coming, ShortSettled, LongSettled, ShortComing, LongComing, Ahead, ShortAs, LongAs
<1>6. n \in Memory /\ Walked(n, ph, a)
  BY <1>0, <1>2, <1>5, ShiftWalks
<1>7. Records(n, ph, pa, ti)
  BY <1>0, ShiftRecords
<1> QED BY <1>0, <1>6, <1>7 DEF Sound

\* A readable socket goes to the low-priority queue.
LEMMA QueueSound ==
  ASSUME NEW m, NEW ph, NEW a, NEW pa, NEW ti, Sound(m, ph, a, pa, ti), ph \notin Handlers,
         NEW s \in Sockets, m.sock[s].kind = "socket", Alive(m, s), m.sock[s].reads, m.sock[s].shaking,
         NEW n, n = PushLow(Unlink(m, s), s)
  PROVE  Sound(n, ph, a, pa, ti)
<1>0. m \in Memory /\ Walked(m, ph, a) /\ Records(m, ph, pa, ti)
  BY DEF Sound
<1>1. PICK b \in Nat : \E r \in Ranking(b) : Threads(m, Placed(m), r) /\ Walk(m, ph, a, r)
  BY <1>0 DEF Walked
<1>2. PICK r \in Ranking(b) : Threads(m, Placed(m), r) /\ Walk(m, ph, a, r)
  BY <1>1
<1> DEFINE j == m.sock[s]
           w == Placed(m)
           m1 == Unlink(m, s)
           k == QueuedRecord(j, m1.low)
<1>3. j \in Socket /\ RecordSound(j) /\ RecordFits(j, s, ph, pa, ti) /\ j.prev # j.ctx /\ j.kind = "socket" /\ j.low # 1
  <2>1. j \in Socket /\ RecordSound(j) /\ RecordFits(j, s, ph, pa, ti) /\ j.prev # j.ctx
    BY <1>0, SocketType DEF Records, Alive, IsClosed
  <2> QED BY <2>1 DEF RecordSound
<1>4. w \in Placing /\ w[s] = Own(j) /\ w[s] \in Doubly
  <2>1. w \in Placing /\ w[s] = Place(j)
    BY <1>0, PlacedType
  <2>2. Place(j) = Own(j)
    BY <1>0, <1>3, PlaceAlive
  <2> QED BY <1>3, <2>1, <2>2, OwnType
<1>5. /\ Unlinked(m, m1, w, s, j)
      /\ m1.iterator = [m.iterator EXCEPT ![j.ctx] = IF @ = s THEN j.next ELSE @]
  BY <1>0, <1>2, <1>4, UnlinkIs
<1> HIDE DEF m1, w
<1>6. m1 \in Memory /\ Removed(m, m1, w, s) /\ m1.sock[s] = j /\ m1.low \in Pointer
  BY <1>5 DEF Unlinked, Memory
<1>7. [w EXCEPT ![s] = Out] \in Placing /\ Threads(m1, [w EXCEPT ![s] = Out], r)
  BY <1>0, <1>2, <1>4, <1>6, ThreadsRemoved DEF w
<1> DEFINE w1 == [w EXCEPT ![s] = Out]
<1>8. w1[s] = Out
  BY <1>4 DEF Placing
<1> HIDE DEF w1
<1>9. Linked(m1, n, Queue, s, k)
  <2>1. n = PushLow(m1, s) /\ k = QueuedRecord(m1.sock[s], m1.low)
    BY <1>6 DEF m1
  <2> HIDE DEF k
  <2> QED BY <1>6, <1>7, <1>8, <2>1, PushLowIs DEF w1
<1>10. /\ k \in Socket /\ k.prev = NULL /\ k.low = 1 /\ k.reads = FALSE
       /\ k.kind = j.kind /\ k.ctx = j.ctx /\ k.shaking = j.shaking /\ k.late = j.late /\ k.handle = j.handle
       /\ k.timeout = j.timeout /\ k.wait = j.wait /\ k.long = j.long /\ k.longWait = j.longWait
       /\ k.missed = j.missed
  <2> DEFINE q == m1.low
  <2>1. q \in Pointer /\ j \in Socket
    BY <1>3, <1>6
  <2>2. k = QueuedRecord(j, q)
    OBVIOUS
  <2> HIDE DEF q, j, k
  <2> QED BY ONLY <2>1, <2>2, QueuedRecordType
<1> HIDE DEF k
<1>11. k.ctx # NULL
  BY <1>10, Constants DEF Socket
<1>12. Place(k) = Queue /\ Queue \in Lists
  BY <1>3, <1>10, <1>11 DEF Place, Lists, Doubly
<1>13. RecordSound(k) /\ RecordFits(k, s, ph, pa, ti)
  <2>1. InTime(k)
    BY <1>3, <1>10 DEF RecordSound, InTime
  <2> QED BY <1>3, <1>10, <1>11, <2>1 DEF RecordSound, RecordFits
<1>14. Shifts(m, n, r, s, k)
  <2>1. Placed(m)[s] \in Doubly /\ Unlinked(m, m1, Placed(m), s, j) /\ Queue \in Lists
    BY <1>4, <1>5, <1>12 DEF w
  <2> HIDE DEF j
  <2> QED BY <1>0, <1>2, <1>9, <1>12, <2>1, ShiftsTo
<1>15. n.iterator = m.iterator
  <2>1. \A c \in Contexts : m.iterator[c] # s
    BY <1>2, Constants DEF Walk, CursorIn
  <2>2. j.ctx \in Contexts /\ m.iterator \in [Contexts -> Pointer]
    BY <1>0, <1>3 DEF Memory, Socket
  <2>3. m1.iterator = m.iterator
    BY <1>5, <2>1, <2>2
  <2> QED BY <1>9, <2>3 DEF Linked
<1>16. ShortAs(j, k) /\ LongAs(j, k)
  BY <1>10 DEF ShortAs, LongAs
<1> QED BY <1>2, <1>10, <1>13, <1>14, <1>15, <1>16, IdleMoves

\* The first socket of the low-priority queue goes back to the list of its context.
LEMMA RequeueSound ==
  ASSUME NEW m, NEW ph, NEW a, NEW pa, NEW ti, Sound(m, ph, a, pa, ti), ph \notin Handlers,
         m.low # NULL, m.budget > 0, NEW n, n = Requeue(m)
  PROVE  Sound(n, ph, a, pa, ti) /\ n.budget = m.budget - 1
<1>0. m \in Memory /\ Walked(m, ph, a) /\ Records(m, ph, pa, ti)
  BY DEF Sound
<1>1. PICK b \in Nat : \E r \in Ranking(b) : Threads(m, Placed(m), r) /\ Walk(m, ph, a, r)
  BY <1>0 DEF Walked
<1>2. PICK r \in Ranking(b) : Threads(m, Placed(m), r) /\ Walk(m, ph, a, r)
  BY <1>1
<1> DEFINE s == m.low
           j == m.sock[s]
<1>3. /\ s \in Sockets /\ Place(j) = Queue
      /\ \E k : Shifts(m, n, r, s, k) /\ RequeuedAs(j, k)
      /\ n.iterator = m.iterator /\ n.budget = m.budget - 1
  BY <1>0, <1>2, RequeueShifts
<1> HIDE DEF s
<1>4. PICK k : Shifts(m, n, r, s, k) /\ RequeuedAs(j, k)
  BY <1>3
<1>5. j \in Socket /\ RecordSound(j) /\ RecordFits(j, s, ph, pa, ti)
  BY <1>0, <1>3, SocketType DEF Records
<1>6. Alive(m, s) /\ j.kind = "socket" /\ j.prev # j.ctx /\ j.ctx # NULL
  <2>1. Alive(m, s) /\ j.kind = "socket"
    BY <1>0, <1>3, PlaceAlive
  <2>2. j.ctx \in Contexts
    BY <1>5 DEF Socket
  <2> QED BY <2>1, <2>2, Constants DEF Alive, IsClosed
<1> HIDE DEF j
<1>7. k.kind = j.kind /\ k.ctx = j.ctx /\ k.prev = NULL /\ k.low = 2 /\ k.reads = TRUE /\ k.handle = j.handle /\ k.late = j.late
  BY <1>4 DEF RequeuedAs
<1>8. ShortAs(j, k) /\ LongAs(j, k)
  BY <1>4 DEF RequeuedAs, ShortAs, LongAs
<1>9. RecordSound(k) /\ RecordFits(k, s, ph, pa, ti)
  <2>1. InTime(k)
    BY <1>5, <1>8, TimesKept DEF RecordSound
  <2> QED BY <1>5, <1>6, <1>7, <2>1 DEF RecordSound, RecordFits
<1>10. Alive(m, s) /\ k.kind = m.sock[s].kind /\ k.ctx = m.sock[s].ctx /\ ShortAs(m.sock[s], k) /\ LongAs(m.sock[s], k)
  BY <1>6, <1>7, <1>8 DEF j
<1>11. Sound(n, ph, a, pa, ti)
  BY <1>2, <1>3, <1>4, <1>9, <1>10, IdleMoves
<1> QED BY <1>3, <1>11

\* us_internal_handle_low_priority_sockets.
LEMMA HandleSound ==
  ASSUME NEW m, NEW ph, NEW a, NEW pa, NEW ti, Sound(m, ph, a, pa, ti), ph \notin Handlers
  PROVE  Sound(HandleLowPriority(m), ph, a, pa, ti)
<1> DEFINE x == [m EXCEPT !.budget = Budget]
           f == [y \in Memory |-> IF y.low = NULL THEN y ELSE Requeue(y)]
           G == [n \in 0 .. Budget |-> {y \in Memory : Sound(y, ph, a, pa, ti) /\ y.budget >= Budget - n}]
           Step(h, n) == IF n = 0 THEN x ELSE IF h[n - 1].low = NULL THEN h[n - 1] ELSE Requeue(h[n - 1])
           Is(h) == h = [n \in 0 .. Budget |-> Step(h, n)]
<1>0. Budget \in Nat \ {0} /\ m \in Memory
  BY SocketLoopAssumption DEF Sound
<1>1. Sound(x, ph, a, pa, ti) /\ x.budget = Budget /\ x \in Memory
  <2>1. Budget \in 0 .. Budget
    BY <1>0
  <2>2. Sound(x, ph, a, pa, ti) /\ x.budget = Budget
    BY <2>1, BudgetSound
  <2> QED BY <2>2 DEF Sound
<1> HIDE DEF x
<1>2. \A y : Sound(y, ph, a, pa, ti) => y \in Memory /\ y.budget \in Int
  <2> SUFFICES ASSUME NEW y, Sound(y, ph, a, pa, ti) PROVE y \in Memory /\ y.budget \in Int
    OBVIOUS
  <2>1. y \in Memory /\ y.budget \in 0 .. Budget
    BY DEF Sound, Memory
  <2> QED BY <1>0, <2>1
<1>3. ASSUME NEW n \in 1 .. Budget, NEW y \in G[n - 1] PROVE f[y] \in G[n]
  <2>1. n - 1 \in 0 .. Budget /\ n \in 0 .. Budget
    BY <1>0
  <2>2. y \in Memory /\ Sound(y, ph, a, pa, ti) /\ y.budget >= Budget - (n - 1)
    BY <2>1
  <2>3. y.budget \in Int /\ y.budget > 0
    <3>1. y.budget \in Int
      BY <1>2, <2>2
    <3> QED BY <1>0, <2>2, <3>1
  <2>4. CASE y.low = NULL
    BY <1>0, <2>1, <2>2, <2>3, <2>4
  <2>5. CASE y.low # NULL
    <3> DEFINE z == Requeue(y)
    <3>1. Sound(z, ph, a, pa, ti) /\ z.budget = y.budget - 1
      BY <2>2, <2>3, <2>5, RequeueSound
    <3>2. f[y] = z
      BY <2>2, <2>5
    <3> HIDE DEF z, f
    <3>3. z \in Memory /\ z.budget >= Budget - n
      BY <1>0, <1>2, <2>2, <2>3, <3>1
    <3> QED BY <2>1, <3>1, <3>2, <3>3
  <2> QED BY <2>4, <2>5
<1>4. x \in G[0] /\ \A n \in 0 .. Budget : G[n] \subseteq Memory
  BY <1>0, <1>1
<1>5. Stays(Budget, Memory, f, G, x)
  <2> HIDE DEF f, G
  <2> QED BY <1>3, <1>4 DEF Stays
<1>6. PICK g \in [0 .. Budget -> Memory] : g[0] = x /\ \A n \in 0 .. Budget : g[n] \in G[n] /\ (n > 0 => g[n] = f[g[n - 1]])
  <2> HIDE DEF f, G
  <2>1. Iterated(Budget, Memory, f, G, x)
    BY <1>0, <1>5, Iterates
  <2> QED BY <2>1 DEF Iterated
<1>7. \A n \in 0 .. Budget : g[n] = Step(g, n)
  <2> SUFFICES ASSUME NEW n \in 0 .. Budget PROVE g[n] = Step(g, n)
    OBVIOUS
  <2>1. CASE n = 0
    BY <1>6, <2>1
  <2>2. CASE n # 0
    <3>1. n > 0 /\ n - 1 \in 0 .. Budget
      BY <1>0, <2>2
    <3>2. g[n] = f[g[n - 1]] /\ g[n - 1] \in Memory
      BY <1>6, <3>1
    <3> QED BY <2>2, <3>2
  <2> QED BY <2>1, <2>2
<1>8. Is(g)
  BY <1>7
<1> DEFINE h == CHOOSE e : Is(e)
<1>9. HandleLowPriority(m) = h[Budget]
  BY DEF HandleLowPriority, x
<1>10. Is(h)
  <2> HIDE DEF Is
  <2> QED BY <1>8
<1> HIDE DEF h
<1>11. h[0] = x /\ \A n \in 1 .. Budget : h[n] = IF h[n - 1].low = NULL THEN h[n - 1] ELSE Requeue(h[n - 1])
  <2>1. \A n \in 0 .. Budget : h[n] = Step(h, n)
    BY <1>10
  <2> HIDE DEF Is
  <2>2. 0 \in 0 .. Budget /\ \A n \in 1 .. Budget : n \in 0 .. Budget /\ n # 0
    BY <1>0
  <2> QED BY <2>1, <2>2
<1>12. \A n \in 0 .. Budget : h[n] \in G[n]
  <2> DEFINE Bad == {n \in 0 .. Budget : h[n] \notin G[n]}
  <2> SUFFICES ASSUME Bad # {} PROVE FALSE
    OBVIOUS
  <2>1. PICK n \in Bad : \A e \in Bad : n <= e
    <3> Bad \in SUBSET Nat
      BY <1>0
    <3> HIDE DEF Bad
    <3> QED BY LeastNatural
  <2>2. n \in 0 .. Budget /\ h[n] \notin G[n]
    BY <2>1
  <2>3. n # 0
    BY <1>4, <1>11, <2>2
  <2>4. n \in 1 .. Budget /\ n - 1 \in 0 .. Budget
    BY <1>0, <2>2, <2>3
  <2>5. n - 1 \notin Bad
    <3> SUFFICES ASSUME n - 1 \in Bad PROVE FALSE
      OBVIOUS
    <3>1. n <= n - 1
      BY <2>1
    <3> QED BY <2>4, <3>1
  <2>6. h[n - 1] \in G[n - 1]
    BY <2>4, <2>5
  <2>7. h[n - 1] \in Memory
    BY <1>4, <2>4, <2>6
  <2>8. h[n] = f[h[n - 1]]
    BY <1>11, <2>4, <2>7
  <2> HIDE DEF G, f
  <2> QED BY <1>3, <2>2, <2>4, <2>6, <2>8
<1>13. h[Budget] \in G[Budget] /\ Budget \in 0 .. Budget
  BY <1>0, <1>12
<1> QED BY <1>9, <1>13

\* The sockets of a list.
LEMMA ListMembers ==
  ASSUME NEW m \in Memory, NEW b \in Nat, NEW r \in Ranking(b), Threads(m, Placed(m), r),
         NEW v \in Lists, NEW p, p = First(m, v)
  PROVE  /\ Elements(Chain(m, p)) = At(Placed(m), v)
         /\ \A s : s \in At(Placed(m), v) <=> s \in Sockets /\ Place(m.sock[s]) = v
<1> DEFINE w == Placed(m)
<1>1. w \in Placing /\ \A s \in Sockets : w[s] = Place(m.sock[s])
  BY PlacedType
<1> HIDE DEF w
<1>2. Threads(m, w, r)
  BY DEF w
<1>3. Elements(Chain(m, p)) = At(w, v)
  BY <1>1, <1>2, WholeList
<1>4. \A s : s \in At(w, v) <=> s \in Sockets /\ Place(m.sock[s]) = v
  BY <1>1 DEF At
<1> QED BY <1>3, <1>4 DEF w

\* The memory when the closed sockets are freed.
Freed(m, n) ==
  /\ n \in Memory
  /\ n.head = m.head /\ n.listen = m.listen /\ n.iterator = m.iterator /\ n.tick = m.tick
  /\ n.low = m.low /\ n.budget = m.budget /\ n.closed = NULL
  /\ \A t \in Sockets : n.sock[t] = IF Place(m.sock[t]) = Closed THEN PollFree(m.sock[t]) ELSE m.sock[t]

\* us_poll_free frees the memory if the handle was closed and waits for it otherwise.
LEMMA PollFreeType ==
  ASSUME NEW k \in Socket
  PROVE  /\ PollFree(k) \in Socket /\ PollFree(k).kind = "dead" /\ PollFree(k).late = k.late
         /\ PollFree(k).reads = k.reads /\ ShortAs(k, PollFree(k)) /\ LongAs(k, PollFree(k))
         /\ PollFree(k).handle = IF k.handle = "stopping" THEN "freeing" ELSE "leaked"
<1>1. 1 \in Contexts /\ NULL \in Pointer
  BY SocketLoopAssumption DEF Contexts, Pointer
<1> QED BY <1>1 DEF PollFree, Socket, ShortAs, LongAs

\* us_internal_free_closed_sockets empties the list of closed sockets and marks all of them
\* dead.
LEMMA FreeClosedIs ==
  ASSUME NEW m \in Memory, NEW b \in Nat, NEW r \in Ranking(b), Threads(m, Placed(m), r)
  PROVE  Freed(m, FreeClosed(m))
<1> DEFINE freed == {Chain(m, m.closed)[i] : i \in DOMAIN Chain(m, m.closed)}
           g == [s \in Sockets |-> IF s \in freed THEN PollFree(m.sock[s]) ELSE m.sock[s]]
           n == [m EXCEPT !.sock = g, !.closed = NULL]
<1>1. Closed \in Lists /\ First(m, Closed) = m.closed
  BY DEF Lists, First
<1>2. \A s : s \in freed <=> s \in Sockets /\ Place(m.sock[s]) = Closed
  <2>1. freed = Elements(Chain(m, m.closed))
    BY DEF Elements
  <2> HIDE DEF freed
  <2> QED BY <1>1, <2>1, ListMembers
<1>3. FreeClosed(m) = n
  BY DEF FreeClosed, Memory
<1> HIDE DEF freed
<1>4. g \in [Sockets -> Socket]
  BY SocketType, PollFreeType
<1>5. \A t \in Sockets : g[t] = IF Place(m.sock[t]) = Closed THEN PollFree(m.sock[t]) ELSE m.sock[t]
  BY <1>2
<1> HIDE DEF g
<1>6. NULL \in Pointer
  BY DEF Pointer
<1>7. /\ n \in Memory /\ n.sock = g /\ n.head = m.head /\ n.listen = m.listen /\ n.iterator = m.iterator /\ n.tick = m.tick
      /\ n.low = m.low /\ n.budget = m.budget /\ n.closed = NULL
  BY <1>4, <1>6 DEF Memory
<1> QED BY <1>3, <1>5, <1>7 DEF Freed

\* Freeing the closed sockets leaves every other list as it is.
LEMMA FreedThreads ==
  ASSUME NEW m \in Memory, NEW r, Threads(m, Placed(m), r), NEW n, Freed(m, n)
  PROVE  Threads(n, Placed(n), r)
<1> DEFINE w == Placed(m)
           w1 == Placed(n)
<1>1. w \in Placing /\ \A t \in Sockets : w[t] = Place(m.sock[t]) /\ m.sock[t] \in Socket
  BY PlacedType
<1>2. \A t \in Sockets : Place(m.sock[t]) = Closed => Place(n.sock[t]) = Out
  <2> SUFFICES ASSUME NEW t \in Sockets, Place(m.sock[t]) = Closed PROVE Place(n.sock[t]) = Out
    OBVIOUS
  <2>1. n.sock[t] = PollFree(m.sock[t]) /\ m.sock[t] \in Socket
    BY <1>1 DEF Freed
  <2>2. n.sock[t].kind = "dead"
    BY <2>1, PollFreeType
  <2> QED BY <2>2 DEF Place
<1>3. \A t \in Sockets : w[t] = Closed => w1[t] = Out
  BY <1>1, <1>2 DEF Placed
<1>4. \A t \in Sockets : w[t] # Closed => w1[t] = w[t] /\ n.sock[t] = m.sock[t]
  BY <1>1 DEF Placed, Freed
<1>5. First(n, Closed) = NULL /\ \A u \in Lists : u # Closed => First(n, u) = First(m, u)
  BY DEF Freed, First
<1>6. Out \notin Lists /\ Closed \notin Doubly /\ Doubly \subseteq Lists /\ Closed \in Lists
  BY ListsDiffer
<1> HIDE DEF w, w1
<1>0. Threads(m, w, r)
  BY DEF w
<1>7. \A t \in Sockets : w1[t] \in Lists => w[t] = w1[t] /\ w[t] # Closed /\ n.sock[t] = m.sock[t]
  BY <1>3, <1>4, <1>6
<1>8. \A t \in Sockets : w[t] \in Lists /\ w[t] # Closed => w1[t] = w[t]
  BY <1>4
<1>9. \A s \in Sockets : w1[s] \in Lists /\ n.sock[s].next # NULL =>
        /\ n.sock[s].next \in Sockets
        /\ w1[n.sock[s].next] = w1[s]
        /\ r[n.sock[s].next] < r[s]
        /\ w1[s] \in Doubly => n.sock[n.sock[s].next].prev = s
  BY <1>0, <1>6, <1>7, <1>8, <1>4 DEF Threads
<1>10. \A s \in Sockets : w1[s] \in Doubly /\ n.sock[s].prev # NULL =>
        /\ n.sock[s].prev \in Sockets
        /\ w1[n.sock[s].prev] = w1[s]
        /\ n.sock[n.sock[s].prev].next = s
  BY <1>0, <1>6, <1>7, <1>8, <1>4 DEF Threads
<1>11. \A v \in Lists : First(n, v) # NULL =>
        /\ First(n, v) \in Sockets
        /\ w1[First(n, v)] = v
        /\ v \in Doubly => n.sock[First(n, v)].prev = NULL
  BY <1>0, <1>4, <1>5, <1>6, <1>8 DEF Threads
<1>12. \A s \in Sockets : w1[s] \in Doubly /\ n.sock[s].prev = NULL => First(n, w1[s]) = s
  BY <1>0, <1>5, <1>6, <1>7 DEF Threads
<1>13. \A s \in Sockets : w1[s] \in Lists => First(n, w1[s]) # NULL /\ r[s] <= r[First(n, w1[s])]
  BY <1>0, <1>5, <1>6, <1>7 DEF Threads
<1>14. \A s, t \in Sockets : w1[s] \in Lists /\ w1[t] = w1[s] /\ r[t] < r[s] =>
        n.sock[s].next # NULL /\ r[t] <= r[n.sock[s].next]
  BY <1>0, <1>6, <1>7 DEF Threads
<1>15. \A s, t \in Sockets : w1[s] \in Lists /\ w1[t] = w1[s] /\ r[t] = r[s] => t = s
  BY <1>0, <1>6, <1>7 DEF Threads
<1>16. Threads(n, w1, r)
  BY <1>9, <1>10, <1>11, <1>12, <1>13, <1>14, <1>15 DEF Threads
<1> QED BY <1>16 DEF w1

\* The check callback frees the closed sockets.
LEMMA FreeClosedSound ==
  ASSUME NEW m, NEW ph, NEW a, NEW pa, NEW ti, Sound(m, ph, a, pa, ti), ph \notin Handlers
  PROVE  Sound(FreeClosed(m), "immediates", a, pa, ti)
<1> DEFINE n == FreeClosed(m)
<1>0. m \in Memory /\ Walked(m, ph, a) /\ Records(m, ph, pa, ti)
  BY DEF Sound
<1>1. PICK b \in Nat : \E r \in Ranking(b) : Threads(m, Placed(m), r) /\ Walk(m, ph, a, r)
  BY <1>0 DEF Walked
<1>2. PICK r \in Ranking(b) : Threads(m, Placed(m), r) /\ Walk(m, ph, a, r)
  BY <1>1
<1>3. Freed(m, n)
  BY <1>0, <1>2, FreeClosedIs
<1> HIDE DEF n
<1>4. n \in Memory /\ n.iterator = m.iterator /\ n.tick = m.tick
  BY <1>3 DEF Freed
<1>5. Threads(n, Placed(n), r)
  BY <1>0, <1>2, <1>3, FreedThreads
<1>6. Walk(m, "immediates", a, r) /\ \A c \in Contexts : m.iterator[c] = NULL
  BY <1>2, WalkIdle DEF Handlers
<1>7. CursorIn(n, "immediates", a)
  BY <1>4, <1>6 DEF CursorIn, Handlers
<1>8. \A t \in Sockets : m.sock[t] \in Socket
  BY <1>0, SocketType
<1>9. ASSUME NEW t \in Sockets PROVE Coming(n, "immediates", a, r, t)
  <2>1. CASE Place(m.sock[t]) = Closed
    <3>1. n.sock[t].kind = "dead"
      BY <1>3, <1>8, <2>1, PollFreeType DEF Freed
    <3> QED BY <3>1 DEF Coming
  <2>2. CASE Place(m.sock[t]) # Closed
    <3>1. n.sock[t] = m.sock[t] /\ Coming(m, "immediates", a, r, t)
      BY <1>3, <1>6, <2>2 DEF Freed, Walk
    <3>2. Alive(n, t) <=> Alive(m, t)
      BY <3>1 DEF Alive, IsClosed
    <3> QED BY <1>4, <3>1, <3>2 DEF Coming, ShortComing, LongComing, Ahead, Handlers
  <2> QED BY <2>1, <2>2
<1>10. ASSUME NEW t \in Sockets
       PROVE  RecordSound(n.sock[t]) /\ RecordFits(n.sock[t], t, "immediates", pa, ti)
  <2> DEFINE j == m.sock[t]
             k == n.sock[t]
  <2>1. RecordSound(j) /\ RecordFits(j, t, ph, pa, ti) /\ j \in Socket
    BY <1>0, <1>8 DEF Records
  <2>2. CASE Place(j) = Closed
    <3>1. j.kind \in {"socket", "listen"} /\ j.prev = j.ctx
      BY <1>0, <2>2, PlaceAlive
    <3>2. k.kind = "dead" /\ k.late = j.late /\ k.reads = j.reads /\ k.handle = IF j.handle = "stopping" THEN "freeing" ELSE "leaked"
      BY <1>3, <2>1, <2>2, PollFreeType DEF Freed
    <3>3. ShortAs(j, k) /\ LongAs(j, k)
      BY <1>3, <2>1, <2>2, PollFreeType DEF Freed
    <3> HIDE DEF j, k
    <3>4. InTime(k)
      BY <2>1, <3>3, TimesKept DEF RecordSound
    <3>5. RecordSound(k) /\ RecordFits(k, t, "immediates", pa, ti)
      BY <2>1, <3>1, <3>2, <3>4 DEF RecordSound, RecordFits
    <3> QED BY <3>5 DEF k
  <2>3. CASE Place(j) # Closed
    <3>1. k = j /\ ~(j.kind \in {"socket", "listen"} /\ j.prev = j.ctx) /\ j.kind \in {"free", "socket", "listen", "dead"}
      BY <1>0, <1>3, <2>1, <2>3, PlaceAlive DEF Freed, Socket
    <3> HIDE DEF j, k
    <3>2. RecordSound(k) /\ RecordFits(k, t, "immediates", pa, ti)
      BY <2>1, <3>1 DEF RecordSound, RecordFits
    <3> QED BY <3>2 DEF k
  <2> QED BY <2>2, <2>3
<1>11. Walked(n, "immediates", a)
  BY <1>5, <1>7, <1>9 DEF Walked, Walk
<1>12. Records(n, "immediates", pa, ti)
  BY <1>10 DEF Records
<1>13. Swept("immediates", a)
  BY DEF Swept, Handlers
<1> QED BY <1>4, <1>11, <1>12, <1>13 DEF Sound, n

\* The record of a socket after the close callbacks.
Called(k) ==
  CASE k.handle = "freeing"  -> Blank
    [] k.handle = "stopping" -> [k EXCEPT !.handle = "stopped"]
    [] OTHER -> k

\* A close callback of libuv changes the record of a socket in no list only by its handle.
LEMMA CalledType ==
  ASSUME NEW j \in Socket, RecordSound(j), NEW s, NEW pa, NEW ti, RecordFits(j, s, "immediates", pa, ti),
         NEW k, k = Called(j)
  PROVE  /\ k \in Socket /\ Place(k) = Place(j) /\ RecordSound(k) /\ RecordFits(k, s, "timers", pa, ti)
         /\ Place(j) # Out => k.next = j.next /\ k.prev = j.prev /\ k.kind = j.kind /\ k.ctx = j.ctx
         /\ Place(j) \in Doubly => k = j
<1>0. j.kind \in {"free", "socket", "listen", "dead"} /\ j.handle \in {"none", "active", "stopping", "stopped", "freeing", "leaked"}
  BY DEF Socket
<1>1. CASE j.handle = "freeing"
  <2>1. k = Blank
    BY <1>1 DEF Called
  <2>2. j.kind \in {"free", "dead"}
    BY <1>0, <1>1 DEF RecordSound
  <2>3. Place(j) = Out
    BY <2>2 DEF Place
  <2>4. /\ Blank \in Socket /\ Blank.kind = "free" /\ Blank.handle = "none" /\ Blank.reads = FALSE
        /\ Blank.timeout = None /\ Blank.long = None
    <3>1. 1 \in Contexts /\ NULL \in Pointer /\ None \in 0 .. Modulus
      BY SocketLoopAssumption DEF Contexts, Pointer, None
    <3>2. Blank.missed = {} /\ {} \in SUBSET {"short", "long"}
      BY DEF Blank
    <3> QED BY <3>1, <3>2 DEF Blank, Socket
  <2>5. Place(k) = Out
    BY <2>1, <2>4 DEF Place
  <2>6. k.kind = "free" /\ k.handle = "none" /\ k.reads = FALSE /\ k \in Socket /\ InTime(k)
    BY <2>1, <2>4, NoTimes
  <2>7. RecordSound(k) /\ RecordFits(k, s, "timers", pa, ti)
    BY <2>6 DEF RecordSound, RecordFits
  <2> QED BY <2>3, <2>5, <2>6, <2>7, ListsDiffer
<1>2. CASE j.handle = "stopping"
  <2>1. k = [j EXCEPT !.handle = "stopped"]
    BY <1>2 DEF Called
  <2>2. /\ k \in Socket /\ k.next = j.next /\ k.prev = j.prev /\ k.kind = j.kind /\ k.ctx = j.ctx /\ k.low = j.low
        /\ k.reads = j.reads /\ k.late = j.late /\ k.handle = "stopped" /\ ShortAs(j, k) /\ LongAs(j, k)
    BY <2>1 DEF Socket, ShortAs, LongAs
  <2>3. j.kind \in {"socket", "listen"} /\ j.prev = j.ctx /\ ~j.reads /\ j.late
    BY <1>0, <1>2 DEF RecordSound, RecordFits
  <2>4. Place(j) = Closed /\ Place(k) = Closed
    BY <2>2, <2>3 DEF Place
  <2>5. InTime(k)
    BY <2>2, TimesKept DEF RecordSound
  <2>6. RecordSound(k) /\ RecordFits(k, s, "timers", pa, ti)
    BY <2>2, <2>3, <2>5 DEF RecordSound, RecordFits
  <2> QED BY <2>2, <2>4, <2>6, ListsDiffer
<1>3. CASE j.handle # "freeing" /\ j.handle # "stopping"
  <2>1. k = j
    BY <1>3 DEF Called
  <2>2. RecordFits(j, s, "timers", pa, ti)
    BY DEF RecordFits
  <2> QED BY <2>1, <2>2
<1> QED BY <1>1, <1>2, <1>3

\* libuv calls the close callbacks.
LEMMA CallbacksSound ==
  ASSUME NEW m, NEW a, NEW pa, NEW ti, Sound(m, "immediates", a, pa, ti),
         NEW n, n = [m EXCEPT !.sock = [s \in Sockets |-> Called(@[s])]]
  PROVE  Sound(n, "timers", a, pa, ti)
<1> DEFINE g == [s \in Sockets |-> Called(m.sock[s])]
<1>0. m \in Memory /\ Records(m, "immediates", pa, ti)
  BY DEF Sound
<1>1. \A t \in Sockets : g[t] = Called(m.sock[t])
  OBVIOUS
<1>2. ASSUME NEW t \in Sockets
      PROVE  LET j == m.sock[t]
                 k == g[t]
             IN  /\ k \in Socket /\ Place(k) = Place(j) /\ RecordSound(k) /\ RecordFits(k, t, "timers", pa, ti)
                 /\ Place(j) # Out => k.next = j.next /\ k.prev = j.prev /\ k.kind = j.kind /\ k.ctx = j.ctx
                 /\ Place(j) \in Doubly => k = j
  <2> DEFINE j == m.sock[t]
             k == g[t]
  <2>1. k = Called(j)
    OBVIOUS
  <2>2. j \in Socket /\ RecordSound(j) /\ RecordFits(j, t, "immediates", pa, ti)
    BY <1>0, SocketType DEF Records
  <2> HIDE DEF j, k
  <2>3. /\ k \in Socket /\ Place(k) = Place(j) /\ RecordSound(k) /\ RecordFits(k, t, "timers", pa, ti)
        /\ Place(j) # Out => k.next = j.next /\ k.prev = j.prev /\ k.kind = j.kind /\ k.ctx = j.ctx
        /\ Place(j) \in Doubly => k = j
    BY <2>1, <2>2, CalledType
  <2> QED BY <2>3 DEF j, k
<1>3. n = [m EXCEPT !.sock = g]
  BY <1>0 DEF Memory
<1>4. DOMAIN g = Sockets /\ g = [s \in Sockets |-> g[s]]
  OBVIOUS
<1> HIDE DEF g
<1>5. g \in [Sockets -> Socket]
  BY <1>2, <1>4
<1>6. /\ n \in Memory /\ n.sock = g /\ n.head = m.head /\ n.listen = m.listen /\ n.iterator = m.iterator /\ n.tick = m.tick
      /\ n.low = m.low /\ n.budget = m.budget /\ n.closed = m.closed
  BY <1>0, <1>3, <1>5 DEF Memory
<1>7. Stayed(m, n)
  BY <1>2, <1>6 DEF Stayed, First
<1>8. \A t \in Sockets : Place(m.sock[t]) \in Doubly => Timed(m, n, t)
  BY <1>2, <1>6 DEF Timed, ShortAs, LongAs
<1>9. Records(n, "timers", pa, ti)
  BY <1>2, <1>6 DEF Records
<1>10. "immediates" \notin Handlers /\ "timers" \notin Handlers /\ "timers" # "sweep"
  BY DEF Handlers
<1> QED BY <1>6, <1>7, <1>8, <1>9, <1>10, StayedSound

\* The sockets R are resumed.
ResumedIn(k, s, R) == IF s \in R THEN [k EXCEPT !.reads = TRUE] ELSE k

\* From j to k the poll for reading changes at most.
OnlyReads(j, k) ==
  /\ k \in Socket /\ k.next = j.next /\ k.prev = j.prev /\ k.kind = j.kind /\ k.ctx = j.ctx /\ k.low = j.low
  /\ k.shaking = j.shaking /\ k.late = j.late /\ k.handle = j.handle /\ ShortAs(j, k) /\ LongAs(j, k)

\* The accept timer changes nothing but the polling of what it resumes.
LEMMA ResumedType ==
  ASSUME NEW j \in Socket, NEW s, NEW R, NEW k, k = ResumedIn(j, s, R)
  PROVE  /\ OnlyReads(j, k)
         /\ (s \in R => k.reads = TRUE) /\ (s \notin R => k = j)
<1>1. CASE s \in R
  <2>1. k = [j EXCEPT !.reads = TRUE] /\ TRUE \in BOOLEAN
    BY <1>1 DEF ResumedIn
  <2>2. /\ k \in Socket /\ k.next = j.next /\ k.prev = j.prev /\ k.kind = j.kind /\ k.ctx = j.ctx /\ k.low = j.low
        /\ k.shaking = j.shaking /\ k.late = j.late /\ k.handle = j.handle /\ k.reads = TRUE
        /\ k.timeout = j.timeout /\ k.wait = j.wait /\ k.long = j.long /\ k.longWait = j.longWait /\ k.missed = j.missed
    BY <2>1 DEF Socket
  <2> QED BY <1>1, <2>2 DEF ShortAs, LongAs, OnlyReads
<1>2. CASE s \notin R
  <2>1. k = j
    BY <1>2 DEF ResumedIn
  <2> QED BY <1>2, <2>1 DEF ShortAs, LongAs, OnlyReads
<1> QED BY <1>1, <1>2

\* The open listen sockets among the paused ones, and the memory when they are resumed.
Resumable(m, pa, R) ==
  /\ R \in SUBSET Sockets
  /\ \A s \in Sockets : s \in R => m.sock[s].kind = "listen" /\ Alive(m, s)
  /\ \A s \in Sockets : m.sock[s].kind = "listen" /\ Alive(m, s) /\ (\E i \in DOMAIN pa : pa[i] = s) => s \in R

Resumed(m, R) == [m EXCEPT !.sock = [s \in Sockets |-> ResumedIn(@[s], s, R)]]

\* The accept timer resumes the paused listen sockets that are open.
LEMMA ResumeSound ==
  ASSUME NEW m, NEW ph, NEW a, NEW pa, NEW ti, Sound(m, ph, a, pa, ti), ph \notin Handlers, NEW R,
         Resumable(m, pa, R), NEW n, n = Resumed(m, R)
  PROVE  Sound(n, ph, a, <<>>, FALSE)
<1> DEFINE g == [s \in Sockets |-> ResumedIn(m.sock[s], s, R)]
<1>0. m \in Memory /\ Records(m, ph, pa, ti)
  BY DEF Sound
<1>1. ASSUME NEW t \in Sockets
      PROVE  LET j == m.sock[t]
                 k == g[t]
             IN  /\ k \in Socket /\ k.next = j.next /\ k.prev = j.prev /\ k.kind = j.kind /\ k.ctx = j.ctx
                 /\ Place(k) = Place(j) /\ ShortAs(j, k) /\ LongAs(j, k)
                 /\ RecordSound(k) /\ RecordFits(k, t, ph, <<>>, FALSE)
  <2> DEFINE j == m.sock[t]
             k == g[t]
  <2>1. k = ResumedIn(j, t, R) /\ j \in Socket /\ RecordSound(j) /\ RecordFits(j, t, ph, pa, ti)
    BY <1>0, SocketType DEF Records
  <2>2. t \in R => j.kind = "listen" /\ j.prev # j.ctx
    BY DEF Resumable, Alive, IsClosed
  <2>3. j.kind = "listen" /\ j.prev # j.ctx /\ (\E i \in DOMAIN pa : pa[i] = t) => t \in R
    BY DEF Resumable, Alive, IsClosed
  <2> HIDE DEF j, k
  <2>0. OnlyReads(j, k) /\ (t \in R => k.reads = TRUE) /\ (t \notin R => k = j)
    BY <2>1, ResumedType
  <2>4. /\ k \in Socket /\ k.next = j.next /\ k.prev = j.prev /\ k.kind = j.kind /\ k.ctx = j.ctx /\ k.low = j.low
        /\ k.shaking = j.shaking /\ k.late = j.late /\ k.handle = j.handle /\ ShortAs(j, k) /\ LongAs(j, k)
        /\ (t \in R => k.reads = TRUE) /\ (t \notin R => k = j)
    BY <2>0 DEF OnlyReads
  <2>5. Place(k) = Place(j)
    BY <2>4 DEF Place
  <2>6. RecordSound(k)
    <3>1. InTime(k)
      BY <2>1, <2>4, TimesKept DEF RecordSound
    <3> QED BY <2>1, <2>2, <2>4, <3>1 DEF RecordSound
  <2>7. RecordFits(k, t, ph, <<>>, FALSE)
    BY <2>1, <2>2, <2>3, <2>4 DEF RecordFits
  <2> QED BY <2>4, <2>5, <2>6, <2>7 DEF j, k
<1>2. n = [m EXCEPT !.sock = g]
  BY <1>0 DEF Memory, Resumed
<1>3. DOMAIN g = Sockets /\ g = [s \in Sockets |-> g[s]]
  OBVIOUS
<1> HIDE DEF g
<1>4. g \in [Sockets -> Socket]
  BY <1>1, <1>3
<1>5. /\ n \in Memory /\ n.sock = g /\ n.head = m.head /\ n.listen = m.listen /\ n.iterator = m.iterator /\ n.tick = m.tick
      /\ n.low = m.low /\ n.budget = m.budget /\ n.closed = m.closed
  BY <1>0, <1>2, <1>4 DEF Memory
<1>6. Stayed(m, n)
  <2>1. \A u \in Lists : First(n, u) = First(m, u)
    BY <1>5 DEF First
  <2>2. \A t \in Sockets :
          /\ Place(n.sock[t]) = Place(m.sock[t])
          /\ n.sock[t].next = m.sock[t].next /\ n.sock[t].prev = m.sock[t].prev
          /\ n.sock[t].kind = m.sock[t].kind /\ n.sock[t].ctx = m.sock[t].ctx
    BY <1>1, <1>5
  <2> QED BY <1>5, <2>1, <2>2 DEF Stayed
<1>7. \A t \in Sockets : Place(m.sock[t]) \in Doubly => Timed(m, n, t)
  BY <1>1, <1>5 DEF Timed
<1>8. Records(n, ph, <<>>, FALSE)
  BY <1>1, <1>5 DEF Records
<1> QED BY <1>5, <1>6, <1>7, <1>8, StayedSound

-----------------------------------------------------------------------------
(* Adoption.                                                               *)

\* The memory that a socket leaves, and that to which it moves.
LeftRecord == [Blank EXCEPT !.kind = "dead", !.handle = "freeing"]
MovedRecord(j) == [j EXCEPT !.timeout = None, !.long = None, !.wait = 0, !.longWait = 0, !.missed = {}]

\* The records that adoption leaves behind and writes.
LEMMA MovedTypes ==
  ASSUME NEW j \in Socket, NEW k, k = MovedRecord(j)
  PROVE  /\ k \in Socket /\ k.prev = j.prev /\ k.kind = j.kind /\ k.ctx = j.ctx /\ k.low = j.low
         /\ k.reads = j.reads /\ k.shaking = j.shaking /\ k.late = j.late /\ k.handle = j.handle
         /\ k.timeout = None /\ k.long = None
         /\ LeftRecord \in Socket /\ LeftRecord.kind = "dead" /\ LeftRecord.handle = "freeing" /\ LeftRecord.reads = FALSE
         /\ LeftRecord.timeout = None /\ LeftRecord.long = None
<1>1. 1 \in Contexts /\ NULL \in Pointer /\ None \in 0 .. Modulus /\ 0 \in Nat
  BY SocketLoopAssumption DEF Contexts, Pointer, None
<1>2. Blank.missed = {} /\ {} \in SUBSET {"short", "long"}
  BY DEF Blank
<1>3. Blank \in Socket /\ Blank.reads = FALSE /\ Blank.timeout = None /\ Blank.long = None
  BY <1>1, <1>2 DEF Blank, Socket
<1>4. /\ LeftRecord \in Socket /\ LeftRecord.kind = "dead" /\ LeftRecord.handle = "freeing" /\ LeftRecord.reads = FALSE
      /\ LeftRecord.timeout = None /\ LeftRecord.long = None
  <2> DEFINE z == Blank
  <2>1. z \in Socket /\ z.reads = FALSE /\ z.timeout = None /\ z.long = None /\ LeftRecord = [z EXCEPT !.kind = "dead", !.handle = "freeing"]
    BY <1>3 DEF LeftRecord
  <2> HIDE DEF z
  <2> QED BY <2>1 DEF Socket
<1> DEFINE e == None
<1>5. e \in 0 .. Modulus /\ {} \in SUBSET {"short", "long"} /\ 0 \in Nat
  BY <1>1, <1>2
<1>6. k = [j EXCEPT !.timeout = e, !.long = e, !.wait = 0, !.longWait = 0, !.missed = {}]
  BY DEF MovedRecord
<1> HIDE DEF e
<1>7. /\ k \in Socket /\ k.prev = j.prev /\ k.kind = j.kind /\ k.ctx = j.ctx /\ k.low = j.low
      /\ k.reads = j.reads /\ k.shaking = j.shaking /\ k.late = j.late /\ k.handle = j.handle
      /\ k.timeout = e /\ k.long = e
  <2>1. k \in Socket
    <3> DEFINE j1 == [j EXCEPT !.timeout = e, !.long = e]
               j2 == [j1 EXCEPT !.wait = 0, !.longWait = 0]
    <3>1. j1 \in Socket
      BY <1>5 DEF Socket
    <3>2. k = [j2 EXCEPT !.missed = {}]
      BY <1>6
    <3> HIDE DEF j1
    <3>3. j2 \in Socket
      BY <1>5, <3>1 DEF Socket
    <3> HIDE DEF j2
    <3> QED BY <1>5, <3>2, <3>3 DEF Socket
  <2>2. /\ k.prev = j.prev /\ k.kind = j.kind /\ k.ctx = j.ctx /\ k.low = j.low
        /\ k.reads = j.reads /\ k.shaking = j.shaking /\ k.late = j.late /\ k.handle = j.handle
    BY <1>6 DEF Socket
  <2>3. k.timeout = e /\ k.long = e
    BY <1>6 DEF Socket
  <2> QED BY <2>1, <2>2, <2>3
<1> QED BY <1>4, <1>7 DEF e

\* What is left of the record of a socket in the memory to which it moved.
AdoptedAs(j, k, c) ==
  /\ k.kind = j.kind /\ k.ctx = c /\ k.prev = NULL /\ k.low = j.low /\ k.reads = j.reads /\ k.shaking = j.shaking
  /\ k.late = j.late /\ k.handle = j.handle /\ k.timeout = None /\ k.long = None

\* The record of an adopted socket in its new context.
LEMMA AdoptedType ==
  ASSUME NEW j \in Socket, NEW c \in Contexts, NEW q \in Pointer
  PROVE  AdoptedAs(j, Front(MovedRecord(j), c, q), c)
<1> DEFINE i == MovedRecord(j)
<1>1. /\ i \in Socket /\ i.kind = j.kind /\ i.low = j.low
      /\ i.reads = j.reads /\ i.shaking = j.shaking /\ i.late = j.late /\ i.handle = j.handle
      /\ i.timeout = None /\ i.long = None
  BY MovedTypes
<1> HIDE DEF i
<1> DEFINE k == Front(i, c, q)
<1>2. /\ k.prev = NULL /\ k.ctx = c /\ k.kind = i.kind /\ k.low = i.low
      /\ k.reads = i.reads /\ k.shaking = i.shaking /\ k.timeout = i.timeout /\ k.long = i.long
      /\ k.late = i.late /\ k.handle = i.handle
  BY <1>1, FrontType
<1> HIDE DEF k
<1>3. AdoptedAs(j, k, c)
  BY <1>1, <1>2 DEF AdoptedAs
<1> QED BY <1>3 DEF k, i

\* All sockets but s and u.
Others(s, u) == Sockets \ {s, u}

\* s moves to the memory u.
MovedTo(m, n, s, u) ==
  /\ n \in Memory
  /\ n.sock[u] = MovedRecord(m.sock[s]) /\ n.sock[s] = LeftRecord
  /\ \A t \in Others(s, u) : n.sock[t] = m.sock[t]
  /\ n.iterator = m.iterator /\ n.tick = m.tick /\ n.budget = m.budget
  /\ \A v \in Lists : First(n, v) = First(m, v)

\* Reallocation moves the record of s to u and leaves s dead.
LEMMA MovedIs ==
  ASSUME NEW m \in Memory, NEW s \in Sockets, NEW u \in Sockets, u # s
  PROVE  MovedTo(m, Moved(m, s, u), s, u)
<1> DEFINE j == m.sock[s]
           k == MovedRecord(j)
           e == LeftRecord
           m1 == [m EXCEPT !.sock[u] = k]
           n == [m1 EXCEPT !.sock[s] = e]
<1>1. k \in Socket /\ e \in Socket
  BY SocketType, MovedTypes
<1>2. Moved(m, s, u) = n
  BY DEF Moved, MovedRecord, LeftRecord
<1> HIDE DEF k, e
<1>3. SockSet(m, m1, u, k)
  BY <1>1, SetSockIs
<1> HIDE DEF m1
<1>4. SockSet(m1, n, s, e)
  BY <1>1, <1>3, SetSockIs DEF SockSet
<1> HIDE DEF n
<1>5. /\ n.sock[u] = k /\ n.sock[s] = e /\ \A t \in Others(s, u) : n.sock[t] = m.sock[t]
  BY <1>3, <1>4 DEF SockSet, Memory, Others
<1>6. n \in Memory /\ RestKept(m, m1) /\ RestKept(m1, n)
  BY <1>3, <1>4 DEF SockSet
<1>7. \A v \in Lists : First(n, v) = First(m, v)
  BY <1>6 DEF RestKept, First
<1>8. n.iterator = m.iterator /\ n.tick = m.tick /\ n.budget = m.budget
  BY <1>6 DEF RestKept
<1> QED BY <1>2, <1>5, <1>6, <1>7, <1>8 DEF MovedTo, k, e

\* From m to n, s moves to the memory u and is linked to context c.
Adopts(m, n, r, s, u, c) ==
  /\ n \in Memory
  /\ n.tick = m.tick
  /\ Alike(LeftRecord, n.sock[s])
  /\ AdoptedAs(m.sock[s], n.sock[u], c)
  /\ \A t \in Others(s, u) : Alike(m.sock[t], n.sock[t])
  /\ CursorMoves(m, n, s)
  /\ \E b \in Nat : \E z \in Ranking(b) : Threads(n, Placed(n), z) /\ \A t \in Others(s, u) : z[t] = r[t]

\* us_socket_context_adopt_socket takes the socket out of one list and pushes its new
\* address in front of another (context.c:368-400).
LEMMA AdoptShifts ==
  ASSUME NEW m \in Memory, NEW b \in Nat, NEW r \in Ranking(b), Threads(m, Placed(m), r),
         NEW s \in Sockets, m.sock[s].kind = "socket", Alive(m, s), m.sock[s].low # 1,
         NEW u \in Sockets, m.sock[u].kind = "free", NEW c \in Contexts,
         NEW n, n = Link(Moved(Unlink(m, s), s, u), c, u)
  PROVE  Adopts(m, n, r, s, u, c)
<1> DEFINE w == Placed(m)
           j == m.sock[s]
           m1 == Unlink(m, s)
           w1 == [w EXCEPT ![s] = Out]
           m2 == Moved(m1, s, u)
           v == <<"head", c>>
           w2 == [w1 EXCEPT ![u] = v]
           k == Front(MovedRecord(j), c, First(m2, v))
<1>1. /\ w \in Placing /\ w[s] = Own(j) /\ w[s] \in Doubly /\ Own(j) # Queue /\ j \in Socket
      /\ Place(j) # Queue /\ w[u] = Out /\ u # s
  <2>1. Place(j) = Own(j) /\ Place(j) \in Doubly
    BY PlaceAlive
  <2>2. Own(j) # Queue
    BY DEF Own, Queue, ListOf
  <2>3. Place(m.sock[u]) = Out
    BY DEF Place
  <2> QED BY <2>1, <2>2, <2>3, PlacedType
<1>2. v \in Lists /\ v \in Doubly
  BY DEF Lists, Doubly, Heads
<1> HIDE DEF w, v
<1>3. /\ Unlinked(m, m1, w, s, j)
      /\ m1.iterator = [m.iterator EXCEPT ![j.ctx] = IF @ = s THEN j.next ELSE @]
  BY <1>1, UnlinkIs DEF w
<1> HIDE DEF m1
<1>4. m1 \in Memory /\ Removed(m, m1, w, s) /\ OthersAlike(m, m1, s) /\ m1.sock[s] = j /\ m1.tick = m.tick
  BY <1>3 DEF Unlinked
<1>5. w1 \in Placing /\ Threads(m1, w1, r)
  BY <1>1, <1>4, ThreadsRemoved DEF w
<1>6. w1[s] = Out /\ w1[u] = Out /\ \A t \in Others(s, u) : w1[t] = w[t]
  BY <1>1 DEF Placing, Others
<1>7. MovedTo(m1, m2, s, u)
  BY <1>1, <1>4, MovedIs
<1> HIDE DEF m2, w1
<1>8. m2 \in Memory /\ Kept(m1, m2, w1)
  <2>1. Out \notin Lists
    BY ListsDiffer
  <2>2. \A t \in Sockets : w1[t] \in Lists => m2.sock[t] = m1.sock[t]
    BY <1>6, <1>7, <2>1 DEF MovedTo, Others
  <2> QED BY <1>7, <2>2 DEF MovedTo, Kept
<1>9. Threads(m2, w1, r)
  BY <1>5, <1>8, ThreadsKept
<1>10. m2.sock[u] = MovedRecord(j) /\ m2.sock[s] = LeftRecord
  BY <1>4, <1>7 DEF MovedTo
<1>11. v = <<ListOf(m2.sock[u]), c>> /\ k = Front(m2.sock[u], c, First(m2, v))
  <2>1. m2.sock[u].kind = "socket"
    BY <1>1, <1>10, MovedTypes
  <2> QED BY <1>10, <2>1 DEF ListOf, v
<1>12. AdoptedAs(j, k, c)
  <2> DEFINE q == First(m2, v)
  <2>1. q \in Pointer
    BY <1>2, <1>8, FirstType
  <2> HIDE DEF q
  <2> QED BY <1>1, <2>1, AdoptedType DEF q
<1> HIDE DEF k
<1>13. Linked(m2, n, v, u, k)
  BY <1>5, <1>6, <1>8, <1>9, <1>11, LinkIs DEF m2, m1
<1>14. n \in Memory /\ Pushed(m2, n, v, u) /\ OthersAlike(m2, n, u) /\ n.sock[u] = k /\ n.iterator = m2.iterator /\ n.tick = m2.tick
  BY <1>13 DEF Linked
<1>15. KeptBut(n, w2, b + 1, r, u)
  BY <1>2, <1>5, <1>6, <1>9, <1>14, ThreadsPushed
<1>16. Alike(LeftRecord, n.sock[s])
  BY <1>1, <1>10, <1>14 DEF OthersAlike
<1>17. ASSUME NEW t \in Others(s, u) PROVE Alike(m.sock[t], n.sock[t])
  <2>1. Alike(m.sock[t], m1.sock[t]) /\ m2.sock[t] = m1.sock[t] /\ Alike(m2.sock[t], n.sock[t])
    BY <1>4, <1>7, <1>14, <1>17 DEF OthersAlike, MovedTo, Others
  <2> QED BY <2>1, AlikeTrans
<1>18. Placed(n) = w2
  <2>1. \A t \in Others(s, u) : Place(n.sock[t]) = w[t]
    <3> SUFFICES ASSUME NEW t \in Others(s, u) PROVE Place(n.sock[t]) = w[t]
      OBVIOUS
    <3>1. t \in Sockets /\ m.sock[t] \in Socket /\ n.sock[t] \in Socket /\ w[t] = Place(m.sock[t])
      BY <1>14, SocketType, PlacedType DEF Others, w
    <3> QED BY <1>17, <3>1, AlikePlace
  <2>2. Place(n.sock[s]) = Out
    <3>1. n.sock[s].kind = "dead"
      BY <1>1, <1>16, MovedTypes DEF Alike
    <3> QED BY <3>1 DEF Place
  <2>3. Place(n.sock[u]) = v
    BY <1>1, <1>12, <1>14, Constants DEF Place, AdoptedAs, v
  <2>4. w2 \in [Sockets -> Lists \cup {Out}] /\ \A t \in Sockets : w2[t] = Place(n.sock[t])
    BY <1>2, <1>5, <1>6, <2>1, <2>2, <2>3 DEF Placing, Others
  <2> HIDE DEF w2
  <2> QED BY <2>4 DEF Placed
<1> HIDE DEF w2
<1>19. \E d \in Nat : \E z \in Ranking(d) : Threads(n, Placed(n), z) /\ \A t \in Others(s, u) : z[t] = r[t]
  <2>1. b + 1 \in Nat
    OBVIOUS
  <2> DEFINE d == b + 1
  <2>2. d \in Nat /\ KeptBut(n, Placed(n), d, r, u)
    BY <1>15, <1>18
  <2> HIDE DEF d
  <2>3. PICK z \in Ranking(d) : Threads(n, Placed(n), z) /\ \A t \in Sockets \ {u} : z[t] = r[t]
    BY <2>2 DEF KeptBut
  <2>4. \A t \in Others(s, u) : z[t] = r[t]
    BY <2>3 DEF Others
  <2> QED BY <2>2, <2>3, <2>4
<1>20. CursorMoves(m, n, s)
  <2>1. m.iterator \in [Contexts -> Pointer] /\ j.ctx \in Contexts
    BY <1>1 DEF Memory, Socket
  <2>2. n.iterator = m1.iterator
    BY <1>7, <1>14 DEF MovedTo
  <2> QED BY <1>1, <1>3, <2>1, <2>2 DEF CursorMoves
<1>21. n.tick = m.tick
  BY <1>4, <1>7, <1>14 DEF MovedTo
<1> QED BY <1>12, <1>14, <1>16, <1>17, <1>19, <1>20, <1>21 DEF Adopts

\* A socket is adopted by another context.
LEMMA AdoptSound ==
  ASSUME NEW m, NEW ph, NEW a, NEW pa, NEW ti, Sound(m, ph, a, pa, ti),
         NEW s \in Sockets, m.sock[s].kind = "socket", Alive(m, s), ~m.sock[s].shaking,
         NEW u \in Sockets, m.sock[u].kind = "free", NEW c \in Contexts,
         NEW n, n = Link(Moved(Unlink(m, s), s, u), c, u)
  PROVE  Sound(n, ph, a, pa, ti)
<1> DEFINE j == m.sock[s]
           S == {s, u}
<1>0. m \in Memory /\ Walked(m, ph, a) /\ Records(m, ph, pa, ti) /\ Swept(ph, a)
  BY DEF Sound
<1>1. PICK b \in Nat : \E r \in Ranking(b) : Threads(m, Placed(m), r) /\ Walk(m, ph, a, r)
  BY <1>0 DEF Walked
<1>2. PICK r \in Ranking(b) : Threads(m, Placed(m), r) /\ Walk(m, ph, a, r)
  BY <1>1
<1>3. RecordSound(j) /\ RecordFits(j, s, ph, pa, ti) /\ j \in Socket /\ j.prev # j.ctx
  BY <1>0, SocketType DEF Records, Alive, IsClosed
<1>4. j.low # 1
  BY <1>3 DEF RecordSound
<1>5. Adopts(m, n, r, s, u, c)
  BY <1>0, <1>2, <1>4, AdoptShifts
<1>6. /\ n \in Memory /\ n.tick = m.tick /\ Alike(LeftRecord, n.sock[s]) /\ AdoptedAs(j, n.sock[u], c)
      /\ \A t \in Sockets \ S : Alike(m.sock[t], n.sock[t])
      /\ CursorMoves(m, n, s)
  BY <1>5 DEF Adopts, Others
<1>7. PICK b1 \in Nat : \E z \in Ranking(b1) : Threads(n, Placed(n), z) /\ \A t \in Sockets \ S : z[t] = r[t]
  BY <1>5 DEF Adopts, Others
<1>8. PICK z \in Ranking(b1) : Threads(n, Placed(n), z) /\ \A t \in Sockets \ S : z[t] = r[t]
  BY <1>7
<1>9. Place(m.sock[u]) = Out /\ Place(j) \in Doubly
  BY <1>0, PlaceAlive DEF Place
<1>10. \A d \in Contexts : m.iterator[d] # u
  <2> SUFFICES ASSUME NEW d \in Contexts, m.iterator[d] = u PROVE FALSE
    OBVIOUS
  <2>1. Place(m.sock[u]) = <<"head", d>>
    BY <1>2, Constants DEF Walk, CursorIn
  <2> QED BY <1>9, <2>1 DEF Out
<1>11. j.next # u
  <2> SUFFICES ASSUME j.next = u PROVE FALSE
    OBVIOUS
  <2>1. Placed(m)[s] = Place(j) /\ Placed(m)[u] = Out /\ Place(j) \in Lists /\ Out \notin Lists /\ u # NULL
    BY <1>0, <1>9, PlacedType, ListsDiffer, Constants
  <2>2. Placed(m)[j.next] = Placed(m)[s]
    BY <1>2, <2>1 DEF Threads
  <2> QED BY <2>1, <2>2
<1>12. CursorLeaves(m, n, S)
  <2>1. CursorLeaves(m, n, {s})
    BY <1>0, <1>2, <1>6, CursorMovesOn DEF Walk
  <2> SUFFICES ASSUME NEW d \in Contexts
               PROVE  \/ n.iterator[d] = m.iterator[d] /\ m.iterator[d] \notin S
                      \/ m.iterator[d] \in S /\ n.iterator[d] = m.sock[m.iterator[d]].next /\ n.iterator[d] \notin S
    BY DEF CursorLeaves
  <2>2. CASE n.iterator[d] = m.iterator[d] /\ m.iterator[d] # s
    BY <1>10, <2>2
  <2>3. CASE m.iterator[d] = s /\ n.iterator[d] = m.sock[s].next /\ n.iterator[d] # s
    BY <1>11, <2>3
  <2> QED BY <2>1, <2>2, <2>3 DEF CursorLeaves
<1>13. /\ n.sock[s].kind = "dead" /\ n.sock[s].handle = "freeing" /\ n.sock[s].reads = FALSE
       /\ n.sock[s].timeout = None /\ n.sock[s].long = None
  BY <1>3, <1>6, MovedTypes DEF Alike
<1>14. \A t \in S : Settled(n, t)
  BY <1>6, <1>13 DEF Settled, ShortSettled, LongSettled, AdoptedAs
<1>15. ph \in Handlers /\ a.sock \in S => n.sock[a.sock].kind = "dead" \/ Place(n.sock[a.sock]) = Closed
  <2>1. CASE a.sock = s
    BY <1>13, <2>1
  <2>2. ASSUME ph \in Handlers, a.sock = u PROVE FALSE
    <3>1. m.iterator[a.ctx] = u \/ m.sock[u].kind = "dead" \/ Place(m.sock[u]) = Closed
      BY <1>2, <2>2 DEF Walk, CursorIn
    <3>2. a.ctx \in Contexts
      BY <1>0, <2>2 DEF Swept
    <3> QED BY <1>9, <1>10, <3>1, <3>2 DEF Out, Closed
  <2> QED BY <2>1, <2>2
<1> S \in SUBSET Sockets
  OBVIOUS
<1> HIDE DEF S
<1>16. Walk(n, ph, a, z)
  BY <1>0, <1>2, <1>6, <1>8, <1>12, <1>14, <1>15, WalkShifts
<1>17. Records(n, ph, pa, ti)
  <2> SUFFICES ASSUME NEW t \in Sockets PROVE RecordSound(n.sock[t]) /\ RecordFits(n.sock[t], t, ph, pa, ti)
    BY DEF Records
  <2>1. CASE t = s
    <3>1. InTime(n.sock[s])
      BY <1>13, NoTimes
    <3> QED BY <1>13, <2>1, <3>1 DEF RecordSound, RecordFits
  <2>2. CASE t = u
    <3> DEFINE k == n.sock[u]
    <3>1. AdoptedAs(j, k, c) /\ NULL # c /\ j.kind = "socket"
      BY <1>6, Constants
    <3> HIDE DEF k, j
    <3>2. RecordSound(k)
      <4>1. InTime(k)
        BY <3>1, NoTimes DEF AdoptedAs
      <4> QED BY <1>3, <3>1, <4>1 DEF RecordSound, AdoptedAs
    <3>3. RecordFits(k, u, ph, pa, ti)
      BY <1>3, <3>1 DEF RecordSound, RecordFits, AdoptedAs
    <3> QED BY <2>2, <3>2, <3>3 DEF k
  <2>3. CASE t \notin {s, u}
    <3> DEFINE i == m.sock[t]
               k == n.sock[t]
    <3>1. i \in Socket /\ k \in Socket /\ Alike(i, k) /\ RecordSound(i) /\ RecordFits(i, t, ph, pa, ti)
      BY <1>0, <1>6, <2>3, SocketType DEF Records, S
    <3> HIDE DEF i, k
    <3>2. RecordSound(k) /\ RecordFits(k, t, ph, pa, ti)
      BY <3>1, AlikeSound
    <3> QED BY <3>2 DEF k
  <2> QED BY <2>1, <2>2, <2>3
<1> QED BY <1>0, <1>6, <1>8, <1>16, <1>17 DEF Sound, Walked

-----------------------------------------------------------------------------
(* The sweep.                                                              *)

\* t is in the list of context c, at p or behind it.
Reached(m, c, p, r, t) == Place(m.sock[t]) = <<"head", c>> /\ p # NULL /\ r[t] <= r[p]

\* A timeout of t that is set and was not missed is aligned, and it is to come
\* or a walk that starts at p reaches t.
ShortLeft(m, c, p, r, t) ==
  LET k == m.sock[t]
  IN  k.timeout # None /\ "short" \notin k.missed =>
        k.timeout = (m.tick[k.ctx] + k.wait) % Modulus /\ (k.wait > 0 \/ Reached(m, c, p, r, t))

LongLeft(m, c, p, r, t) ==
  LET k == m.sock[t]
  IN  k.long # None /\ "long" \notin k.missed =>
        /\ k.long = ((m.tick[k.ctx] + k.longWait) \div LongRatio) % Modulus
        /\ k.longWait > 0 \/ Reached(m, c, p, r, t)

Left(m, c, p, r, t) ==
  m.sock[t].kind = "socket" /\ Alive(m, t) => ShortLeft(m, c, p, r, t) /\ LongLeft(m, c, p, r, t)

\* A walk of context c starts at p.
Walking(m, c, p, r) ==
  /\ p \in Pointer /\ (p # NULL => Place(m.sock[p]) = <<"head", c>>)
  /\ \A d \in Contexts : d # c => m.iterator[d] = NULL
  /\ \A t \in Sockets : Left(m, c, p, r, t)

\* What is not due is to come.
LEMMA NotDue ==
  ASSUME NEW m \in Memory, NEW c \in Contexts, NEW p, NEW r, NEW t \in Sockets, m.sock[t].ctx = c
  PROVE  /\ ShortLeft(m, c, p, r, t) /\ ~ShortDue(m, c, t) => ShortSettled(m, t)
         /\ LongLeft(m, c, p, r, t) /\ ~LongDue(m, c, t) => LongSettled(m, t)
<1>1. m.tick[c] \in Int /\ m.sock[t].wait \in Nat /\ m.sock[t].longWait \in Nat
  <2>1. m.sock[t].wait \in Nat /\ m.sock[t].longWait \in Nat
    BY SocketType DEF Socket
  <2>2. m.tick[c] \in 0 .. Modulus * LongRatio - 1
    BY DEF Memory
  <2>3. m.tick[c] \in Int
    BY <2>2
  <2> QED BY <2>1, <2>3
<1>2. ASSUME ShortLeft(m, c, p, r, t), ~ShortDue(m, c, t) PROVE ShortSettled(m, t)
  <2>1. m.sock[t].wait = 0 => (m.tick[c] + m.sock[t].wait) % Modulus = m.tick[c] % Modulus
    BY <1>1
  <2>2. m.sock[t].timeout # m.tick[c] % Modulus
    BY <1>2 DEF ShortDue, Timestamp
  <2> QED BY <1>1, <1>2, <2>1, <2>2 DEF ShortLeft, ShortSettled
<1>3. ASSUME LongLeft(m, c, p, r, t), ~LongDue(m, c, t) PROVE LongSettled(m, t)
  <2>1. m.sock[t].longWait = 0 =>
          ((m.tick[c] + m.sock[t].longWait) \div LongRatio) % Modulus = (m.tick[c] \div LongRatio) % Modulus
    BY <1>1
  <2>2. m.sock[t].long # (m.tick[c] \div LongRatio) % Modulus
    BY <1>3 DEF LongDue, LongTimestamp
  <2> QED BY <1>1, <1>3, <2>1, <2>2 DEF LongLeft, LongSettled
<1> QED BY <1>2, <1>3

\* The first socket that is due from p on.
DueIn(m, c, q)   == {i \in DOMAIN q : ShortDue(m, c, q[i]) \/ LongDue(m, c, q[i])}
FirstDue(m, c, p) == FirstOf(Chain(m, p), DueIn(m, c, Chain(m, p)))

\* Either nothing that the walk reaches is due, or what the walk has not reached
\* when it finds a socket is behind that socket.
LEMMA FirstDueIs ==
  ASSUME NEW m \in Memory, NEW b \in Nat, NEW r \in Ranking(b), Threads(m, Placed(m), r), NEW c \in Contexts, NEW p,
         Walking(m, c, p, r), NEW s, s = FirstDue(m, c, p)
  PROVE  \/ s = NULL /\ \A t \in Sockets : Settled(m, t)
         \/ /\ s \in Sockets /\ Place(m.sock[s]) = <<"head", c>>
            /\ ShortDue(m, c, s) \/ LongDue(m, c, s)
            /\ \A t \in Sockets : Left(m, c, s, r, t)
<1> DEFINE q == Chain(m, p)
           I == DueIn(m, c, q)
           v == <<"head", c>>
           w == Placed(m)
<1>1. /\ v \in Lists /\ w \in Placing /\ \A t \in Sockets : w[t] = Place(m.sock[t]) /\ r[t] \in Nat
      /\ NULL \notin Sockets
  BY PlacedType, Constants DEF Lists, Doubly, Heads, Ranking
<1>2. p \in Pointer /\ (p # NULL => w[p] = v) /\ \A t \in Sockets : Left(m, c, p, r, t)
  BY <1>1 DEF Walking, Pointer
<1> HIDE DEF v, w
<1>3. Descends(m, w, r, v, p, q)
  BY <1>1, <1>2, ChainDescends DEF w
<1>4. s = FirstOf(q, I)
  BY DEF FirstDue
<1> HIDE DEF q
<1>5. q \in Seq(Sockets) /\ (\A i \in 1 .. Len(q) : w[q[i]] = v) /\ (q # <<>> => p # NULL)
  BY <1>3 DEF Descends
<1>6. I \in SUBSET Nat /\ I \subseteq 1 .. Len(q) /\ \A i \in 1 .. Len(q) : q[i] \in Sockets
  BY <1>5 DEF DueIn
<1>7. \A i \in 1 .. Len(q) : i \notin I => ~ShortDue(m, c, q[i]) /\ ~LongDue(m, c, q[i])
  BY <1>5 DEF DueIn
<1>8. ASSUME NEW t \in Sockets, Reached(m, c, p, r, t)
      PROVE  \E i \in 1 .. Len(q) : q[i] = t
  BY <1>1, <1>3, <1>8 DEF Reached, Descends, v
<1>9. \A t \in Sockets : Place(m.sock[t]) = <<"head", c>> => m.sock[t].ctx = c
  BY PlaceAlive
  \* What is reached and not due is to come, and the rest was to come before.
<1>10. ASSUME NEW t \in Sockets,
              Reached(m, c, p, r, t) => ~ShortDue(m, c, t) /\ ~LongDue(m, c, t)
       PROVE  Settled(m, t)
  <2> SUFFICES ASSUME m.sock[t].kind = "socket", Alive(m, t)
               PROVE  ShortSettled(m, t) /\ LongSettled(m, t)
    BY DEF Settled
  <2>1. ShortLeft(m, c, p, r, t) /\ LongLeft(m, c, p, r, t)
    BY <1>2 DEF Left
  <2>2. CASE Reached(m, c, p, r, t)
    <3>1. m.sock[t].ctx = c
      BY <1>9, <2>2 DEF Reached
    <3> QED BY <1>10, <2>1, <2>2, <3>1, NotDue
  <2>3. CASE ~Reached(m, c, p, r, t)
    BY <2>1, <2>3 DEF ShortLeft, LongLeft, ShortSettled, LongSettled
  <2> QED BY <2>2, <2>3
<1> HIDE DEF I
<1>11. CASE I = {}
  <2>1. s = NULL
    BY <1>4, <1>11 DEF FirstOf
  <2>2. ASSUME NEW t \in Sockets PROVE Settled(m, t)
    <3>1. Reached(m, c, p, r, t) => ~ShortDue(m, c, t) /\ ~LongDue(m, c, t)
      BY <1>7, <1>8, <1>11
    <3> QED BY <1>10, <3>1
  <2> QED BY <2>1, <2>2
<1>12. CASE I # {}
  <2>1. \E i \in I : \A j \in I : i <= j
    BY <1>6, <1>12, LeastNatural
  <2> DEFINE e == CHOOSE i \in I : \A j \in I : i <= j
  <2>2. e \in I /\ \A j \in I : e <= j
    BY <2>1
  <2>3. s = q[e]
    BY <1>4, <1>12 DEF FirstOf
  <2> HIDE DEF e
  <2>4. e \in 1 .. Len(q) /\ s \in Sockets /\ w[s] = v
    BY <1>5, <1>6, <2>2, <2>3
  <2>5. Place(m.sock[s]) = <<"head", c>>
    BY <1>1, <2>4 DEF v
  <2>6. ShortDue(m, c, s) \/ LongDue(m, c, s)
    BY <2>2, <2>3 DEF I, DueIn
  <2>7. ASSUME NEW t \in Sockets PROVE Left(m, c, s, r, t)
    <3>1. CASE Reached(m, c, s, r, t)
      <4>1. p # NULL
        BY <1>5, <2>4
      <4>2. r[s] <= r[p] /\ p \in Sockets
        <5>1. p \in Sockets /\ q[1] = p
          BY <1>2, <1>3, <4>1 DEF Pointer, Descends
        <5>2. CASE e = 1
          BY <1>1, <2>3, <5>1, <5>2
        <5>3. CASE e # 1
          <6>1. 1 \in 1 .. Len(q) /\ 1 < e
            BY <2>4, <5>3
          <6>2. r[q[e]] < r[q[1]]
            BY <1>3, <2>4, <6>1 DEF Descends
          <6> QED BY <1>1, <2>3, <2>4, <5>1, <6>2
        <5> QED BY <5>2, <5>3
      <4>3. Left(m, c, p, r, t)
        BY <1>2
      <4> QED BY <3>1, <4>3 DEF Left, ShortLeft, LongLeft
    <3>2. CASE ~Reached(m, c, s, r, t)
      <4>1. ASSUME Reached(m, c, p, r, t) PROVE ~ShortDue(m, c, t) /\ ~LongDue(m, c, t)
        <5>1. PICK i \in 1 .. Len(q) : q[i] = t
          BY <1>8, <4>1
        <5>2. ~(r[t] <= r[s])
          BY <2>4, <1>1, <3>2, <4>1 DEF Reached
        <5>3. ~(e <= i)
          <6> SUFFICES ASSUME e <= i PROVE FALSE
            OBVIOUS
          <6>1. CASE e = i
            BY <1>1, <2>3, <5>1, <5>2, <6>1
          <6>2. CASE e < i
            <7>1. r[q[i]] < r[q[e]]
              BY <1>3, <2>4, <5>1, <6>2 DEF Descends
            <7> QED BY <1>1, <2>3, <2>4, <5>1, <5>2, <7>1
          <6> QED BY <2>4, <5>1, <6>1, <6>2
        <5>4. i \notin I
          BY <2>2, <5>3
        <5> QED BY <1>7, <5>1, <5>4
      <4>2. Settled(m, t)
        BY <1>10, <4>1
      <4> QED BY <4>2 DEF Settled, ShortSettled, LongSettled, Left, ShortLeft, LongLeft
    <3> QED BY <3>1, <3>2
  <2> QED BY <2>4, <2>5, <2>6, <2>7
<1> QED BY <1>11, <1>12

\* The record of the socket whose handler is called.
ShortFired(j) == [j EXCEPT !.timeout = None]
LongFired(j)  == [j EXCEPT !.long = None]

\* Firing a timeout clears it and leaves the countdowns.
LEMMA FiredType ==
  ASSUME NEW j \in Socket
  PROVE  /\ OnlyTimes(j, ShortFired(j)) /\ ShortFired(j).timeout = None /\ LongAs(j, ShortFired(j))
         /\ ShortFired(j).wait = j.wait /\ ShortFired(j).longWait = j.longWait
         /\ OnlyTimes(j, LongFired(j)) /\ LongFired(j).long = None /\ ShortAs(j, LongFired(j))
         /\ LongFired(j).wait = j.wait /\ LongFired(j).longWait = j.longWait
<1> DEFINE e == None
<1>1. e \in 0 .. Modulus
  BY SocketLoopAssumption DEF None
<1>2. ShortFired(j) = [j EXCEPT !.timeout = e] /\ LongFired(j) = [j EXCEPT !.long = e]
  BY DEF ShortFired, LongFired
<1> HIDE DEF e
<1> DEFINE x == [j EXCEPT !.timeout = e]
           y == [j EXCEPT !.long = e]
<1>3. OnlyTimes(j, x) /\ x.timeout = e /\ LongAs(j, x) /\ x.wait = j.wait /\ x.longWait = j.longWait
  BY <1>1 DEF Socket, OnlyTimes, LongAs
<1>4. OnlyTimes(j, y) /\ y.long = e /\ ShortAs(j, y) /\ y.wait = j.wait /\ y.longWait = j.longWait
  BY <1>1 DEF Socket, OnlyTimes, ShortAs
<1> QED BY <1>2, <1>3, <1>4 DEF e

\* The handler of s is called: its record becomes k.
Fires(m, n, c, s, k) ==
  /\ n \in Memory
  /\ n.tick = m.tick
  /\ n.iterator = [m.iterator EXCEPT ![c] = s]
  /\ n.sock = [m.sock EXCEPT ![s] = k]
  /\ \A u \in Lists : First(n, u) = First(m, u)

\* The sweep stops at a socket with its cursor there and the timeout cleared.
LEMMA FiresIs ==
  ASSUME NEW m \in Memory, NEW c \in Contexts, NEW s \in Sockets, NEW m1, m1 = [m EXCEPT !.iterator[c] = s]
  PROVE  /\ Fires(m, [m1 EXCEPT !.sock[s].timeout = None], c, s, ShortFired(m.sock[s]))
         /\ Fires(m, [m1 EXCEPT !.sock[s].long = None], c, s, LongFired(m.sock[s]))
<1>1. s \in Pointer /\ m.sock[s] \in Socket
  BY SocketType DEF Pointer
<1>2. /\ m1 \in Memory /\ m1.sock = m.sock /\ m1.iterator = [m.iterator EXCEPT ![c] = s] /\ m1.tick = m.tick
      /\ \A u \in Lists : First(m1, u) = First(m, u)
  BY <1>1, IteratorMoves
<1>3. ASSUME NEW k \in Socket PROVE Fires(m, SetSock(m1, s, k), c, s, k)
  <2> DEFINE n == SetSock(m1, s, k)
  <2>1. SockSet(m1, n, s, k)
    BY <1>2, SetSockIs DEF SetSock
  <2> HIDE DEF n
  <2>2. \A u \in Lists : First(n, u) = First(m1, u)
    BY <2>1 DEF SockSet, RestKept, First
  <2>3. Fires(m, n, c, s, k)
    BY <1>2, <2>1, <2>2 DEF SockSet, RestKept, Fires
  <2> QED BY <2>3 DEF n
<1>4. /\ [m1 EXCEPT !.sock[s].timeout = None] = SetSock(m1, s, ShortFired(m1.sock[s]))
      /\ [m1 EXCEPT !.sock[s].long = None] = SetSock(m1, s, LongFired(m1.sock[s]))
  BY <1>2 DEF SetSock, ShortFired, LongFired, Memory
<1>5. ShortFired(m.sock[s]) \in Socket /\ LongFired(m.sock[s]) \in Socket
  BY <1>1, FiredType DEF OnlyTimes
<1> QED BY <1>2, <1>3, <1>4, <1>5

\* A walk has found s, and calls one of its handlers.
LEMMA FoundSound ==
  ASSUME NEW m \in Memory, NEW b \in Nat, NEW r \in Ranking(b), Threads(m, Placed(m), r), NEW c \in Contexts,
         NEW s \in Sockets, Walking(m, c, s, r), NEW ph0, NEW pa, NEW ti, Records(m, ph0, pa, ti),
         NEW k, NEW n, Fires(m, n, c, s, k),
         NEW ph, \/ ph = "short" /\ k = ShortFired(m.sock[s])
                 \/ ph = "long" /\ k = LongFired(m.sock[s]) /\ ShortSettled(m, s),
         NEW a, a = [ctx |-> c, sock |-> s]
  PROVE  Sound(n, ph, a, pa, ti)
<1> DEFINE j == m.sock[s]
           v == <<"head", c>>
<1>0. /\ ph \in Handlers /\ ph # "immediates" /\ a.ctx = c /\ a.sock = s /\ s # NULL
      /\ j \in Socket /\ r[s] \in Nat /\ Out \notin Lists /\ v \in Lists
  BY SocketType, Constants, ListsDiffer DEF Handlers, Ranking, Lists, Doubly, Heads
<1>1. /\ n \in Memory /\ n.tick = m.tick /\ n.iterator[c] = s /\ n.sock[s] = k
      /\ \A d \in Contexts : d # c => n.iterator[d] = NULL
      /\ \A t \in Sockets : t # s => n.sock[t] = m.sock[t]
      /\ \A u \in Lists : First(n, u) = First(m, u)
  BY DEF Fires, Walking, Memory
<1>2. Place(j) = v /\ \A t \in Sockets : Left(m, c, s, r, t)
  BY <1>0 DEF Walking
<1>3. j.kind = "socket" /\ j.ctx = c /\ Alive(m, s)
  BY <1>2, PlaceAlive
<1>4. /\ OnlyTimes(j, k)
      /\ \/ ph = "short" /\ k.timeout = None /\ LongAs(j, k)
         \/ ph = "long" /\ k.long = None /\ ShortAs(j, k) /\ ShortSettled(m, s)
  BY <1>0, FiredType
<1>5. Place(k) = Place(j)
  BY <1>4 DEF OnlyTimes, Place
<1> HIDE DEF v, j
<1>6. \A t \in Sockets : Place(n.sock[t]) = Place(m.sock[t])
  BY <1>1, <1>5 DEF j
<1>7. Threads(n, Placed(n), r)
  <2>1. Placed(n) = Placed(m) /\ Placed(m) \in Placing
    BY <1>6, PlacedType DEF Placed
  <2>2. Kept(m, n, Placed(m))
    BY <1>1, <1>4 DEF Kept, OnlyTimes, j
  <2> QED BY <2>1, <2>2, ThreadsKept
<1>8. CursorIn(n, ph, a)
  BY <1>0, <1>1, <1>2, <1>5 DEF CursorIn, v
<1>9. ASSUME NEW t \in Sockets PROVE Coming(n, ph, a, r, t)
  <2>1. Reached(m, c, s, r, t) => Ahead(n, ph, a, r, t)
    BY <1>0, <1>1, <1>6 DEF Reached, Ahead
  <2>2. CASE t # s
    <3>1. n.sock[t] = m.sock[t] /\ (Alive(n, t) <=> Alive(m, t))
      BY <1>1, <2>2 DEF Alive, IsClosed
    <3>2. Left(m, c, s, r, t)
      BY <1>2
    <3>3. t # n.iterator[a.ctx]
      BY <1>0, <1>1, <2>2
    <3> HIDE DEF Ahead
    <3> QED BY <1>1, <2>1, <3>1, <3>2, <3>3 DEF Left, ShortLeft, LongLeft, Coming, ShortComing, LongComing
  <2>3. CASE t = s
    <3>1. k.kind = j.kind /\ k.ctx = j.ctx
      BY <1>4 DEF OnlyTimes
    <3>2. ShortLeft(m, c, s, r, s) /\ LongLeft(m, c, s, r, s)
      BY <1>2, <1>3 DEF Left, j
    <3>3. Ahead(n, ph, a, r, s)
      BY <1>0, <1>1, <1>2, <1>6 DEF Ahead, v, j
    <3>4. CASE ph = "short" /\ k.timeout = None /\ LongAs(j, k)
      <4>1. ShortComing(n, ph, a, r, s)
        BY <1>1, <3>4 DEF ShortComing
      <4>2. LongComing(n, ph, a, r, s)
        BY <1>1, <3>1, <3>2, <3>3, <3>4 DEF LongComing, LongLeft, LongAs, j
      <4> QED BY <2>3, <4>1, <4>2 DEF Coming
    <3>5. CASE ph = "long" /\ k.long = None /\ ShortAs(j, k) /\ ShortSettled(m, s)
      <4>1. LongComing(n, ph, a, r, s)
        BY <1>1, <3>5 DEF LongComing
      <4>2. ShortComing(n, ph, a, r, s)
        BY <1>1, <3>1, <3>5 DEF ShortComing, ShortSettled, ShortAs, j
      <4> QED BY <2>3, <4>1, <4>2 DEF Coming
    <3> QED BY <1>4, <3>4, <3>5
  <2> QED BY <2>2, <2>3
<1>10. Records(n, ph, pa, ti)
  <2> SUFFICES ASSUME NEW t \in Sockets PROVE RecordSound(n.sock[t]) /\ RecordFits(n.sock[t], t, ph, pa, ti)
    BY DEF Records
  <2>1. RecordSound(m.sock[t]) /\ RecordFits(m.sock[t], t, ph0, pa, ti)
    BY DEF Records
  <2>2. n.sock[t] = m.sock[t] \/ OnlyTimes(m.sock[t], n.sock[t])
    BY <1>1, <1>4 DEF j
  <2>3. RecordSound(n.sock[t])
    <3>1. InTime(n.sock[t])
      <4>1. CASE t = s
        <5> DEFINE i == n.sock[t]
        <5>1. InTime(j) /\ i = k
          BY <1>1, <2>1, <4>1 DEF RecordSound, j
        <5> HIDE DEF i
        <5>2. InTime(k)
          BY <1>4, <5>1, TimesKept
        <5> QED BY <5>1, <5>2 DEF i
      <4>2. CASE t # s
        BY <1>1, <2>1, <4>2 DEF RecordSound
      <4> QED BY <4>1, <4>2
    <3> QED BY <2>1, <2>2, <3>1 DEF RecordSound, OnlyTimes
  <2>4. RecordFits(n.sock[t], t, ph, pa, ti)
    BY <1>0, <2>1, <2>2 DEF RecordFits, OnlyTimes
  <2> QED BY <2>3, <2>4
<1>11. Swept(ph, a)
  BY <1>0 DEF Swept
<1> QED BY <1>1, <1>7, <1>8, <1>9, <1>10, <1>11 DEF Sound, Walked, Walk

\* What the walk that starts at p in context c makes of the memory.
Sought(m, c, p, n, ph, a) ==
  LET s  == FirstDue(m, c, p)
      m1 == [m EXCEPT !.iterator[c] = s]
  IN  \/ /\ s = NULL
         /\ n = [m EXCEPT !.iterator[c] = NULL] /\ a = [ctx |-> c - 1, sock |-> NULL]
         /\ ph = IF c = 1 THEN "swept" ELSE "sweep"
      \/ /\ s # NULL /\ ShortDue(m, c, s)
         /\ n = [m1 EXCEPT !.sock[s].timeout = None] /\ a = [ctx |-> c, sock |-> s] /\ ph = "short"
      \/ /\ s # NULL /\ ~ShortDue(m, c, s)
         /\ n = [m1 EXCEPT !.sock[s].long = None] /\ a = [ctx |-> c, sock |-> s] /\ ph = "long"

\* Walking on from p to the next timeout that is due, or to the end of the list, keeps the
\* invariant.
LEMMA SoughtSound ==
  ASSUME NEW m \in Memory, NEW b \in Nat, NEW r \in Ranking(b), Threads(m, Placed(m), r), NEW c \in Contexts, NEW p,
         Walking(m, c, p, r), NEW ph0, NEW pa, NEW ti, Records(m, ph0, pa, ti),
         NEW n, NEW ph, NEW a, Sought(m, c, p, n, ph, a)
  PROVE  Sound(n, ph, a, pa, ti)
<1> DEFINE s == FirstDue(m, c, p)
<1>0. NULL \notin Sockets /\ NULL \in Pointer
  BY Constants DEF Pointer
<1>1. \/ s = NULL /\ \A t \in Sockets : Settled(m, t)
      \/ /\ s \in Sockets /\ Place(m.sock[s]) = <<"head", c>>
         /\ ShortDue(m, c, s) \/ LongDue(m, c, s)
         /\ \A t \in Sockets : Left(m, c, s, r, t)
  BY FirstDueIs
<1>2. \/ /\ s = NULL
         /\ n = [m EXCEPT !.iterator[c] = NULL] /\ a = [ctx |-> c - 1, sock |-> NULL]
         /\ ph = IF c = 1 THEN "swept" ELSE "sweep"
      \/ /\ s # NULL /\ ShortDue(m, c, s)
         /\ n = [[m EXCEPT !.iterator[c] = s] EXCEPT !.sock[s].timeout = None]
         /\ a = [ctx |-> c, sock |-> s] /\ ph = "short"
      \/ /\ s # NULL /\ ~ShortDue(m, c, s)
         /\ n = [[m EXCEPT !.iterator[c] = s] EXCEPT !.sock[s].long = None]
         /\ a = [ctx |-> c, sock |-> s] /\ ph = "long"
  BY DEF Sought
<1> HIDE DEF s
<1>3. CASE s = NULL
  <2>1. /\ n = [m EXCEPT !.iterator[c] = NULL] /\ a = [ctx |-> c - 1, sock |-> NULL]
        /\ ph = IF c = 1 THEN "swept" ELSE "sweep"
    BY <1>2, <1>3
  <2>2. /\ n \in Memory /\ n.sock = m.sock /\ n.iterator = [m.iterator EXCEPT ![c] = NULL] /\ n.tick = m.tick
        /\ \A u \in Lists : First(n, u) = First(m, u)
    <3> DEFINE e == NULL
    <3>1. e \in Pointer /\ n = [m EXCEPT !.iterator[c] = e]
      BY <1>0, <2>1
    <3> HIDE DEF e
    <3>2. /\ n \in Memory /\ n.sock = m.sock /\ n.iterator = [m.iterator EXCEPT ![c] = e] /\ n.tick = m.tick
          /\ \A u \in Lists : First(n, u) = First(m, u)
      BY <3>1, IteratorMoves
    <3> QED BY <3>2 DEF e
  <2>3. \A d \in Contexts : n.iterator[d] = NULL
    BY <2>2 DEF Walking, Memory
  <2>4. ph \notin Handlers /\ ph # "immediates"
    BY <2>1 DEF Handlers
  <2>5. Threads(n, Placed(n), r)
    <3>1. Placed(n) = Placed(m) /\ Placed(m) \in Placing
      BY <2>2, PlacedType DEF Placed
    <3>2. Kept(m, n, Placed(m))
      BY <2>2 DEF Kept
    <3> QED BY <3>1, <3>2, ThreadsKept
  <2>6. CursorIn(n, ph, a)
    BY <2>3, <2>4 DEF CursorIn
  <2>7. \A t \in Sockets : Coming(n, ph, a, r, t)
    <3>1. \A t \in Sockets : Settled(m, t) /\ (Alive(n, t) <=> Alive(m, t))
      BY <1>0, <1>1, <1>3, <2>2 DEF Alive, IsClosed
    <3> QED BY <2>2, <3>1 DEF Settled, ShortSettled, LongSettled, Coming, ShortComing, LongComing
  <2>8. Records(n, ph, pa, ti)
    BY <2>2, <2>4 DEF Records, RecordFits
  <2>9. Swept(ph, a)
    <3>1. c = 1 \/ c - 1 \in Contexts
      BY SocketLoopAssumption DEF Contexts
    <3>2. a.ctx = c - 1
      BY <2>1
    <3> QED BY <2>1, <2>4, <3>1, <3>2 DEF Swept
  <2> QED BY <2>2, <2>5, <2>6, <2>7, <2>8, <2>9 DEF Sound, Walked, Walk
<1>4. CASE s # NULL
  <2>1. s \in Sockets /\ Place(m.sock[s]) = <<"head", c>>
    BY <1>1, <1>4
  <2>2. Walking(m, c, s, r)
    BY <1>1, <1>4 DEF Walking, Pointer
  <2>3. /\ Fires(m, [[m EXCEPT !.iterator[c] = s] EXCEPT !.sock[s].timeout = None], c, s, ShortFired(m.sock[s]))
        /\ Fires(m, [[m EXCEPT !.iterator[c] = s] EXCEPT !.sock[s].long = None], c, s, LongFired(m.sock[s]))
    BY <2>1, FiresIs
  <2>4. a = [ctx |-> c, sock |-> s]
    BY <1>2, <1>4
  <2>5. CASE ShortDue(m, c, s)
    <3> DEFINE k == ShortFired(m.sock[s])
    <3>1. Fires(m, n, c, s, k) /\ ph = "short"
      BY <1>2, <1>4, <2>3, <2>5
    <3>2. k = ShortFired(m.sock[s])
      OBVIOUS
    <3> HIDE DEF k
    <3> QED BY <2>1, <2>2, <2>4, <3>1, <3>2, FoundSound
  <2>6. CASE ~ShortDue(m, c, s)
    <3> DEFINE k == LongFired(m.sock[s])
    <3>1. Fires(m, n, c, s, k) /\ ph = "long"
      BY <1>2, <1>4, <2>3, <2>6
    <3>2. k = LongFired(m.sock[s])
      OBVIOUS
    <3>3. ShortSettled(m, s)
      <4>1. m.sock[s].kind = "socket" /\ Alive(m, s) /\ m.sock[s].ctx = c
        BY <2>1, PlaceAlive
      <4>2. ShortLeft(m, c, s, r, s)
        BY <2>1, <2>2, <4>1 DEF Walking, Left
      <4> QED BY <2>1, <2>6, <4>1, <4>2, NotDue
    <3> HIDE DEF k
    <3> QED BY <2>1, <2>2, <2>4, <3>1, <3>2, <3>3, FoundSound
  <2> QED BY <2>5, <2>6
<1> QED BY <1>3, <1>4

\* What is missed at a new tick by a socket with the record k.
Missing(k) ==
  {d \in {"short", "long"} : k.low = 1 /\ IF d = "short" THEN k.timeout # None /\ k.wait <= 1
                                          ELSE k.long # None /\ k.longWait <= LongRatio}

\* The record of a socket when context c has a new tick.
Ticked(k, c) ==
  IF k.kind # "socket" \/ k.ctx # c THEN k
  ELSE [k EXCEPT !.wait = Less(@), !.longWait = Less(@), !.missed = @ \cup Missing(k)]

\* A tick of a context counts the timeouts of its sockets down.
LEMMA TickedType ==
  ASSUME NEW j \in Socket, NEW c \in Contexts
  PROVE  LET k == Ticked(j, c)
         IN  /\ OnlyTimes(j, k) /\ k.timeout = j.timeout /\ k.long = j.long
             /\ j.kind # "socket" \/ j.ctx # c => k = j
             /\ j.kind = "socket" /\ j.ctx = c =>
                  /\ k.wait = Less(j.wait) /\ k.longWait = Less(j.longWait)
                  /\ "short" \in k.missed <=>
                       "short" \in j.missed \/ (j.low = 1 /\ j.timeout # None /\ j.wait <= 1)
                  /\ "long" \in k.missed <=>
                       "long" \in j.missed \/ (j.low = 1 /\ j.long # None /\ j.longWait <= LongRatio)
<1> DEFINE k == Ticked(j, c)
<1>1. CASE j.kind # "socket" \/ j.ctx # c
  <2>1. k = j
    BY <1>1 DEF Ticked
  <2> HIDE DEF k
  <2> QED BY <1>1, <2>1 DEF OnlyTimes, k
<1>2. CASE j.kind = "socket" /\ j.ctx = c
  <2> DEFINE x == Less(j.wait)
             y == Less(j.longWait)
             M == Missing(j)
             z == j.missed \cup M
  <2>1. x \in Nat /\ y \in Nat
    BY DEF Socket, Less
  <2>2. /\ M \subseteq {"short", "long"}
        /\ "short" \in M <=> j.low = 1 /\ j.timeout # None /\ j.wait <= 1
        /\ "long" \in M <=> j.low = 1 /\ j.long # None /\ j.longWait <= LongRatio
    BY DEF Missing
  <2> HIDE DEF M
  <2>3. z \in SUBSET {"short", "long"}
    BY <2>2 DEF Socket
  <2>4. k = [j EXCEPT !.wait = x, !.longWait = y, !.missed = z]
    BY <1>2 DEF Ticked, Socket, M
  <2> HIDE DEF k, x, y
  <2>5. ("short" \in z <=> "short" \in j.missed \/ "short" \in M) /\ ("long" \in z <=> "long" \in j.missed \/ "long" \in M)
    OBVIOUS
  <2> HIDE DEF z
  <2>6. OnlyTimes(j, k) /\ k.timeout = j.timeout /\ k.long = j.long /\ k.wait = x /\ k.longWait = y /\ k.missed = z
    BY <2>1, <2>3, <2>4 DEF Socket, OnlyTimes
  <2> QED BY <1>2, <2>2, <2>5, <2>6 DEF x, y, k
<1> QED BY <1>1, <1>2

\* A new tick of context c.
TickTo(m, n, c) ==
  /\ n \in Memory
  /\ n.iterator = m.iterator
  /\ n.tick = [m.tick EXCEPT ![c] = (@ + 1) % (Modulus * LongRatio)]
  /\ n.sock = [t \in Sockets |-> Ticked(m.sock[t], c)]
  /\ n.head = m.head
  /\ \A u \in Lists : First(n, u) = First(m, u)

\* A tick takes from what remains of the timeouts, and misses one when nothing remains.
LEMMA TickedInTime ==
  ASSUME NEW j \in Socket, NEW c \in Contexts, InTime(j)
  PROVE  InTime(Ticked(j, c))
<1> DEFINE k == Ticked(j, c)
           f == (Modulus - 1) * LongRatio
<1>1. /\ OnlyTimes(j, k) /\ k.timeout = j.timeout /\ k.long = j.long
      /\ j.kind # "socket" \/ j.ctx # c => k = j
      /\ j.kind = "socket" /\ j.ctx = c =>
           /\ k.wait = Less(j.wait) /\ k.longWait = Less(j.longWait)
           /\ "short" \in k.missed <=>
                "short" \in j.missed \/ (j.low = 1 /\ j.timeout # None /\ j.wait <= 1)
           /\ "long" \in k.missed <=>
                "long" \in j.missed \/ (j.low = 1 /\ j.long # None /\ j.longWait <= LongRatio)
  BY TickedType
<1> HIDE DEF k
<1>2. j.wait \in Nat /\ j.longWait \in Nat /\ Modulus \in Nat \ {0} /\ LongRatio \in Nat \ {0}
  BY SocketLoopAssumption DEF Socket
<1>3. CASE j.kind = "socket" /\ j.ctx = c
  <2> SUFFICES ASSUME LessThanATurn
               PROVE  /\ k.timeout # None => k.wait < Modulus /\ ("short" \in k.missed => k.wait = 0)
                      /\ k.long # None => k.longWait <= f /\ ("long" \in k.missed => k.longWait < LongRatio)
    BY DEF InTime, k
  <2>1. /\ j.timeout # None => j.wait < Modulus /\ ("short" \in j.missed => j.wait = 0)
        /\ j.long # None => j.longWait <= f /\ ("long" \in j.missed => j.longWait < LongRatio)
    BY DEF InTime
  <2>2. f \in Nat
    <3> DEFINE e == Modulus - 1
    <3>1. e \in Nat
      BY <1>2
    <3> HIDE DEF e
    <3>2. e * LongRatio \in Nat
      BY <1>2, <3>1
    <3> QED BY <3>2 DEF e
  <2> HIDE DEF f
  <2> QED BY <1>1, <1>2, <1>3, <2>1, <2>2 DEF Less
<1>4. CASE j.kind # "socket" \/ j.ctx # c
  BY <1>1, <1>4 DEF k
<1> QED BY <1>3, <1>4

\* A tick of a context moves nothing and touches no other context.
LEMMA TickIs ==
  ASSUME NEW m \in Memory, NEW c \in Contexts
  PROVE  TickTo(m, Tick(m, c), c)
<1> DEFINE x == [m.tick EXCEPT ![c] = (@ + 1) % (Modulus * LongRatio)]
           y == [t \in Sockets |-> Ticked(m.sock[t], c)]
           n == Tick(m, c)
<1>1. Modulus * LongRatio \in Nat \ {0}
  BY SocketLoopAssumption
<1>2. x \in [Contexts -> 0 .. Modulus * LongRatio - 1]
  <2> DEFINE B == Modulus * LongRatio
  <2> HIDE DEF B
  <2>1. m.tick \in [Contexts -> 0 .. B - 1] /\ B \in Nat \ {0}
    BY <1>1 DEF Memory, B
  <2>2. m.tick[c] + 1 \in Int
    BY <2>1
  <2>3. (m.tick[c] + 1) % B \in 0 .. B - 1
    BY <2>1, <2>2, Division
  <2>4. x = [m.tick EXCEPT ![c] = (m.tick[c] + 1) % B]
    BY <2>1 DEF B
  <2> HIDE DEF x
  <2>5. x \in [Contexts -> 0 .. B - 1]
    BY <2>1, <2>3, <2>4
  <2> QED BY <2>5 DEF B
<1>3. y \in [Sockets -> Socket]
  <2>1. \A t \in Sockets : Ticked(m.sock[t], c) \in Socket
    BY SocketType, TickedType DEF OnlyTimes
  <2> QED BY <2>1
<1>4. n = [m EXCEPT !.tick = x, !.sock = y]
  BY DEF Tick, Ticked, Missing, Memory
<1> HIDE DEF x, y, n
<1>5. /\ n \in Memory /\ n.tick = x /\ n.sock = y /\ n.iterator = m.iterator /\ n.head = m.head
      /\ n.listen = m.listen /\ n.low = m.low /\ n.closed = m.closed
  BY <1>2, <1>3, <1>4 DEF Memory
<1>6. \A u \in Lists : First(n, u) = First(m, u)
  BY <1>5 DEF First
<1> QED BY <1>5, <1>6 DEF TickTo, x, y, n

\* After the tick the walk of the context starts at its first socket.
LEMMA TickWalking ==
  ASSUME NEW m \in Memory, NEW b \in Nat, NEW r \in Ranking(b), Threads(m, Placed(m), r), NEW c \in Contexts,
         NEW ph, NEW a, Walk(m, ph, a, r), ph \notin Handlers, NEW pa, NEW ti, Records(m, ph, pa, ti),
         NEW n, TickTo(m, n, c)
  PROVE  /\ n \in Memory /\ Threads(n, Placed(n), r) /\ Records(n, ph, pa, ti)
         /\ Walking(n, c, n.head[c], r)
<1> DEFINE v == <<"head", c>>
           p == n.head[c]
           B == Modulus * LongRatio
<1>0. /\ v \in Lists /\ v \in Doubly /\ Placed(m) \in Placing /\ Modulus \in Nat \ {0} /\ LongRatio \in Nat \ {0}
      /\ \A t \in Sockets : Placed(m)[t] = Place(m.sock[t]) /\ m.sock[t] \in Socket
  BY PlacedType, SocketLoopAssumption DEF Lists, Doubly, Heads
<1>1. /\ n \in Memory /\ n.iterator = m.iterator /\ n.tick[c] = (m.tick[c] + 1) % B
      /\ \A d \in Contexts : d # c => n.tick[d] = m.tick[d]
      /\ \A t \in Sockets : n.sock[t] = Ticked(m.sock[t], c)
      /\ \A u \in Lists : First(n, u) = First(m, u)
  BY DEF TickTo, Memory
<1>2. p = First(n, v) /\ p \in Pointer
  BY <1>1 DEF First, Queue, Closed, Memory
<1> HIDE DEF v, p
<1>3. \A t \in Sockets : OnlyTimes(m.sock[t], n.sock[t])
  BY <1>0, <1>1, TickedType
<1>4. \A t \in Sockets : Place(n.sock[t]) = Place(m.sock[t]) /\ (Alive(n, t) <=> Alive(m, t))
  BY <1>3 DEF OnlyTimes, Place, Alive, IsClosed
<1>5. Placed(n) = Placed(m) /\ Threads(n, Placed(n), r)
  <2>1. Placed(n) = Placed(m)
    BY <1>4 DEF Placed
  <2>2. Kept(m, n, Placed(m))
    BY <1>1, <1>3 DEF Kept, OnlyTimes
  <2> QED BY <1>0, <2>1, <2>2, ThreadsKept
<1>6. Records(n, ph, pa, ti)
  <2> SUFFICES ASSUME NEW t \in Sockets PROVE RecordSound(n.sock[t]) /\ RecordFits(n.sock[t], t, ph, pa, ti)
    BY DEF Records
  <2>1. RecordSound(m.sock[t]) /\ RecordFits(m.sock[t], t, ph, pa, ti) /\ OnlyTimes(m.sock[t], n.sock[t])
    BY <1>3 DEF Records
  <2>2. InTime(n.sock[t])
    BY <1>0, <1>1, <2>1, TickedInTime DEF RecordSound
  <2> QED BY <2>1, <2>2 DEF RecordSound, RecordFits, OnlyTimes
<1>7. p # NULL => Place(n.sock[p]) = v
  BY <1>0, <1>2, <1>4, <1>5 DEF Threads, Pointer
<1>8. \A d \in Contexts : n.iterator[d] = NULL
  BY <1>1 DEF Walk, CursorIn
<1>9. ASSUME NEW t \in Sockets, Place(m.sock[t]) = v PROVE Reached(n, c, p, r, t)
  <2>1. Placed(n)[t] = v
    BY <1>0, <1>5, <1>9
  <2> QED BY <1>0, <1>2, <1>4, <1>5, <1>9, <2>1 DEF Threads, Reached, v
<1>10. ASSUME NEW t \in Sockets PROVE Left(n, c, p, r, t)
  <2> DEFINE j == m.sock[t]
             k == n.sock[t]
             R == Reached(n, c, p, r, t)
  <2> SUFFICES ASSUME k.kind = "socket", Alive(n, t)
               PROVE  ShortLeft(n, c, p, r, t) /\ LongLeft(n, c, p, r, t)
    BY DEF Left
  <2>1. j.kind = "socket" /\ Alive(m, t) /\ k.ctx = j.ctx /\ k.low = j.low /\ j \in Socket
    BY <1>0, <1>3, <1>4 DEF OnlyTimes
  <2>2. /\ j.timeout # None /\ "short" \notin j.missed => j.timeout = (m.tick[j.ctx] + j.wait) % Modulus /\ j.wait > 0
        /\ j.long # None /\ "long" \notin j.missed =>
             j.long = ((m.tick[j.ctx] + j.longWait) \div LongRatio) % Modulus /\ j.longWait > 0
    <3>1. ShortComing(m, ph, a, r, t) /\ LongComing(m, ph, a, r, t)
      BY <2>1 DEF Walk, Coming
    <3> QED BY <3>1 DEF ShortComing, LongComing, Ahead
  <2>3. CASE j.ctx # c
    <3>1. k = j /\ n.tick[j.ctx] = m.tick[j.ctx]
      BY <1>0, <1>1, <2>1, <2>3, TickedType DEF Socket
    <3> HIDE DEF j, k, R
    <3> QED BY <2>2, <3>1 DEF ShortLeft, LongLeft, k
  <2>4. CASE j.ctx = c
    <3> DEFINE u == n.tick[c]
               o == m.tick[c]
    <3>1. o \in 0 .. Modulus * LongRatio - 1 /\ u = (o + 1) % (Modulus * LongRatio)
      BY <1>1 DEF Memory
    <3>2. /\ k.timeout = j.timeout /\ k.long = j.long
          /\ k.wait = Less(j.wait) /\ k.longWait = Less(j.longWait)
          /\ "short" \in k.missed <=>
               "short" \in j.missed \/ (j.low = 1 /\ j.timeout # None /\ j.wait <= 1)
          /\ "long" \in k.missed <=>
               "long" \in j.missed \/ (j.low = 1 /\ j.long # None /\ j.longWait <= LongRatio)
      BY <1>0, <1>1, <2>1, <2>4, TickedType
    <3>3. j.low # 1 => R
      <4>1. j.low # 1 => Place(j) = v
        BY <1>0, <2>1, <2>4, PlaceAlive DEF v
      <4> QED BY <1>9, <4>1
    <3>4. k.ctx = c /\ j.wait \in Nat /\ j.longWait \in Nat
      BY <2>1, <2>4 DEF Socket
    <3> HIDE DEF j, k, R, u, o
    <3>5. ASSUME k.timeout # None, "short" \notin k.missed
          PROVE  k.timeout = (u + k.wait) % Modulus /\ (k.wait > 0 \/ R)
      <4> DEFINE e == j.wait
      <4>1. j.timeout = (o + e) % Modulus /\ e \in Nat \ {0} /\ k.wait = e - 1
        BY <2>2, <2>4, <3>2, <3>4, <3>5 DEF Less, o
      <4>2. e = 1 => R
        BY <3>2, <3>3, <3>5
      <4> HIDE DEF e
      <4>3. e \in Nat \ {0}
        BY <4>1
      <4>4. Modulus \in Nat \ {0} /\ LongRatio \in Nat \ {0}
        BY <1>0
      <4>5. TickAligns(Modulus, LongRatio, o, e, u)
        BY <3>1, <4>3, <4>4, ShortTickAligned
      <4> QED BY <3>2, <4>1, <4>2, <4>5 DEF TickAligns
    <3>6. ASSUME k.long # None, "long" \notin k.missed
          PROVE  k.long = ((u + k.longWait) \div LongRatio) % Modulus /\ (k.longWait > 0 \/ R)
      <4> DEFINE e == j.longWait
      <4>1. j.long = ((o + e) \div LongRatio) % Modulus /\ e \in Nat \ {0} /\ k.longWait = e - 1
        BY <2>2, <2>4, <3>2, <3>4, <3>6 DEF Less, o
      <4>2. e = 1 => R
        BY <1>0, <3>2, <3>3, <3>6
      <4> HIDE DEF e
      <4>3. ((u + (e - 1)) \div LongRatio) % Modulus = ((o + e) \div LongRatio) % Modulus
        BY <1>0, <3>1, <4>1, TickAligned
      <4> QED BY <3>2, <4>1, <4>2, <4>3
    <3>7. ShortLeft(n, c, p, r, t)
      BY <3>4, <3>5 DEF ShortLeft, k, u, R
    <3>8. LongLeft(n, c, p, r, t)
      BY <3>4, <3>6 DEF LongLeft, k, u, R
    <3> QED BY <3>7, <3>8
  <2> QED BY <2>3, <2>4
<1>11. Walking(n, c, p, r)
  BY <1>2, <1>7, <1>8, <1>10 DEF Walking, v
<1> QED BY <1>1, <1>5, <1>6, <1>11 DEF p

\* The handler of a timeout is over: what its walk has not reached.
LEMMA ReturnLeft ==
  ASSUME NEW m \in Memory, NEW b \in Nat, NEW r \in Ranking(b), Threads(m, Placed(m), r),
         NEW ph, NEW a, Walk(m, ph, a, r), ph \in Handlers, Swept(ph, a),
         NEW c, c = a.ctx, NEW s, s = a.sock
  PROVE  /\ c \in Contexts /\ s \in Sockets
         /\ m.iterator[c] \in Pointer /\ (m.iterator[c] # NULL => Place(m.sock[m.iterator[c]]) = <<"head", c>>)
         /\ \A d \in Contexts : d # c => m.iterator[d] = NULL
         /\ \A t \in Sockets : Left(m, c, m.iterator[c], r, t)
         /\ m.iterator[c] = s /\ m.sock[s].kind = "socket" /\ Alive(m, s) =>
              ShortSettled(m, s) /\ (ph = "long" => LongSettled(m, s))
<1>1. c \in Contexts /\ s \in Sockets
  BY DEF Swept
<1>2. m.iterator \in [Contexts -> Pointer]
  BY DEF Memory
<1>3. CursorIn(m, ph, a) /\ \A t \in Sockets : Coming(m, ph, a, r, t)
  BY DEF Walk
<1>4. ASSUME NEW t \in Sockets PROVE Left(m, c, m.iterator[c], r, t)
  <2>1. Ahead(m, ph, a, r, t) => Reached(m, c, m.iterator[c], r, t)
    BY DEF Ahead, Reached
  <2> HIDE DEF Ahead, Reached
  <2> QED BY <1>3, <2>1 DEF Left, ShortLeft, LongLeft, Coming, ShortComing, LongComing
<1>5. m.iterator[c] = s /\ m.sock[s].kind = "socket" /\ Alive(m, s) =>
        ShortSettled(m, s) /\ (ph = "long" => LongSettled(m, s))
  BY <1>1, <1>3 DEF Coming, ShortComing, LongComing, ShortSettled, LongSettled
<1> QED BY <1>1, <1>2, <1>3, <1>4, <1>5 DEF CursorIn

\* The walk goes on at the cursor, and behind it if the cursor did not move.
LEMMA ReturnWalking ==
  ASSUME NEW m \in Memory, NEW b \in Nat, NEW r \in Ranking(b), Threads(m, Placed(m), r),
         NEW ph, NEW a, Walk(m, ph, a, r), ph \in Handlers, Swept(ph, a),
         NEW c, c = a.ctx, NEW s, s = a.sock,
         ~(ph = "short" /\ m.iterator[c] = s /\ LongDue(m, c, s)),
         NEW p, p = IF m.iterator[c] = s THEN m.sock[s].next ELSE m.iterator[c]
  PROVE  Walking(m, c, p, r)
<1> DEFINE v == <<"head", c>>
           w == Placed(m)
<1>0. Threads(m, w, r) /\ \A t \in Sockets : w[t] = Place(m.sock[t])
  BY PlacedType
<1> HIDE DEF w
<1>1. /\ c \in Contexts /\ s \in Sockets
      /\ m.iterator[c] \in Pointer /\ (m.iterator[c] # NULL => Place(m.sock[m.iterator[c]]) = v)
      /\ \A d \in Contexts : d # c => m.iterator[d] = NULL
      /\ \A t \in Sockets : Left(m, c, m.iterator[c], r, t)
      /\ m.iterator[c] = s /\ m.sock[s].kind = "socket" /\ Alive(m, s) =>
           ShortSettled(m, s) /\ (ph = "long" => LongSettled(m, s))
  BY ReturnLeft
<1>2. CASE m.iterator[c] # s
  BY <1>1, <1>2 DEF Walking
<1>3. CASE m.iterator[c] = s
  <2>0. /\ v \in Lists /\ v \in Doubly /\ NULL \notin Sockets
        /\ \A t \in Sockets : w[t] = Place(m.sock[t]) /\ r[t] \in Nat
    BY <1>0, <1>1, Constants DEF Lists, Doubly, Heads, Ranking
  <2>1. Place(m.sock[s]) = v /\ w[s] = v
    BY <1>1, <1>3, <2>0
  <2>2. m.sock[s].kind = "socket" /\ Alive(m, s) /\ m.sock[s].ctx = c
    BY <1>1, <2>1, PlaceAlive
  <2>3. p = m.sock[s].next /\ p \in Pointer
    BY <1>1, <1>3, SocketType
  <2>4. p # NULL => Place(m.sock[p]) = v
    BY <1>0, <1>1, <2>0, <2>1, <2>3 DEF Threads
  <2>5. ShortSettled(m, s) /\ LongSettled(m, s)
    <3>1. ShortSettled(m, s) /\ (ph = "long" => LongSettled(m, s))
      BY <1>1, <1>3, <2>2
    <3>2. CASE ph = "short"
      <4>1. ~LongDue(m, c, s)
        BY <1>3, <3>2
      <4>2. LongLeft(m, c, m.iterator[c], r, s)
        BY <1>1, <2>2 DEF Left
      <4> DEFINE x == m.iterator[c]
      <4>3. LongLeft(m, c, x, r, s)
        BY <4>2
      <4> HIDE DEF x
      <4>4. LongSettled(m, s)
        BY <1>1, <2>2, <4>1, <4>3, NotDue
      <4> QED BY <3>1, <4>4
    <3> QED BY <3>1, <3>2 DEF Handlers
  <2>6. ASSUME NEW t \in Sockets PROVE Left(m, c, p, r, t)
    <3>1. CASE t = s
      BY <2>5, <3>1 DEF Left, ShortLeft, LongLeft, ShortSettled, LongSettled
    <3>2. CASE t # s
      <4>1. Reached(m, c, s, r, t) => Reached(m, c, p, r, t)
        <5> SUFFICES ASSUME Reached(m, c, s, r, t) PROVE Reached(m, c, p, r, t)
          OBVIOUS
        <5>1. w[t] = v /\ r[t] <= r[s]
          BY <2>0 DEF Reached
        <5>2. r[t] # r[s]
          BY <1>0, <1>1, <2>0, <2>1, <3>2, <5>1 DEF Threads
        <5>3. r[t] < r[s]
          BY <1>1, <2>0, <5>1, <5>2
        <5>4. p # NULL /\ r[t] <= r[p]
          BY <1>0, <1>1, <2>0, <2>1, <2>3, <5>1, <5>3 DEF Threads
        <5> QED BY <2>0, <5>1, <5>4 DEF Reached
      <4>2. Left(m, c, s, r, t)
        BY <1>1, <1>3
      <4> HIDE DEF Reached
      <4> QED BY <4>1, <4>2 DEF Left, ShortLeft, LongLeft
    <3> QED BY <3>1, <3>2
  <2> QED BY <1>1, <2>3, <2>4, <2>6 DEF Walking
<1> QED BY <1>2, <1>3

\* What SweepReturn makes of the memory.
Returned(m, ph, a, n, ph1, a1) ==
  LET c == a.ctx
      s == a.sock
  IN  IF ph = "short" /\ m.iterator[c] = s /\ LongDue(m, c, s)
      THEN n = [m EXCEPT !.sock[s].long = None] /\ ph1 = "long" /\ a1 = a
      ELSE Sought(m, c, IF m.iterator[c] = s THEN m.sock[s].next ELSE m.iterator[c], n, ph1, a1)

\* A timeout handler returns: the long timeout of the same socket, the next socket, or the
\* end of the list (loop.c:113-133).
LEMMA ReturnSound ==
  ASSUME NEW m, NEW ph, NEW a, NEW pa, NEW ti, Sound(m, ph, a, pa, ti), ph \in Handlers,
         a = [ctx |-> a.ctx, sock |-> a.sock],
         NEW n, NEW ph1, NEW a1, Returned(m, ph, a, n, ph1, a1)
  PROVE  Sound(n, ph1, a1, pa, ti)
<1> DEFINE c == a.ctx
           s == a.sock
<1>0. m \in Memory /\ Walked(m, ph, a) /\ Records(m, ph, pa, ti) /\ Swept(ph, a)
  BY DEF Sound
<1>1. PICK b \in Nat : \E r \in Ranking(b) : Threads(m, Placed(m), r) /\ Walk(m, ph, a, r)
  BY <1>0 DEF Walked
<1>2. PICK r \in Ranking(b) : Threads(m, Placed(m), r) /\ Walk(m, ph, a, r)
  BY <1>1
<1>3. a = [ctx |-> c, sock |-> s] /\ c = a.ctx /\ s = a.sock
  OBVIOUS
<1>4. CASE ph = "short" /\ m.iterator[c] = s /\ LongDue(m, c, s)
  <2>1. n = [m EXCEPT !.sock[s].long = None] /\ ph1 = "long" /\ a1 = a
    BY <1>4 DEF Returned
  <2> HIDE DEF c, s
  <2>2. /\ c \in Contexts /\ s \in Sockets
        /\ m.iterator[c] # NULL => Place(m.sock[m.iterator[c]]) = <<"head", c>>
        /\ \A d \in Contexts : d # c => m.iterator[d] = NULL
        /\ \A t \in Sockets : Left(m, c, m.iterator[c], r, t)
        /\ m.iterator[c] = s /\ m.sock[s].kind = "socket" /\ Alive(m, s) => ShortSettled(m, s)
    BY <1>0, <1>2, <1>3, ReturnLeft
  <2>3. Place(m.sock[s]) = <<"head", c>> /\ s \in Pointer
    BY <1>4, <2>2, Constants DEF Pointer
  <2>4. Walking(m, c, s, r)
    BY <1>4, <2>2, <2>3 DEF Walking
  <2>5. ShortSettled(m, s)
    BY <1>0, <1>4, <2>2, <2>3, PlaceAlive
  <2> DEFINE k == LongFired(m.sock[s])
             m1 == [m EXCEPT !.iterator[c] = s]
  <2>6. m1 = m
    BY <1>0, <1>4, <2>2 DEF Memory
  <2>7. Fires(m, n, c, s, k)
    <3> HIDE DEF m1, k
    <3>1. m1 = [m EXCEPT !.iterator[c] = s]
      BY DEF m1
    <3>2. Fires(m, [m1 EXCEPT !.sock[s].long = None], c, s, LongFired(m.sock[s]))
      BY <1>0, <2>2, <3>1, FiresIs
    <3> QED BY <2>1, <2>6, <3>2 DEF k
  <2>8. k = LongFired(m.sock[s])
    OBVIOUS
  <2> HIDE DEF k
  <2>9. Sound(n, ph1, a, pa, ti)
    BY <1>0, <1>2, <1>3, <2>1, <2>2, <2>4, <2>5, <2>7, <2>8, FoundSound
  <2> QED BY <2>1, <2>9
<1>5. CASE ~(ph = "short" /\ m.iterator[c] = s /\ LongDue(m, c, s))
  <2> DEFINE p == IF m.iterator[c] = s THEN m.sock[s].next ELSE m.iterator[c]
  <2>1. Sought(m, c, p, n, ph1, a1)
    BY <1>5 DEF Returned
  <2>2. p = IF m.iterator[c] = s THEN m.sock[s].next ELSE m.iterator[c]
    OBVIOUS
  <2> HIDE DEF p, c, s
  <2>3. Walking(m, c, p, r)
    BY <1>0, <1>2, <1>3, <1>5, <2>2, ReturnWalking
  <2>4. c \in Contexts
    BY <1>0, <1>3 DEF Swept
  <2> QED BY <1>0, <1>2, <2>1, <2>3, <2>4, SoughtSound
<1> QED BY <1>4, <1>5

\* A new tick of the context that is swept, and the walk from its first socket.
LEMMA ContextSound ==
  ASSUME NEW m, NEW a, NEW pa, NEW ti, Sound(m, "sweep", a, pa, ti),
         NEW c, c = a.ctx, NEW m1, m1 = Tick(m, c), NEW n, NEW ph1, NEW a1, Sought(m1, c, m1.head[c], n, ph1, a1)
  PROVE  Sound(n, ph1, a1, pa, ti)
<1> DEFINE ph == "sweep"
<1>0. /\ m \in Memory /\ Walked(m, ph, a) /\ Records(m, ph, pa, ti) /\ ph \notin Handlers /\ c \in Contexts
  BY DEF Sound, Swept, Handlers
<1> HIDE DEF ph
<1>1. PICK b \in Nat : \E r \in Ranking(b) : Threads(m, Placed(m), r) /\ Walk(m, ph, a, r)
  BY <1>0 DEF Walked
<1>2. PICK r \in Ranking(b) : Threads(m, Placed(m), r) /\ Walk(m, ph, a, r)
  BY <1>1
<1>3. TickTo(m, m1, c)
  BY <1>0, TickIs
<1>4. /\ m1 \in Memory /\ Threads(m1, Placed(m1), r) /\ Records(m1, ph, pa, ti)
      /\ Walking(m1, c, m1.head[c], r)
  BY <1>0, <1>2, <1>3, TickWalking
<1> DEFINE p == m1.head[c]
<1>5. Walking(m1, c, p, r) /\ Sought(m1, c, p, n, ph1, a1)
  BY <1>4
<1> HIDE DEF p
<1> QED BY <1>0, <1>4, <1>5, SoughtSound

\* The sweep starts.
LEMMA StartSound ==
  ASSUME NEW m, NEW a, NEW pa, NEW ti, Sound(m, "timers", a, pa, ti), NEW a1, a1.ctx = NContexts
  PROVE  Sound(m, "sweep", a1, pa, ti)
<1> DEFINE ph == "timers"
           ph1 == "sweep"
<1>0. m \in Memory /\ Walked(m, ph, a) /\ Records(m, ph, pa, ti) /\ ph \notin Handlers /\ ph1 \notin Handlers
  BY DEF Sound, Handlers
<1>1. Records(m, ph1, pa, ti)
  BY <1>0 DEF Records, RecordFits
<1>2. Swept(ph1, a1)
  BY SocketLoopAssumption DEF Swept, Contexts, Handlers
<1> HIDE DEF ph, ph1
<1>3. Walked(m, ph1, a1)
  BY <1>0, WalkIdle DEF Walked
<1> QED BY <1>0, <1>1, <1>2, <1>3 DEF Sound, ph1

-----------------------------------------------------------------------------
(* The invariant is inductive.                                             *)

\* A phase in which no handler of the sweep runs begins after another one.
LEMMA PhaseSound ==
  ASSUME NEW m, NEW ph, NEW a, NEW pa, NEW ti, Sound(m, ph, a, pa, ti), ph \notin Handlers,
         NEW ph1, ph1 \notin Handlers \cup {"sweep", "immediates"}
  PROVE  Sound(m, ph1, a, pa, ti)
<1>0. m \in Memory /\ Walked(m, ph, a) /\ Records(m, ph, pa, ti) /\ ph1 \notin Handlers
  BY DEF Sound
<1>1. Records(m, ph1, pa, ti)
  BY <1>0 DEF Records, RecordFits
<1>2. Swept(ph1, a)
  BY DEF Swept, Handlers
<1>3. Walked(m, ph1, a)
  BY <1>0, WalkIdle DEF Walked
<1> QED BY <1>0, <1>1, <1>2, <1>3 DEF Sound

\* The types of the variables other than the memory.
Typed(ph, a, cl, pa, ti) ==
  /\ ph \in {"poll", "immediates", "timers", "sweep", "short", "long", "swept"}
  /\ a \in [ctx : 0 .. NContexts, sock : Pointer]
  /\ cl \in 0 .. NContexts
  /\ pa \in Seq(Sockets)
  /\ ti \in BOOLEAN

\* The invariant in terms of its parts.
LEMMA InvParts ==
  LoopInv <=> /\ Sound(l, phase, at, paused, timer) /\ Typed(phase, at, closing, paused, timer)
              /\ (paused # <<>> => timer)
BY DEF LoopInv, TypeOK, Sound, Typed

\* What the sweep leaves behind has its type.
LEMMA SoughtTyped ==
  ASSUME NEW m, NEW c \in Contexts, NEW p, NEW n, NEW ph, NEW a, Sought(m, c, p, n, ph, a),
         NEW pa, NEW ti, Sound(n, ph, a, pa, ti), NEW cl, NEW ph0, NEW a0, Typed(ph0, a0, cl, pa, ti)
  PROVE  Typed(ph, a, cl, pa, ti)
<1>1. \/ a = [ctx |-> c - 1, sock |-> NULL] /\ ph \in {"sweep", "swept"}
      \/ a = [ctx |-> a.ctx, sock |-> a.sock] /\ ph \in {"short", "long"}
  BY DEF Sought
<1>2. NULL \in Pointer /\ (\A s \in Sockets : s \in Pointer) /\ c - 1 \in 0 .. NContexts /\ c \in 0 .. NContexts
      /\ \A d \in Contexts : d \in 0 .. NContexts
  BY SocketLoopAssumption DEF Pointer, Contexts
<1>3. CASE ph \in {"short", "long"}
  <2>1. a.ctx \in Contexts /\ a.sock \in Sockets
    BY <1>3 DEF Sound, Swept, Handlers
  <2> QED BY <1>1, <1>2, <1>3, <2>1 DEF Typed
<1> QED BY <1>1, <1>2, <1>3 DEF Typed

\* What us_socket_context_close closes next is a socket that is not closed.
LEMMA NextAlive ==
  ASSUME LoopInv, NEW c \in Contexts, NEW s, s = NextToClose(c), s # NULL
  PROVE  s \in Sockets /\ Alive(l, s)
<1>0. l \in Memory /\ Walked(l, phase, at)
  BY DEF LoopInv, TypeOK
<1>1. PICK b \in Nat : \E r \in Ranking(b) : Threads(l, Placed(l), r)
  BY <1>0 DEF Walked
<1>2. PICK r \in Ranking(b) : Threads(l, Placed(l), r)
  BY <1>1
<1> DEFINE x == <<"listen", c>>
           y == <<"head", c>>
<1>3. /\ x \in Lists /\ y \in Lists /\ Queue \in Lists /\ x \in Doubly /\ y \in Doubly /\ Queue \in Doubly
      /\ First(l, x) = l.listen[c] /\ First(l, y) = l.head[c] /\ First(l, Queue) = l.low
      /\ \A t \in Sockets : Placed(l)[t] = Place(l.sock[t])
  BY <1>0, PlacedType DEF Lists, Doubly, Listens, Heads, First, Queue, Closed
<1> HIDE DEF x, y
<1>4. ASSUME NextListed(c) # NULL PROVE NextListed(c) \in Sockets /\ Alive(l, NextListed(c))
  <2>1. CASE l.listen[c] # NULL
    <3>1. l.listen[c] \in Sockets /\ Place(l.sock[l.listen[c]]) \in Doubly
      BY <1>2, <1>3, <2>1 DEF Threads
    <3> QED BY <1>0, <2>1, <3>1, PlaceAlive DEF NextListed
  <2>2. CASE l.listen[c] = NULL
    <3>1. l.head[c] \in Sockets /\ Place(l.sock[l.head[c]]) \in Doubly
      BY <1>2, <1>3, <1>4, <2>2 DEF Threads, NextListed
    <3> QED BY <1>0, <2>2, <3>1, PlaceAlive DEF NextListed
  <2> QED BY <2>1, <2>2
<1>5. ASSUME NextQueued(c) # NULL PROVE NextQueued(c) \in Sockets /\ Alive(l, NextQueued(c))
  <2> DEFINE q == Chain(l, l.low)
             I == {i \in DOMAIN q : l.sock[q[i]].ctx = c}
             w == Placed(l)
             u == NextQueued(c)
  <2>1. u = FirstOf(q, I)
    BY DEF NextQueued
  <2>2. w \in Placing /\ Threads(l, w, r)
    BY <1>0, <1>2, PlacedType
  <2> HIDE DEF w, u
  <2>3. Descends(l, w, r, Queue, First(l, Queue), q)
    <3>1. q = Chain(l, First(l, Queue))
      BY <1>3
    <3> HIDE DEF q
    <3> QED BY <1>0, <1>3, <2>2, <3>1, WholeList
  <2> HIDE DEF q
  <2>4. q \in Seq(Sockets) /\ \A i \in 1 .. Len(q) : w[q[i]] = Queue
    BY <2>3 DEF Descends
  <2>5. I \in SUBSET Nat /\ \A i \in I : q[i] \in Sockets /\ w[q[i]] = Queue
    BY <2>4
  <2> HIDE DEF I
  <2>6. I # {}
    BY <1>5, <2>1 DEF FirstOf, u
  <2>7. \E i \in I : \A j \in I : i <= j
    BY <2>5, <2>6, LeastNatural
  <2>8. u \in Sockets /\ w[u] = Queue
    BY <2>1, <2>5, <2>6, <2>7 DEF FirstOf
  <2>9. Place(l.sock[u]) \in Doubly
    BY <1>3, <2>8 DEF w
  <2> QED BY <1>0, <2>8, <2>9, PlaceAlive DEF u
<1> QED BY <1>4, <1>5 DEF NextToClose

\* The listen sockets that the accept timer takes for alive are alive.
LEMMA LiveListen ==
  ASSUME LoopInv, NEW s \in Sockets
  PROVE  IsLiveListenSocket(s) <=> l.sock[s].kind = "listen" /\ Alive(l, s)
<1>0. l \in Memory /\ Walked(l, phase, at)
  BY DEF LoopInv, TypeOK
<1>1. PICK b \in Nat : \E r \in Ranking(b) : Threads(l, Placed(l), r)
  BY <1>0 DEF Walked
<1>2. PICK r \in Ranking(b) : Threads(l, Placed(l), r)
  BY <1>1
<1>3. ASSUME NEW c \in Contexts
      PROVE  s \in Elements(Chain(l, l.listen[c])) <=> Place(l.sock[s]) = <<"listen", c>>
  <2> DEFINE v == <<"listen", c>>
             p == l.listen[c]
  <2>1. v \in Lists /\ p = First(l, v)
    BY DEF Lists, Doubly, Listens, First, Queue, Closed
  <2> HIDE DEF v, p
  <2>2. /\ Elements(Chain(l, p)) = At(Placed(l), v)
        /\ s \in At(Placed(l), v) <=> s \in Sockets /\ Place(l.sock[s]) = v
    BY <1>0, <1>2, <2>1, ListMembers
  <2> QED BY <2>2 DEF v, p
<1>4. IsLiveListenSocket(s) <=> \E c \in Contexts : s \in Elements(Chain(l, l.listen[c]))
  BY DEF IsLiveListenSocket, Elements
<1>5. l.sock[s].ctx \in Contexts
  BY <1>0, SocketType DEF Socket
<1> QED BY <1>0, <1>3, <1>4, <1>5, PlaceAlive

\* At the start nothing is in a list.
LEMMA InitInv ==
  ASSUME Init PROVE LoopInv
<1>0. /\ 1 \in Contexts /\ NULL \in Pointer /\ None \in 0 .. Modulus /\ 0 \in Nat /\ {} \in SUBSET {"short", "long"}
      /\ 0 \in 0 .. Modulus * LongRatio - 1 /\ Budget \in 0 .. Budget /\ 0 \in 0 .. NContexts
      /\ <<>> \in Seq(Sockets)
  <2>1. Modulus * LongRatio \in Nat \ {0}
    BY SocketLoopAssumption
  <2>2. 0 \in 0 .. Modulus * LongRatio - 1
    <3> DEFINE B == Modulus * LongRatio
    <3>1. B \in Nat \ {0}
      BY <2>1
    <3> HIDE DEF B
    <3>2. 0 \in 0 .. B - 1
      BY <3>1
    <3> QED BY <3>2 DEF B
  <2> QED BY <2>2, SocketLoopAssumption DEF Contexts, Pointer, None
<1>1. Blank \in Socket
  <2>1. Blank.missed = {}
    BY DEF Blank
  <2> QED BY <1>0, <2>1 DEF Blank, Socket
<1>2. /\ \A s \in Sockets : l.sock[s] = Blank
      /\ \A c \in Contexts : l.head[c] = NULL /\ l.listen[c] = NULL /\ l.iterator[c] = NULL
      /\ l.low = NULL /\ l.closed = NULL
  BY DEF Init
<1>3. l \in Memory
  <2> DEFINE z == Blank
  <2>1. z \in Socket
    BY <1>1
  <2> HIDE DEF z
  <2>2. l = [sock |-> [s \in Sockets |-> z],
             head |-> [c \in Contexts |-> NULL],
             listen |-> [c \in Contexts |-> NULL],
             iterator |-> [c \in Contexts |-> NULL],
             tick |-> [c \in Contexts |-> 0],
             low |-> NULL, budget |-> Budget, closed |-> NULL]
    BY DEF Init, z
  <2> QED BY <1>0, <2>1, <2>2 DEF Memory
<1>4. /\ phase = "timers" /\ at = [ctx |-> 0, sock |-> NULL] /\ closing = 0 /\ paused = <<>> /\ timer = FALSE
  BY DEF Init
<1>5. Typed(phase, at, closing, paused, timer)
  BY <1>0, <1>4 DEF Typed
<1>6. \A s \in Sockets : Place(l.sock[s]) = Out
  BY <1>2 DEF Blank, Place
<1> DEFINE r == [s \in Sockets |-> 0]
<1>7. r \in Ranking(0) /\ 0 \in Nat
  BY DEF Ranking
<1>8. \A v \in Lists : First(l, v) = NULL
  <2>1. \A c \in Contexts : First(l, <<"head", c>>) = NULL /\ First(l, <<"listen", c>>) = NULL
    BY <1>2 DEF First, Queue, Closed
  <2>2. First(l, Queue) = NULL /\ First(l, Closed) = NULL
    BY <1>2 DEF First, Queue, Closed
  <2> QED BY <2>1, <2>2 DEF Lists, Doubly, Heads, Listens
<1>9. Threads(l, Placed(l), r)
  <2>1. \A s \in Sockets : Placed(l)[s] \notin Lists /\ Placed(l)[s] \notin Doubly
    BY <1>6, ListsDiffer DEF Placed
  <2> HIDE DEF r
  <2> QED BY <1>8, <2>1 DEF Threads
<1>10. Walk(l, phase, at, r)
  <2>1. \A s \in Sockets : l.sock[s].kind # "socket"
    BY <1>2 DEF Blank
  <2>2. CursorIn(l, phase, at)
    BY <1>2, <1>4 DEF CursorIn, Handlers
  <2> QED BY <2>1, <2>2 DEF Walk, Coming
<1>11. Records(l, phase, paused, timer)
  <2>1. Blank.timeout = None /\ Blank.long = None
    BY DEF Blank
  <2>2. InTime(Blank)
    BY <2>1, NoTimes
  <2> QED BY <1>2, <1>4, <2>2 DEF Records, RecordSound, RecordFits, Blank
<1>12. Swept(phase, at)
  BY <1>4 DEF Swept, Handlers
<1> QED BY <1>3, <1>4, <1>5, <1>7, <1>9, <1>10, <1>11, <1>12, InvParts DEF Sound, Walked

\* What a step has to show.
LEMMA InvNext ==
  ASSUME Sound(l', phase', at', paused', timer'), Typed(phase', at', closing', paused', timer'),
         paused' # <<>> => timer'
  PROVE  LoopInv'
BY DEF LoopInv, TypeOK, Sound, Typed

\* The phases of an iteration.
LEMMA IterateKeeps ==
  ASSUME LoopInv, Iterate PROVE LoopInv'
<1>0. /\ Sound(l, phase, at, paused, timer) /\ Typed(phase, at, closing, paused, timer) /\ (paused # <<>> => timer)
      /\ l \in Memory
  BY InvParts DEF Sound
<1>1. CASE Prepare
  <2>1. phase \notin Handlers /\ l' = HandleLowPriority(l) /\ phase' = "poll" /\ UNCHANGED <<at, closing, paused, timer>>
    BY <1>1 DEF Prepare, Handlers
  <2>2. Sound(l', phase, at, paused, timer)
    BY <1>0, <2>1, HandleSound
  <2>3. phase' \notin Handlers \cup {"sweep", "immediates"}
    BY <2>1 DEF Handlers
  <2>4. Sound(l', phase', at, paused, timer)
    BY <2>1, <2>2, <2>3, PhaseSound
  <2> QED BY <1>0, <2>1, <2>4, InvNext DEF Typed
<1>2. CASE Check
  <2>1. phase \notin Handlers /\ l' = FreeClosed(l) /\ phase' = "immediates" /\ UNCHANGED <<at, closing, paused, timer>>
    BY <1>2 DEF Check, Handlers
  <2>2. Sound(l', phase', at, paused, timer)
    BY <1>0, <2>1, FreeClosedSound
  <2> QED BY <1>0, <2>1, <2>2, InvNext DEF Typed
<1>3. CASE CloseCallbacks
  <2>1. phase = "immediates" /\ phase' = "timers" /\ UNCHANGED <<at, closing, paused, timer>>
    BY <1>3 DEF CloseCallbacks
  <2>2. l' = [l EXCEPT !.sock = [s \in Sockets |-> Called(@[s])]]
    BY <1>3 DEF CloseCallbacks, Called
  <2>3. Sound(l', phase', at, paused, timer)
    BY <1>0, <2>1, <2>2, CallbacksSound
  <2> QED BY <1>0, <2>1, <2>3, InvNext DEF Typed
<1>4. CASE SweepStart
  <2>1. /\ phase = "timers" /\ phase' = "sweep" /\ at' = [ctx |-> NContexts, sock |-> NULL]
        /\ UNCHANGED <<l, closing, paused, timer>>
    BY <1>4 DEF SweepStart
  <2>2. at'.ctx = NContexts
    BY <2>1
  <2>3. Sound(l, phase', at', paused, timer)
    BY <1>0, <2>1, <2>2, StartSound
  <2>4. NContexts \in 0 .. NContexts /\ NULL \in Pointer
    BY SocketLoopAssumption DEF Pointer
  <2>5. Typed(phase', at', closing, paused, timer)
    BY <1>0, <2>1, <2>4 DEF Typed
  <2> QED BY <1>0, <2>1, <2>3, <2>5, InvNext
<1>5. CASE SweepContext
  <2> DEFINE c == at.ctx
             m == Tick(l, c)
             p == m.head[c]
  <2>1. phase = "sweep" /\ Seek(m, c, p) /\ UNCHANGED <<closing, paused, timer>>
    BY <1>5 DEF SweepContext
  <2>2. c \in Contexts /\ c = at.ctx /\ m = Tick(l, c)
    BY <1>0, <2>1 DEF Sound, Swept
  <2> HIDE DEF c, m
  <2>3. Sought(m, c, p, l', phase', at')
    BY <2>1 DEF Seek, Sought, FirstDue, DueIn
  <2>4. Sound(l', phase', at', paused, timer)
    BY <1>0, <2>1, <2>2, <2>3, ContextSound
  <2> HIDE DEF p
  <2>5. Typed(phase', at', closing, paused, timer)
    BY <1>0, <2>2, <2>3, <2>4, SoughtTyped
  <2> QED BY <1>0, <2>1, <2>4, <2>5, InvNext
<1>6. CASE SweepReturn
  <2> DEFINE c == at.ctx
             s == at.sock
             p == ResumeAt(c, s)
  <2>1. phase \in Handlers /\ UNCHANGED <<closing, paused, timer>>
    BY <1>6 DEF SweepReturn, Handlers
  <2>2. at = [ctx |-> at.ctx, sock |-> at.sock]
    BY <1>0 DEF Typed
  <2>3. \/ /\ phase = "short" /\ l.iterator[c] = s /\ LongDue(l, c, s)
           /\ l' = [l EXCEPT !.sock[s].long = None] /\ phase' = "long" /\ at' = at
        \/ /\ ~(phase = "short" /\ l.iterator[c] = s /\ LongDue(l, c, s))
           /\ Sought(l, c, p, l', phase', at')
    BY <1>6 DEF SweepReturn, Seek, Sought, FirstDue, DueIn
  <2>4. p = IF l.iterator[c] = s THEN l.sock[s].next ELSE l.iterator[c]
    BY DEF ResumeAt
  <2> HIDE DEF p
  <2>5. Returned(l, phase, at, l', phase', at')
    BY <2>3, <2>4 DEF Returned
  <2>6. Sound(l', phase', at', paused, timer)
    BY <1>0, <2>1, <2>2, <2>5, ReturnSound
  <2>7. c \in Contexts
    BY <1>0, <2>1 DEF Sound, Swept
  <2> HIDE DEF c, s
  <2>8. Typed(phase', at', closing, paused, timer)
    <3>1. CASE phase' = "long" /\ at' = at
      BY <1>0, <3>1 DEF Typed
    <3>2. CASE Sought(l, c, p, l', phase', at')
      BY <1>0, <2>6, <2>7, <3>2, SoughtTyped
    <3> QED BY <2>3, <3>1, <3>2
  <2> QED BY <1>0, <2>1, <2>6, <2>8, InvNext
<1>7. CASE AcceptTimer
  <2> DEFINE R == {s \in Sockets : (\E i \in DOMAIN paused : paused[i] = s) /\ Resumes(s)}
  <2>1. phase \notin Handlers /\ timer' = FALSE /\ paused' = <<>> /\ UNCHANGED <<phase, at, closing>>
    BY <1>7 DEF AcceptTimer, Handlers
  <2>2. l' = Resumed(l, R)
    BY <1>7 DEF AcceptTimer, ResumedIn, Resumed
  <2>3. \A s \in Sockets : Resumes(s) <=> l.sock[s].kind = "listen" /\ Alive(l, s)
    BY LiveListen DEF Resumes
  <2>4. Resumable(l, paused, R)
    BY <2>3 DEF Resumable
  <2> HIDE DEF R
  <2>5. Sound(l', phase, at, <<>>, FALSE)
    BY <1>0, <2>1, <2>2, <2>4, ResumeSound
  <2>6. Typed(phase, at, closing, <<>>, FALSE)
    BY <1>0 DEF Typed
  <2> QED BY <2>1, <2>5, <2>6, InvNext
<1> QED BY <1>1, <1>2, <1>3, <1>4, <1>5, <1>6, <1>7 DEF Iterate

\* What happens to one socket in a poll callback.
LEMMA PollKeeps ==
  ASSUME LoopInv, NEW s \in Sockets, Readable(s) \/ PauseListen(s) PROVE LoopInv'
<1>0. /\ Sound(l, phase, at, paused, timer) /\ Typed(phase, at, closing, paused, timer) /\ (paused # <<>> => timer)
      /\ l \in Memory
  BY InvParts DEF Sound
<1>1. CASE Readable(s)
  <2>1. /\ phase \notin Handlers /\ l.sock[s].kind = "socket" /\ Alive(l, s) /\ l.sock[s].reads /\ l.sock[s].shaking
        /\ UNCHANGED <<phase, at, closing, paused, timer>>
    BY <1>1 DEF Readable, Open, Handlers
  <2>2. CASE l.sock[s].low # 2 /\ l.budget = 0
    <3>1. l' = PushLow(Unlink(l, s), s)
      BY <1>1, <2>2 DEF Readable
    <3>2. Sound(l', phase, at, paused, timer)
      BY <1>0, <2>1, <3>1, QueueSound
    <3> QED BY <1>0, <2>1, <3>2, InvNext
  <2>3. CASE ~(l.sock[s].low # 2 /\ l.budget = 0)
    <3>1. PICK more \in BOOLEAN :
            l' = [l EXCEPT !.sock[s].low = 0, !.sock[s].shaking = more,
                           !.budget = IF l.sock[s].low = 2 THEN @ ELSE @ - 1]
      BY <1>1, <2>3 DEF Readable
    <3>2. Sound(l', phase, at, paused, timer)
      BY <1>0, <2>1, <2>3, <3>1, DataSound
    <3> QED BY <1>0, <2>1, <3>2, InvNext
  <2> QED BY <2>2, <2>3
<1>2. CASE PauseListen(s)
  <2>1. /\ l.sock[s].kind = "listen" /\ Alive(l, s) /\ l' = [l EXCEPT !.sock[s].reads = FALSE]
        /\ paused' = <<s>> \o paused /\ timer' = (timer \/ paused = <<>>) /\ UNCHANGED <<phase, at, closing>>
    BY <1>2 DEF PauseListen, Listening
  <2>2. paused \in Seq(Sockets)
    BY <1>0 DEF Typed
  <2>3. PausedTo(s, paused, timer, paused', timer') /\ timer'
    BY <1>0, <2>1 DEF PausedTo
  <2>4. Sound(l', phase, at, paused', timer') /\ timer'
    BY <1>0, <2>1, <2>2, <2>3, PauseSound
  <2>5. paused' \in Seq(Sockets) /\ timer' \in BOOLEAN
    BY <2>1, <2>2, <2>4
  <2>6. Typed(phase, at, closing, paused', timer')
    BY <1>0, <2>5 DEF Typed
  <2> QED BY <2>1, <2>4, <2>6, InvNext
<1> QED BY <1>1, <1>2

\* What the application does with one socket.
LEMMA CallKeeps ==
  ASSUME LoopInv, NEW s \in Sockets, CloseSocket(s) \/ Timeout(s) PROVE LoopInv'
<1>0. /\ Sound(l, phase, at, paused, timer) /\ Typed(phase, at, closing, paused, timer) /\ (paused # <<>> => timer)
  BY InvParts
<1>1. CASE CloseSocket(s)
  <2>1. /\ Alive(l, s) /\ UNCHANGED <<phase, at, closing, paused, timer>>
        /\ \/ l' = Close(l, s) /\ l.sock[s].kind = "socket"
           \/ l' = ListenClose(l, s) /\ l.sock[s].kind = "listen"
    BY <1>1 DEF CloseSocket, Open, Listening
  <2>2. Sound(l', phase, at, paused, timer)
    BY <1>0, <2>1, CloseSound
  <2> QED BY <1>0, <2>1, <2>2, InvNext
<1>2. CASE Timeout(s)
  <2>1. UNCHANGED <<phase, at, closing, paused, timer>>
    BY <1>2 DEF Timeout
  <2>2. PICK i \in ShortTicks \cup LongMinutes : l' = SetTimeout(l, s, i) \/ l' = SetLongTimeout(l, s, i)
    BY <1>2 DEF Timeout
  <2>3. Sound(l', phase, at, paused, timer)
    BY <1>0, <2>2, TimeoutSound
  <2> QED BY <1>0, <2>1, <2>3, InvNext
<1> QED BY <1>1, <1>2

\* Sockets that are opened and adopted.
LEMMA OpenKeeps ==
  ASSUME LoopInv, NEW s \in Sockets, NEW c \in Contexts, OpenSocket(c, s) \/ Listen(c, s) PROVE LoopInv'
<1>0. /\ Sound(l, phase, at, paused, timer) /\ Typed(phase, at, closing, paused, timer) /\ (paused # <<>> => timer)
  BY InvParts
<1>1. PICK kind \in {"socket", "listen"} : l' = Link([l EXCEPT !.sock[s] = New(c, kind)], c, s)
  BY DEF OpenSocket, Listen
<1>2. l.sock[s].kind = "free" /\ UNCHANGED <<phase, at, closing, paused, timer>>
  BY DEF OpenSocket, Listen
<1>3. Sound(l', phase, at, paused, timer)
  BY <1>0, <1>1, <1>2, NewSound
<1> QED BY <1>0, <1>2, <1>3, InvNext

\* Adoption keeps the invariant.
LEMMA AdoptKeeps ==
  ASSUME LoopInv, NEW s \in Sockets, NEW c \in Contexts, NEW u \in Sockets, Adopt(s, c, u) PROVE LoopInv'
<1>0. /\ Sound(l, phase, at, paused, timer) /\ Typed(phase, at, closing, paused, timer) /\ (paused # <<>> => timer)
  BY InvParts
<1>1. /\ l.sock[s].kind = "socket" /\ Alive(l, s) /\ ~l.sock[s].shaking /\ l.sock[u].kind = "free"
      /\ l' = Link(Moved(Unlink(l, s), s, u), c, u) /\ UNCHANGED <<phase, at, closing, paused, timer>>
  BY DEF Adopt, Open
<1>2. Sound(l', phase, at, paused, timer)
  BY <1>0, <1>1, AdoptSound
<1> QED BY <1>0, <1>1, <1>2, InvNext

\* A context is closed.
LEMMA ContextKeeps ==
  ASSUME LoopInv, CloseNext \/ \E c \in Contexts : CloseContext(c) PROVE LoopInv'
<1>0. /\ Sound(l, phase, at, paused, timer) /\ Typed(phase, at, closing, paused, timer) /\ (paused # <<>> => timer)
      /\ l \in Memory
  BY InvParts DEF Sound
<1>1. CASE \E c \in Contexts : CloseContext(c)
  <2>1. PICK c \in Contexts : CloseContext(c)
    BY <1>1
  <2>2. closing' = c /\ c \in 0 .. NContexts /\ UNCHANGED <<l, phase, at, paused, timer>>
    BY <2>1 DEF CloseContext, Contexts
  <2>3. Typed(phase, at, closing', paused, timer)
    BY <1>0, <2>2 DEF Typed
  <2> QED BY <1>0, <2>2, <2>3, InvNext
<1>2. CASE CloseNext
  <2> DEFINE s == NextToClose(closing)
  <2>1. closing # 0 /\ closing \in Contexts /\ UNCHANGED <<phase, at, paused, timer>>
    BY <1>0, <1>2 DEF CloseNext, Typed, Contexts
  <2>2. CASE s = NULL
    <3>1. closing' = 0 /\ UNCHANGED l
      BY <1>2, <2>2 DEF CloseNext
    <3>2. 0 \in 0 .. NContexts
      BY SocketLoopAssumption
    <3>3. Typed(phase, at, closing', paused, timer)
      BY <1>0, <3>1, <3>2 DEF Typed
    <3> QED BY <1>0, <2>1, <3>1, <3>3, InvNext
  <2>3. CASE s # NULL
    <3>1. /\ l' = IF Listening(s) THEN ListenClose(l, s) ELSE Close(l, s)
          /\ UNCHANGED closing
      BY <1>2, <2>3 DEF CloseNext
    <3>2. s \in Sockets /\ Alive(l, s)
      BY <2>1, <2>3, NextAlive
    <3> HIDE DEF s
    <3>3. l.sock[s].kind \in {"socket", "listen"}
      BY <3>2 DEF Alive
    <3>4. \/ l' = Close(l, s) /\ l.sock[s].kind = "socket"
          \/ l' = ListenClose(l, s) /\ l.sock[s].kind = "listen"
      BY <3>1, <3>2, <3>3 DEF Listening
    <3>5. Sound(l', phase, at, paused, timer)
      BY <1>0, <3>2, <3>4, CloseSound
    <3> QED BY <1>0, <2>1, <3>1, <3>5, InvNext
  <2> QED BY <2>2, <2>3
<1> QED BY <1>1, <1>2

\* Every step keeps the invariant.
LEMMA NextInv ==
  LoopInv /\ [Next]_vars => LoopInv'
<1> SUFFICES ASSUME LoopInv, [Next]_vars PROVE LoopInv'
  OBVIOUS
<1>1. CASE Iterate
  BY <1>1, IterateKeeps
<1>2. CASE CloseNext \/ \E c \in Contexts : CloseContext(c)
  BY <1>2, ContextKeeps
<1>3. ASSUME NEW s \in Sockets, Readable(s) \/ PauseListen(s) \/ CloseSocket(s) \/ Timeout(s) PROVE LoopInv'
  BY <1>3, PollKeeps, CallKeeps
<1>4. ASSUME NEW s \in Sockets, NEW c \in Contexts, OpenSocket(c, s) \/ Listen(c, s) PROVE LoopInv'
  BY <1>4, OpenKeeps
<1>5. ASSUME NEW s \in Sockets, NEW c \in Contexts, NEW n \in Sockets, Adopt(s, c, n) PROVE LoopInv'
  BY <1>5, AdoptKeeps
<1>6. CASE UNCHANGED vars
  <2>1. /\ Sound(l, phase, at, paused, timer) /\ Typed(phase, at, closing, paused, timer) /\ (paused # <<>> => timer)
    BY InvParts
  <2> QED BY <1>6, <2>1, InvNext DEF vars
<1> QED BY <1>1, <1>2, <1>3, <1>4, <1>5, <1>6 DEF Next

\* The invariant of the event loop: the lists are threads of falling rank, the sweep has
\* every due timeout ahead of it, and every record agrees with the phase of the loop
\* (loop.c:82-172, context.c:35-133).
THEOREM Inductive == Spec => []LoopInv
BY InitInv, NextInv, PTL DEF Spec

-----------------------------------------------------------------------------
(* What follows from the invariant.                                        *)

\* A list as the records say it is.
LEMMA ListIs ==
  ASSUME LoopInv, NEW v \in Lists, NEW p, p = First(l, v), NEW S, S = At(Placed(l), v)
  PROVE  Members(p) = S /\ (v \in Doubly => IsList(p, S)) /\ \A s : s \in S <=> s \in Sockets /\ Place(l.sock[s]) = v
<1>0. l \in Memory /\ Walked(l, phase, at)
  BY DEF LoopInv, TypeOK
<1>1. PICK b \in Nat : \E r \in Ranking(b) : Threads(l, Placed(l), r)
  BY <1>0 DEF Walked
<1>2. PICK r \in Ranking(b) : Threads(l, Placed(l), r)
  BY <1>1
<1> DEFINE q == Chain(l, p)
           w == Placed(l)
<1>3. w \in Placing /\ Threads(l, w, r) /\ S = At(w, v)
  BY <1>0, <1>2, PlacedType
<1>4. q = Chain(l, First(l, v))
  OBVIOUS
<1> HIDE DEF w
<1>5. /\ Elements(q) = At(w, v) /\ Len(q) = Cardinality(At(w, v))
      /\ v \in Doubly => \A i \in DOMAIN q : l.sock[q[i]].prev = IF i = 1 THEN NULL ELSE q[i - 1]
  <2> HIDE DEF q
  <2> QED BY <1>0, <1>3, <1>4, WholeList
<1>6. Members(p) = Elements(q)
  BY DEF Members, Elements
<1>7. v \in Doubly => IsList(p, S)
  BY <1>3, <1>5, <1>6 DEF IsList
<1>8. \A s : s \in S <=> s \in Sockets /\ Place(l.sock[s]) = v
  BY <1>0, <1>3, PlacedType DEF At, w
<1> QED BY <1>3, <1>5, <1>6, <1>7, <1>8

\* The threads are the lists.
LEMMA InvLists ==
  LoopInv => ListsSound
<1> SUFFICES ASSUME LoopInv PROVE ListsSound
  OBVIOUS
<1>0. TypeOK /\ l \in Memory
  BY DEF LoopInv, TypeOK
<1>1. ASSUME NEW c \in Contexts
      PROVE  /\ IsList(l.head[c], {s \in Sockets : Open(s) /\ l.sock[s].ctx = c /\ l.sock[s].low # 1})
             /\ IsList(l.listen[c], {s \in Sockets : Listening(s) /\ l.sock[s].ctx = c})
  <2> DEFINE x == <<"head", c>>
             y == <<"listen", c>>
             H == At(Placed(l), x)
             L == At(Placed(l), y)
  <2>1. /\ x \in Lists /\ x \in Doubly /\ First(l, x) = l.head[c]
        /\ y \in Lists /\ y \in Doubly /\ First(l, y) = l.listen[c]
    BY DEF Lists, Doubly, Heads, Listens, First, Queue, Closed
  <2> HIDE DEF x, y
  <2>2. /\ IsList(l.head[c], H) /\ \A s : s \in H <=> s \in Sockets /\ Place(l.sock[s]) = x
        /\ IsList(l.listen[c], L) /\ \A s : s \in L <=> s \in Sockets /\ Place(l.sock[s]) = y
    BY <2>1, ListIs
  <2> HIDE DEF H, L
  <2>3. H = {s \in Sockets : Open(s) /\ l.sock[s].ctx = c /\ l.sock[s].low # 1}
    <3>1. \A s \in Sockets : Place(l.sock[s]) = x <=> Open(s) /\ l.sock[s].ctx = c /\ l.sock[s].low # 1
      BY <1>0, PlaceAlive DEF x, Open
    <3> QED BY <2>2, <3>1
  <2>4. L = {s \in Sockets : Listening(s) /\ l.sock[s].ctx = c}
    <3>1. \A s \in Sockets : Place(l.sock[s]) = y <=> Listening(s) /\ l.sock[s].ctx = c
      BY <1>0, PlaceAlive DEF y, Listening
    <3> QED BY <2>2, <3>1
  <2> QED BY <2>2, <2>3, <2>4
<1>2. IsList(l.low, {s \in Sockets : Open(s) /\ l.sock[s].low = 1})
  <2> DEFINE Q == At(Placed(l), Queue)
  <2>1. Queue \in Lists /\ Queue \in Doubly /\ First(l, Queue) = l.low
    BY DEF Lists, Doubly, First, Queue, Closed
  <2>2. IsList(l.low, Q) /\ \A s : s \in Q <=> s \in Sockets /\ Place(l.sock[s]) = Queue
    BY <2>1, ListIs
  <2> HIDE DEF Q
  <2>3. Q = {s \in Sockets : Open(s) /\ l.sock[s].low = 1}
    <3>1. \A s \in Sockets : Place(l.sock[s]) = Queue <=> Open(s) /\ l.sock[s].low = 1
      BY <1>0, PlaceAlive DEF Open
    <3> QED BY <2>2, <3>1
  <2> QED BY <2>2, <2>3
<1>3. Members(l.closed) = {s \in Sockets : l.sock[s].kind \in {"socket", "listen"} /\ ~Alive(l, s)}
  <2> DEFINE Q == At(Placed(l), Closed)
  <2>1. Closed \in Lists /\ First(l, Closed) = l.closed
    BY DEF Lists, First
  <2>2. Members(l.closed) = Q /\ \A s : s \in Q <=> s \in Sockets /\ Place(l.sock[s]) = Closed
    BY <2>1, ListIs
  <2> HIDE DEF Q
  <2>3. Q = {s \in Sockets : l.sock[s].kind \in {"socket", "listen"} /\ ~Alive(l, s)}
    <3>1. \A s \in Sockets : Place(l.sock[s]) = Closed <=> l.sock[s].kind \in {"socket", "listen"} /\ ~Alive(l, s)
      BY <1>0, PlaceAlive DEF Alive, IsClosed
    <3> QED BY <2>2, <3>1
  <2> QED BY <2>2, <2>3
<1> QED BY <1>0, <1>1, <1>2, <1>3 DEF ListsSound, ListsWellFormed

\* The records say what is polled and what leaks.
LEMMA InvPolled ==
  LoopInv => Polled /\ LeaksOnlyLate
<1> SUFFICES ASSUME LoopInv, NEW s \in Sockets
             PROVE  /\ Open(s) => l.sock[s].reads = (l.sock[s].low # 1)
                    /\ Listening(s) /\ ~l.sock[s].reads => timer /\ \E i \in DOMAIN paused : paused[i] = s
                    /\ l.sock[s].kind \in {"free", "dead"} \/ ~Alive(l, s) => ~l.sock[s].reads
                    /\ l.sock[s].handle = "leaked" => l.sock[s].late
  BY DEF Polled, LeaksOnlyLate
<1> DEFINE k == l.sock[s]
<1>1. k \in Socket /\ RecordSound(k) /\ RecordFits(k, s, phase, paused, timer)
  BY SocketType DEF LoopInv, TypeOK, Records
<1>2. Alive(l, s) <=> k.kind \in {"socket", "listen"} /\ k.prev # k.ctx
  BY DEF Alive, IsClosed
<1> HIDE DEF k
<1>3. k.kind \in {"free", "socket", "listen", "dead"} /\ k.reads \in BOOLEAN
  BY <1>1 DEF Socket
<1> QED BY <1>1, <1>2, <1>3 DEF RecordSound, RecordFits, Open, Listening, k

\* The walk of the sweep has its cursor in the list and passes over nothing.
LEMMA InvSweep ==
  LoopInv => SweepSound
<1> SUFFICES ASSUME LoopInv PROVE SweepSound
  OBVIOUS
<1>0. l \in Memory /\ Walked(l, phase, at)
  BY DEF LoopInv, TypeOK
<1>1. PICK b \in Nat : \E r \in Ranking(b) : Walk(l, phase, at, r)
  BY <1>0 DEF Walked
<1>2. PICK r \in Ranking(b) : Walk(l, phase, at, r)
  BY <1>1
<1>3. SweepCursorLive
  <2> SUFFICES ASSUME NEW c \in Contexts, l.iterator[c] # NULL
               PROVE  /\ phase \in {"short", "long"} /\ at.ctx = c
                      /\ l.iterator[c] \in Members(l.head[c])
    BY DEF SweepCursorLive
  <2>1. /\ phase \in Handlers /\ at.ctx = c
        /\ l.iterator[c] \in Sockets /\ Place(l.sock[l.iterator[c]]) = <<"head", c>>
    BY <1>2 DEF Walk, CursorIn
  <2> DEFINE x == <<"head", c>>
             H == At(Placed(l), x)
  <2>2. x \in Lists /\ First(l, x) = l.head[c]
    BY DEF Lists, Doubly, Heads, First, Queue, Closed
  <2> HIDE DEF x
  <2>3. Members(l.head[c]) = H /\ \A s : s \in H <=> s \in Sockets /\ Place(l.sock[s]) = x
    BY <2>2, ListIs
  <2> HIDE DEF H
  <2> QED BY <2>1, <2>3 DEF x, Handlers
<1>4. NoTimeoutSkipped
  <2> SUFFICES ASSUME phase \notin {"sweep", "short", "long"}, NEW s \in Sockets, Open(s)
               PROVE  /\ l.sock[s].timeout # None /\ "short" \notin l.sock[s].missed => l.sock[s].wait > 0
                      /\ l.sock[s].long # None /\ "long" \notin l.sock[s].missed => l.sock[s].longWait > 0
    BY DEF NoTimeoutSkipped
  <2>1. ShortComing(l, phase, at, r, s) /\ LongComing(l, phase, at, r, s)
    BY <1>2 DEF Walk, Coming, Open
  <2>2. ~Ahead(l, phase, at, r, s)
    BY DEF Ahead, Handlers
  <2> HIDE DEF Ahead
  <2> QED BY <2>1, <2>2 DEF ShortComing, LongComing
<1> QED BY <1>3, <1>4 DEF SweepSound

\* A socket whose timeout fires is one whose ticks have passed.
DueNow(m, ph, a) ==
  IF ph = "short" THEN m.sock[a.sock].wait = 0 ELSE m.sock[a.sock].longWait < LongRatio

\* What equals the counter is due, for timeouts of less than a turn.
LEMMA DueIsDue ==
  ASSUME LessThanATurn, NEW m \in Memory, NEW c \in Contexts, NEW t \in Sockets, m.sock[t].ctx = c,
         InTime(m.sock[t]), NEW p, NEW r, ShortLeft(m, c, p, r, t), LongLeft(m, c, p, r, t)
  PROVE  /\ ShortDue(m, c, t) => m.sock[t].wait = 0
         /\ LongDue(m, c, t) => m.sock[t].longWait < LongRatio
<1> DEFINE k == m.sock[t]
           o == m.tick[c]
           f == (Modulus - 1) * LongRatio
<1>0. Modulus \in Nat \ {0} /\ LongRatio \in Nat \ {0} /\ k.wait \in Nat /\ k.longWait \in Nat /\ o \in Int
  <2>1. k \in Socket /\ o \in 0 .. Modulus * LongRatio - 1
    BY SocketType DEF Memory
  <2> HIDE DEF k, o
  <2>2. o \in Int
    BY <2>1
  <2> QED BY <2>1, <2>2, SocketLoopAssumption DEF Socket
<1>1. /\ k.timeout # None => k.wait < Modulus /\ ("short" \in k.missed => k.wait = 0)
      /\ k.long # None => k.longWait <= f /\ ("long" \in k.missed => k.longWait < LongRatio)
  BY DEF InTime
<1>2. /\ k.timeout # None /\ "short" \notin k.missed => k.timeout = (o + k.wait) % Modulus
      /\ k.long # None /\ "long" \notin k.missed => k.long = ((o + k.longWait) \div LongRatio) % Modulus
  BY DEF ShortLeft, LongLeft
<1>3. ASSUME ShortDue(m, c, t) PROVE k.wait = 0
  <2>1. k.timeout = o % Modulus
    BY <1>3 DEF ShortDue, Timestamp
  <2> HIDE DEF k, o, f
  <2>2. k.timeout # None
    BY <1>0, <2>1, Division DEF None
  <2>3. CASE "short" \notin k.missed
    <3> DEFINE e == k.wait
    <3>1. e \in 0 .. Modulus - 1 /\ (o + e) % Modulus = o % Modulus
      BY <1>0, <1>1, <1>2, <2>1, <2>2, <2>3
    <3> HIDE DEF e
    <3>2. e = 0
      BY <1>0, <3>1, ModularApart
    <3> QED BY <3>2 DEF e
  <2> QED BY <1>1, <2>2, <2>3
<1>4. ASSUME LongDue(m, c, t) PROVE k.longWait < LongRatio
  <2>1. k.long = (o \div LongRatio) % Modulus
    BY <1>4 DEF LongDue, LongTimestamp
  <2>2. k.long # None
    <3> DEFINE y == o \div LongRatio
    <3> HIDE DEF k, o
    <3>1. y \in Int /\ k.long = y % Modulus
      BY <1>0, <2>1, Division
    <3> HIDE DEF y
    <3>2. y % Modulus \in 0 .. Modulus - 1
      BY <1>0, <3>1, Division
    <3> QED BY <1>0, <3>1, <3>2 DEF None
  <2>3. CASE "long" \notin k.missed
    <3> DEFINE e == k.longWait
    <3>1. e \in Nat /\ e <= (Modulus - 1) * LongRatio
      BY <1>0, <1>1, <2>2
    <3>2. ((o + e) \div LongRatio) % Modulus = (o \div LongRatio) % Modulus
      BY <1>2, <2>1, <2>2, <2>3
    <3> HIDE DEF e, o
    <3>3. e < LongRatio
      BY <1>0, <3>1, <3>2, LongApart
    <3> QED BY <3>3 DEF e
  <2> QED BY <1>1, <2>2, <2>3
<1> QED BY <1>3, <1>4

\* The walk stops at a timeout that is due.
LEMMA SoughtDue ==
  ASSUME LessThanATurn,
         NEW m \in Memory, NEW b \in Nat, NEW r \in Ranking(b), Threads(m, Placed(m), r), NEW c \in Contexts, NEW p,
         Walking(m, c, p, r), NEW ph0, NEW pa, NEW ti, Records(m, ph0, pa, ti),
         NEW n, NEW ph \in Handlers, NEW a, Sought(m, c, p, n, ph, a)
  PROVE  DueNow(n, ph, a)
<1> DEFINE s == FirstDue(m, c, p)
<1>1. \/ s = NULL /\ \A t \in Sockets : Settled(m, t)
      \/ /\ s \in Sockets /\ Place(m.sock[s]) = <<"head", c>>
         /\ ShortDue(m, c, s) \/ LongDue(m, c, s)
         /\ \A t \in Sockets : Left(m, c, s, r, t)
  BY FirstDueIs
<1>2. /\ s # NULL /\ a = [ctx |-> c, sock |-> s]
      /\ \/ /\ ShortDue(m, c, s) /\ ph = "short"
            /\ n = [[m EXCEPT !.iterator[c] = s] EXCEPT !.sock[s].timeout = None]
         \/ /\ ~ShortDue(m, c, s) /\ ph = "long"
            /\ n = [[m EXCEPT !.iterator[c] = s] EXCEPT !.sock[s].long = None]
  BY DEF Sought, Handlers
<1> HIDE DEF s
<1>3. s \in Sockets /\ Place(m.sock[s]) = <<"head", c>> /\ Left(m, c, s, r, s) /\ (ShortDue(m, c, s) \/ LongDue(m, c, s))
  BY <1>1, <1>2
<1>4. m.sock[s].ctx = c /\ ShortLeft(m, c, s, r, s) /\ LongLeft(m, c, s, r, s)
  BY <1>3, PlaceAlive DEF Left
<1>5. InTime(m.sock[s])
  BY <1>3 DEF Records, RecordSound
<1>6. (ShortDue(m, c, s) => m.sock[s].wait = 0) /\ (LongDue(m, c, s) => m.sock[s].longWait < LongRatio)
  BY <1>3, <1>4, <1>5, DueIsDue
<1>7. /\ Fires(m, [[m EXCEPT !.iterator[c] = s] EXCEPT !.sock[s].timeout = None], c, s, ShortFired(m.sock[s]))
      /\ Fires(m, [[m EXCEPT !.iterator[c] = s] EXCEPT !.sock[s].long = None], c, s, LongFired(m.sock[s]))
  BY <1>3, FiresIs
<1>8. Fires(m, n, c, s, ShortFired(m.sock[s])) \/ Fires(m, n, c, s, LongFired(m.sock[s]))
  BY <1>2, <1>7
<1>9. n.sock[s] = ShortFired(m.sock[s]) \/ n.sock[s] = LongFired(m.sock[s])
  BY <1>3, <1>8 DEF Fires, Memory
<1>10. n.sock[s].wait = m.sock[s].wait /\ n.sock[s].longWait = m.sock[s].longWait
  BY <1>3, <1>9, SocketType, FiredType
<1>11. a.sock = s
  BY <1>2
<1> QED BY <1>2, <1>3, <1>6, <1>10, <1>11 DEF DueNow

\* A handler returns, and the long timeout of its socket or a timeout behind it
\* in the list is due.
LEMMA ReturnDue ==
  ASSUME LessThanATurn,
         NEW m, NEW ph, NEW a, NEW pa, NEW ti, Sound(m, ph, a, pa, ti), ph \in Handlers,
         a = [ctx |-> a.ctx, sock |-> a.sock],
         NEW n, NEW ph1, NEW a1, Returned(m, ph, a, n, ph1, a1), ph1 \in Handlers
  PROVE  DueNow(n, ph1, a1)
<1> DEFINE c == a.ctx
           s == a.sock
<1>0. m \in Memory /\ Walked(m, ph, a) /\ Records(m, ph, pa, ti) /\ Swept(ph, a)
  BY DEF Sound
<1>1. PICK b \in Nat : \E r \in Ranking(b) : Threads(m, Placed(m), r) /\ Walk(m, ph, a, r)
  BY <1>0 DEF Walked
<1>2. PICK r \in Ranking(b) : Threads(m, Placed(m), r) /\ Walk(m, ph, a, r)
  BY <1>1
<1>3. a = [ctx |-> c, sock |-> s] /\ c = a.ctx /\ s = a.sock
  OBVIOUS
<1>4. CASE ph = "short" /\ m.iterator[c] = s /\ LongDue(m, c, s)
  <2>1. n = [m EXCEPT !.sock[s].long = None] /\ ph1 = "long" /\ a1 = a
    BY <1>4 DEF Returned
  <2> HIDE DEF c, s
  <2>2. /\ c \in Contexts /\ s \in Sockets
        /\ m.iterator[c] # NULL => Place(m.sock[m.iterator[c]]) = <<"head", c>>
        /\ \A t \in Sockets : Left(m, c, m.iterator[c], r, t)
    BY <1>0, <1>2, <1>3, ReturnLeft
  <2>3. Place(m.sock[s]) = <<"head", c>>
    BY <1>4, <2>2, Constants
  <2>4. Left(m, c, s, r, s)
    BY <1>4, <2>2
  <2>5. m.sock[s].ctx = c /\ ShortLeft(m, c, s, r, s) /\ LongLeft(m, c, s, r, s)
    BY <1>0, <2>2, <2>3, <2>4, PlaceAlive DEF Left
  <2>6. InTime(m.sock[s])
    BY <1>0, <2>2 DEF Records, RecordSound
  <2>7. m.sock[s].longWait < LongRatio
    BY <1>0, <1>4, <2>2, <2>5, <2>6, DueIsDue
  <2>8. n.sock[s].longWait = m.sock[s].longWait
    BY <1>0, <2>1, <2>2, SocketType DEF Memory, Socket
  <2>9. a1.sock = s
    BY <1>3, <2>1
  <2> QED BY <2>1, <2>7, <2>8, <2>9 DEF DueNow
<1>5. CASE ~(ph = "short" /\ m.iterator[c] = s /\ LongDue(m, c, s))
  <2> DEFINE p == IF m.iterator[c] = s THEN m.sock[s].next ELSE m.iterator[c]
  <2>1. Sought(m, c, p, n, ph1, a1)
    BY <1>5 DEF Returned
  <2>2. p = IF m.iterator[c] = s THEN m.sock[s].next ELSE m.iterator[c]
    OBVIOUS
  <2> HIDE DEF p, c, s
  <2>3. Walking(m, c, p, r)
    BY <1>0, <1>2, <1>3, <1>5, <2>2, ReturnWalking
  <2>4. c \in Contexts
    BY <1>0, <1>3 DEF Swept
  <2> QED BY <1>0, <1>2, <2>1, <2>3, <2>4, SoughtDue
<1> QED BY <1>4, <1>5

\* A new tick of the context that is swept, and a timeout in its list is due.
LEMMA ContextDue ==
  ASSUME LessThanATurn,
         NEW m, NEW a, NEW pa, NEW ti, Sound(m, "sweep", a, pa, ti),
         NEW c, c = a.ctx, NEW m1, m1 = Tick(m, c), NEW n, NEW ph1 \in Handlers, NEW a1,
         Sought(m1, c, m1.head[c], n, ph1, a1)
  PROVE  DueNow(n, ph1, a1)
<1> DEFINE ph == "sweep"
<1>0. /\ m \in Memory /\ Walked(m, ph, a) /\ Records(m, ph, pa, ti) /\ ph \notin Handlers /\ c \in Contexts
  BY DEF Sound, Swept, Handlers
<1> HIDE DEF ph
<1>1. PICK b \in Nat : \E r \in Ranking(b) : Threads(m, Placed(m), r) /\ Walk(m, ph, a, r)
  BY <1>0 DEF Walked
<1>2. PICK r \in Ranking(b) : Threads(m, Placed(m), r) /\ Walk(m, ph, a, r)
  BY <1>1
<1>3. TickTo(m, m1, c)
  BY <1>0, TickIs
<1>4. /\ m1 \in Memory /\ Threads(m1, Placed(m1), r) /\ Records(m1, ph, pa, ti)
      /\ Walking(m1, c, m1.head[c], r)
  BY <1>0, <1>2, <1>3, TickWalking
<1> DEFINE p == m1.head[c]
<1>5. Walking(m1, c, p, r) /\ Sought(m1, c, p, n, ph1, a1)
  BY <1>4
<1> HIDE DEF p
<1> QED BY <1>0, <1>4, <1>5, SoughtDue

\* Only the sweep begins a handler, and only of a timeout that is due.
LEMMA StepFires ==
  ASSUME LessThanATurn, LoopInv, [Next]_vars, phase' \in Handlers, <<phase, at>>' # <<phase, at>>
  PROVE  DueNow(l', phase', at')
<1>0. Sound(l, phase, at, paused, timer) /\ Typed(phase, at, closing, paused, timer)
  BY InvParts
<1>1. SweepContext \/ SweepReturn
  <2>1. CASE Iterate
    BY <2>1 DEF Iterate, Prepare, Check, CloseCallbacks, SweepStart, AcceptTimer, Handlers
  <2>2. ~(CloseNext \/ \E c \in Contexts : CloseContext(c))
    BY DEF CloseNext, CloseContext
  <2>3. ASSUME NEW s \in Sockets PROVE ~(Readable(s) \/ PauseListen(s) \/ CloseSocket(s) \/ Timeout(s))
    BY DEF Readable, PauseListen, CloseSocket, Timeout
  <2>4. ASSUME NEW s \in Sockets, NEW c \in Contexts PROVE ~(OpenSocket(c, s) \/ Listen(c, s))
    BY DEF OpenSocket, Listen
  <2>5. ASSUME NEW s \in Sockets, NEW c \in Contexts, NEW n \in Sockets PROVE ~Adopt(s, c, n)
    BY DEF Adopt
  <2>6. ~UNCHANGED vars
    BY DEF vars
  <2> QED BY <2>1, <2>2, <2>3, <2>4, <2>5, <2>6 DEF Next
<1>2. CASE SweepContext
  <2> DEFINE c == at.ctx
             m == Tick(l, c)
             p == m.head[c]
  <2>1. phase = "sweep" /\ Seek(m, c, p)
    BY <1>2 DEF SweepContext
  <2>2. c = at.ctx /\ m = Tick(l, c)
    OBVIOUS
  <2> HIDE DEF c, m
  <2>3. Sought(m, c, p, l', phase', at')
    BY <2>1 DEF Seek, Sought, FirstDue, DueIn
  <2> QED BY <1>0, <2>1, <2>2, <2>3, ContextDue
<1>3. CASE SweepReturn
  <2> DEFINE c == at.ctx
             s == at.sock
             p == ResumeAt(c, s)
  <2>1. phase \in Handlers
    BY <1>3 DEF SweepReturn, Handlers
  <2>2. at = [ctx |-> at.ctx, sock |-> at.sock]
    BY <1>0 DEF Typed
  <2>3. \/ /\ phase = "short" /\ l.iterator[c] = s /\ LongDue(l, c, s)
           /\ l' = [l EXCEPT !.sock[s].long = None] /\ phase' = "long" /\ at' = at
        \/ /\ ~(phase = "short" /\ l.iterator[c] = s /\ LongDue(l, c, s))
           /\ Sought(l, c, p, l', phase', at')
    BY <1>3 DEF SweepReturn, Seek, Sought, FirstDue, DueIn
  <2>4. p = IF l.iterator[c] = s THEN l.sock[s].next ELSE l.iterator[c]
    BY DEF ResumeAt
  <2> HIDE DEF p
  <2>5. Returned(l, phase, at, l', phase', at')
    BY <2>3, <2>4 DEF Returned
  <2> QED BY <1>0, <2>1, <2>2, <2>5, ReturnDue
<1> QED BY <1>1, <1>2, <1>3

\* Whatever opens, closes, is adopted, queued or requeued, in any number of
\* sockets and contexts and in the middle of a sweep: every list holds exactly the
\* sockets that belong to it, prev is the inverse of next, and no list is a cycle
\* or holds memory that was freed (context.c:73-133, 368-400, loop.c:82-172, socket.c:80-127).
THEOREM ListsStaySound == Spec => []ListsSound
BY Inductive, InvLists, PTL

\* A socket is polled for reading unless it waits in the low-priority queue, a
\* listen socket unless the accept timer is armed for it, and nothing that is
\* closed or freed is (loop.c:142-159, 178-236, 385-406).
THEOREM PolledWhenOpen == Spec => []Polled
BY Inductive, InvPolled, PTL

\* Only what is closed between our check callback and libuv's close callbacks is
\* not freed (eventing/libuv.c:44-50, 69-77, 95-103, loop.c:162-172).
THEOREM OnlyLateLeaks == Spec => []LeaksOnlyLate
BY Inductive, InvPolled, PTL

\* Handlers that close, adopt, open and queue sockets while the sweep walks their
\* list leave its cursor in the list, and the sweep does not pass over a socket
\* whose timeout is due (loop.c:82-135, context.c:73-111).
THEOREM SweepStaysSound == Spec => []SweepSound
BY Inductive, InvSweep, PTL

\* The sweep runs no handler before the ticks of its timeout have passed, or for a long one
\* before the last of its long ticks, if the application sets timeouts of less than a turn
\* of the counters, which is 240 (loop.c:82-135, socket.c:48-62).
THEOREM FiresInTime ==
  ASSUME LessThanATurn PROVE Spec => FiresWhenDue
<1>1. LoopInv /\ [Next]_vars =>
        [phase' \in {"short", "long"} /\ <<phase, at>>' # <<phase, at>> =>
           IF phase' = "short" THEN l'.sock[at'.sock].wait = 0
                               ELSE l'.sock[at'.sock].longWait < LongRatio]_vars
  BY StepFires DEF DueNow, Handlers
<1> QED BY <1>1, Inductive, PTL DEF Spec, FiresWhenDue

=============================================================================
