------------------------ MODULE ClientConnectProofs ------------------------
(***************************************************************************)
(* Theorems about ClientConnect, for any number of connects, addresses and *)
(* nested handlers, any proxies and deadlines: nothing points to what has  *)
(* been freed, user data is freed once, and connects are answered as       *)
(* Connects says.                                                          *)
(***************************************************************************)
EXTENDS ClientConnect, FiniteSetTheorems, SequenceTheorems, TLAPS

-----------------------------------------------------------------------------
(* What there is.                                                          *)

Slot == [state : {"unused", "live", "done", "freed"}, proxy : {"none", "plain", "tls"},
         deadline : SUBSET {"connect", "handshake"},
         req : {"none", "resolving", "connecting", "handshaking", "done", "cancelled", "freed"},
         list : {"none", "dial", "peer"}, gai : BOOLEAN, timer : {"none", "idle", "armed"},
         addrs : 0 .. MaxAddresses, sock : {"none", "semi", "dial", "peer", "frame"},
         tunnel : BOOLEAN, ended : BOOLEAN, pend : BOOLEAN, hd : BOOLEAN,
         opened : {"none", "dial", "peer"}, notified : SUBSET {"dial", "peer"},
         handler : {"dial", "peer"}, user : SUBSET {"dial", "peer"}, frees : Nat,
         told : Seq({"failed", "open", "close"})]

Item == [do : {"sweep", "delete"}] \cup [do : {"fail"}, slot : Slots]

Frame ==
  [fn : {"failed"}, slot : Slots, ctx : {"none", "dial", "peer"},
   then : {"fail", "timer", "close", "closed", "deferred"}]
  \cup [fn : {"open", "close", "ended"}, slot : Slots]
  \cup [fn : {"closing"}, rest : SUBSET Slots]
  \cup [fn : {"wakeup"}, rest : Seq(Item)]

Typed ==
  /\ slot \in [Slots -> Slot]
  /\ stack \in Seq(Frame)
  /\ deferred \in Seq(Item)
  /\ client \in {"open", "closing", "closed", "deleted"}

-----------------------------------------------------------------------------
(* The phases of a connect. While its failed handler runs it is in what    *)
(* the function that called the handler has left, at all other times in    *)
(* one of the others.                                                      *)

\* Nothing of the library points to the slot, but perhaps a resolver call.
Detached(k) == k.list = "none" /\ k.timer = "none" /\ k.sock = "none" /\ ~k.pend /\ ~k.hd

\* A request that is gone, or that its resolver call will free.
Gone(k) == (k.req = "freed" /\ ~k.gai) \/ (k.req = "cancelled" /\ k.gai)

Untouched(k) ==
  k.state = "unused" /\ Detached(k) /\ k.req = "none" /\ ~k.gai /\ k.user = {} /\ k.frees = 0 /\ k.told = <<>>

\* The request could not be started, which failed will be told later.
Waiting(k) ==
  /\ k.state = "live" /\ Detached(k) /\ k.req = "none" /\ ~k.gai
  /\ k.user = {} /\ k.frees = 0 /\ k.told = <<>>

Resolving(k) ==
  /\ k.state = "live" /\ k.req = "resolving" /\ k.gai /\ k.list = "dial" /\ k.sock = "none" /\ k.pend /\ ~k.hd
  /\ k.user = {"dial"} /\ k.frees = 0 /\ k.told = <<>> /\ k.notified = {} /\ k.handler = "dial" /\ ~k.ended

Connecting(k) ==
  /\ k.state = "live" /\ k.req = "connecting" /\ ~k.gai /\ k.list = "dial" /\ k.sock = "semi" /\ k.pend /\ ~k.hd
  /\ k.user = {"dial"} /\ k.frees = 0 /\ k.told = <<>> /\ k.notified = {} /\ k.handler = "dial" /\ ~k.ended
  /\ k.addrs > 0

ShakingHands(k) ==
  /\ k.state = "live" /\ k.req = "handshaking" /\ ~k.gai /\ Handshaking(k) /\ k.list = k.sock /\ ~k.pend /\ k.hd
  /\ k.user = {k.sock} /\ k.frees = 0 /\ k.told = <<>> /\ k.notified = {} /\ k.handler = k.sock /\ ~k.ended

Framed(k) ==
  /\ k.state = "live" /\ k.req = "freed" /\ ~k.gai /\ k.sock = "frame"
  /\ k.list = "none" /\ k.timer = "none" /\ ~k.pend /\ ~k.hd
  /\ k.user = {} /\ k.frees = 1 /\ k.told = IF k.ended THEN <<"open", "close">> ELSE <<"open">>

\* Cancelled by close() before it was answered.
Cancelled(k) ==
  /\ Detached(k) /\ Gone(k) /\ k.told = <<>>
  /\ \/ k.state = "live" /\ k.user = {"dial"} /\ k.frees = 0
     \/ k.state = "freed" /\ k.user = {} /\ k.frees = 1

Over(k) ==
  /\ k.state \in {"live", "done", "freed"}
  /\ Detached(k) /\ (Gone(k) \/ (k.req = "none" /\ ~k.gai))
  /\ k.user = {} /\ k.frees = 1 /\ k.told \in {<<"failed">>, <<"open", "close">>}

Steady(k) ==
  \/ Untouched(k) \/ Waiting(k) \/ Resolving(k) \/ Connecting(k) \/ ShakingHands(k)
  \/ Framed(k) \/ Cancelled(k) \/ Over(k)

\* While the frame f runs failed.
Failing(k, f) ==
  /\ k.state = "live" /\ k.frees = 0 /\ k.told = <<"failed">> /\ ~k.pend
  /\ CASE f.then = "deferred" ->
            Detached(k) /\ k.req = "none" /\ ~k.gai /\ k.user = {} /\ f.ctx = "none"
       [] f.then = "fail" ->
            /\ k.list = "dial" /\ k.sock = "none" /\ ~k.hd /\ k.req \in {"resolving", "connecting"} /\ ~k.gai
            /\ k.user = {"dial"} /\ f.ctx = "dial"
       [] f.then = "timer" ->
            /\ k.list = "dial" /\ k.sock \in {"none", "semi"} /\ ~k.hd
            /\ (k.req = "resolving" /\ k.gai) \/ (k.req = "connecting" /\ ~k.gai)
            /\ k.user = {"dial"} /\ f.ctx = "dial"
       [] f.then = "close" ->
            /\ ~k.gai /\ k.user = {f.ctx}
            /\ \/ /\ k.sock = f.ctx /\ f.ctx \in {"dial", "peer"} /\ f.ctx \in k.notified
                  /\ k.hd /\ k.req \in {"handshaking", "done"}
               \/ Detached(k) /\ k.req = "freed"
       [] f.then = "closed" ->
            Detached(k) /\ ~k.gai /\ k.req = "freed" /\ k.user = {f.ctx} /\ f.ctx \in {"dial", "peer"}

-----------------------------------------------------------------------------
(* A state: the slots sl, the set F of the frames on the stack, the defer  *)
(* queue q and the client cl.                                              *)

Frames(st) == {st[i] : i \in DOMAIN st}

InFailed(F, c) == \E f \in F : f.fn = "failed" /\ f.slot = c

PhaseOf(k, c, F) ==
  /\ \A f \in F : f.fn = "failed" /\ f.slot = c => Failing(k, f)
  /\ ~InFailed(F, c) => Steady(k)

Phases(sl, F) == \A c \in Slots : PhaseOf(sl[c], c, F)

\* failed runs once at a time for a connect, wakeup is called by the loop.
Nested(st) ==
  /\ \A i, j \in DOMAIN st :
       st[i].fn = "failed" /\ st[j].fn = "failed" /\ st[i].slot = st[j].slot => i = j
  /\ \A i, j \in DOMAIN st : st[i].fn = "wakeup" => j <= i

Handlers == {"open", "close", "ended"}

\* A handler runs for a connect that has not been freed; the handler of a
\* close that retires the connect afterwards runs for one that is over.
HandledOf(k, c, F) ==
  \A f \in F : f.fn \in Handlers /\ f.slot = c => k.state # "freed" /\ (f.fn = "close" => Over(k))

Handled(sl, F) == \A c \in Slots : HandledOf(sl[c], c, F)

\* What close() has passed can neither connect nor open any more.
Shut(k, c, F) == InFailed(F, c) \/ (~k.pend /\ k.sock = "none")

AllShut(sl, F) == \A c \in Slots : Shut(sl[c], c, F)

Closing(sl, F, cl) ==
  /\ \A f \in F : f.fn = "closing" => cl # "open" /\ \A c \in Slots \ f.rest : Shut(sl[c], c, F)
  /\ cl = "closing" => \E f \in F : f.fn = "closing"
  /\ cl \in {"closed", "deleted"} => AllShut(sl, F)
  /\ cl = "deleted" => \A c \in Slots : sl[c].state \in {"unused", "freed"}

-----------------------------------------------------------------------------
(* The defer queue.                                                        *)

Fails(q, c) == \E i \in DOMAIN q : q[i].do = "fail" /\ q[i].slot = c

Deletes(q) == \E i \in DOMAIN q : q[i].do = "delete"

\* Each connect fails once in q, and not after the client is deleted.
Ordered(q) ==
  /\ \A i, j \in DOMAIN q : q[i].do = "fail" /\ q[j].do = "fail" /\ q[i].slot = q[j].slot => i = j
  /\ \A i, j \in DOMAIN q : q[i].do = "fail" /\ q[j].do = "delete" => i < j

Wakeups(F) == {f \in F : f.fn = "wakeup"}

\* A connect that could not be started is in the queue, or in the part of it
\* that is being run.
Queued(F, q, c) == Fails(q, c) \/ \E f \in Wakeups(F) : Fails(f.rest, c)

Queues(F, q, cl) ==
  /\ Ordered(q)
  /\ Deletes(q) => cl \in {"closed", "deleted"}
  /\ \A f \in Wakeups(F) :
       /\ Ordered(f.rest)
       /\ Deletes(f.rest) => cl \in {"closed", "deleted"} /\ \A c \in Slots : ~Fails(q, c)
       /\ \A c \in Slots : ~(Fails(f.rest, c) /\ Fails(q, c))

Waits(sl, F, q) == \A c \in Slots : Waiting(sl[c]) <=> Queued(F, q, c)

IInv ==
  /\ Typed
  /\ Nested(stack)
  /\ Phases(slot, Frames(stack))
  /\ Handled(slot, Frames(stack))
  /\ Closing(slot, Frames(stack), client)
  /\ Queues(Frames(stack), deferred, client)
  /\ Waits(slot, Frames(stack), deferred)

-----------------------------------------------------------------------------
(* The operators on slots: their types.                                    *)

\* A slot is a record with these fields.
LEMMA SlotFields ==
  ASSUME NEW k \in Slot
  PROVE  /\ k.state \in {"unused", "live", "done", "freed"} /\ k.proxy \in {"none", "plain", "tls"}
         /\ k.deadline \subseteq {"connect", "handshake"}
         /\ k.req \in {"none", "resolving", "connecting", "handshaking", "done", "cancelled", "freed"}
         /\ k.list \in {"none", "dial", "peer"} /\ k.timer \in {"none", "idle", "armed"}
         /\ k.addrs \in 0 .. MaxAddresses /\ k.sock \in {"none", "semi", "dial", "peer", "frame"}
         /\ k.gai \in BOOLEAN /\ k.tunnel \in BOOLEAN /\ k.ended \in BOOLEAN
         /\ k.pend \in BOOLEAN /\ k.hd \in BOOLEAN
         /\ k.opened \in {"none", "dial", "peer"} /\ k.notified \subseteq {"dial", "peer"}
         /\ k.handler \in {"dial", "peer"} /\ k.user \subseteq {"dial", "peer"} /\ k.frees \in Nat
         /\ k.told \in Seq({"failed", "open", "close"})
BY DEF Slot

\* The state may be set.
LEMMA SetState ==
  ASSUME NEW k \in Slot, NEW x \in {"unused", "live", "done", "freed"} PROVE [k EXCEPT !.state = x] \in Slot
BY DEF Slot

\* The request may be set.
LEMMA SetReq ==
  ASSUME NEW k \in Slot,
         NEW x \in {"none", "resolving", "connecting", "handshaking", "done", "cancelled", "freed"}
  PROVE  [k EXCEPT !.req = x] \in Slot
BY DEF Slot

\* The list the request is in may be set.
LEMMA SetList ==
  ASSUME NEW k \in Slot, NEW x \in {"none", "dial", "peer"} PROVE [k EXCEPT !.list = x] \in Slot
BY DEF Slot

\* The timer may be set.
LEMMA SetTimer ==
  ASSUME NEW k \in Slot, NEW x \in {"none", "idle", "armed"} PROVE [k EXCEPT !.timer = x] \in Slot
BY DEF Slot

\* The addresses left may be set.
LEMMA SetAddrs ==
  ASSUME NEW k \in Slot, NEW x \in 0 .. MaxAddresses PROVE [k EXCEPT !.addrs = x] \in Slot
BY DEF Slot

\* The socket may be set.
LEMMA SetSock ==
  ASSUME NEW k \in Slot,
         NEW x \in {"none", "semi", "dial", "peer", "frame"}
  PROVE  [k EXCEPT !.sock = x] \in Slot
BY DEF Slot

\* The resolver call may be set.
LEMMA SetGai ==
  ASSUME NEW k \in Slot, NEW x \in BOOLEAN PROVE [k EXCEPT !.gai = x] \in Slot
BY DEF Slot

\* The tunnel that is asked for may be set.
LEMMA SetTunnel ==
  ASSUME NEW k \in Slot, NEW x \in BOOLEAN PROVE [k EXCEPT !.tunnel = x] \in Slot
BY DEF Slot

\* What end() leaves may be set.
LEMMA SetEnded ==
  ASSUME NEW k \in Slot, NEW x \in BOOLEAN PROVE [k EXCEPT !.ended = x] \in Slot
BY DEF Slot

\* The request pointer of a pending connect may be set.
LEMMA SetPend ==
  ASSUME NEW k \in Slot, NEW x \in BOOLEAN PROVE [k EXCEPT !.pend = x] \in Slot
BY DEF Slot

\* The request pointer of a handshake may be set.
LEMMA SetHd ==
  ASSUME NEW k \in Slot, NEW x \in BOOLEAN PROVE [k EXCEPT !.hd = x] \in Slot
BY DEF Slot

\* The context a handshake runs in may be set.
LEMMA SetOpened ==
  ASSUME NEW k \in Slot, NEW x \in {"none", "dial", "peer"} PROVE [k EXCEPT !.opened = x] \in Slot
BY DEF Slot

\* The contexts that have been answered may be set.
LEMMA SetNotified ==
  ASSUME NEW k \in Slot, NEW x \in SUBSET {"dial", "peer"} PROVE [k EXCEPT !.notified = x] \in Slot
BY DEF Slot

\* The context with failedHandler may be set.
LEMMA SetHandler ==
  ASSUME NEW k \in Slot, NEW x \in {"dial", "peer"} PROVE [k EXCEPT !.handler = x] \in Slot
BY DEF Slot

\* The contexts with user data may be set.
LEMMA SetUser ==
  ASSUME NEW k \in Slot, NEW x \in SUBSET {"dial", "peer"} PROVE [k EXCEPT !.user = x] \in Slot
BY DEF Slot

\* The count of user data that is freed may be set.
LEMMA SetFrees ==
  ASSUME NEW k \in Slot, NEW x \in Nat PROVE [k EXCEPT !.frees = x] \in Slot
BY DEF Slot

\* What the application was told may be set.
LEMMA SetTold ==
  ASSUME NEW k \in Slot, NEW x \in Seq({"failed", "open", "close"}) PROVE [k EXCEPT !.told = x] \in Slot
BY DEF Slot

\* The operators that take a slot's request and socket apart leave a slot.
LEMMA RequestTypes ==
  ASSUME NEW k \in Slot
  PROVE  /\ UnlinkRequest(k) \in Slot /\ RequestFree(k) \in Slot /\ DropResults(k) \in Slot
         /\ CloseTimer(k) \in Slot /\ CloseConnecting(k) \in Slot
         /\ Done(k) \in Slot /\ HandshakeGone(k) \in Slot
<1>1. UnlinkRequest(k) \in Slot
  BY DEF Slot, UnlinkRequest
<1>2. RequestFree(k) \in Slot
  BY DEF Slot, RequestFree
<1>3. DropResults(k) \in Slot
  BY ClientConnectAssumption DEF Slot, DropResults
<1>4. CloseTimer(k) \in Slot
  BY DEF Slot, CloseTimer
<1>5. CloseConnecting(k) \in Slot
  BY DEF Slot, CloseConnecting
<1>6. Done(k) \in Slot
  BY DEF Slot, Done
<1>7. HandshakeGone(k) \in Slot
  BY DEF Slot, HandshakeGone
<1> QED BY <1>1, <1>2, <1>3, <1>4, <1>5, <1>6, <1>7

\* The operators that end a request.
LEMMA ReleaseTypes ==
  ASSUME NEW k \in Slot
  PROVE  /\ ConnectFailed(k) \in Slot /\ TimedOut(k) \in Slot /\ Cancel(k) \in Slot /\ Release(k) \in Slot
<1> DEFINE a == RequestFree(UnlinkRequest(DropResults(CloseTimer(k))))
           b == UnlinkRequest(DropResults(CloseConnecting(CloseTimer(k))))
           e == UnlinkRequest(CloseConnecting(CloseTimer(k)))
           m == [e EXCEPT !.pend = FALSE]
<1>1. a \in Slot
  BY RequestTypes
<1>2. b \in Slot
  BY RequestTypes
<1>3. e \in Slot
  BY RequestTypes
<1> HIDE DEF a, b, e
<1>4. [b EXCEPT !.req = "cancelled"] \in Slot
  BY <1>2 DEF Slot
<1>5. [a EXCEPT !.pend = FALSE, !.hd = FALSE] \in Slot
  BY <1>1 DEF Slot
<1>6. m \in Slot
  BY <1>3 DEF Slot
<1> HIDE DEF m
<1>7. [m EXCEPT !.req = "cancelled"] \in Slot
  BY <1>6 DEF Slot
<1>8. RequestFree(DropResults(m)) \in Slot /\ RequestFree(b) \in Slot
  BY <1>2, <1>6, RequestTypes
<1>9. ConnectFailed(k) \in Slot
  BY <1>1 DEF ConnectFailed, a
<1>10. TimedOut(k) \in Slot
  BY <1>4, <1>8 DEF TimedOut, b
<1>11. Cancel(k) \in Slot
  BY <1>7, <1>8 DEF Cancel, m, e
<1>12. Release(k) \in Slot
  BY <1>5 DEF Release, a
<1> QED BY <1>9, <1>10, <1>11, <1>12

\* The socket of a slot is closed.
LEMMA NoSocketTypes ==
  ASSUME NEW k \in Slot
  PROVE  [k EXCEPT !.sock = "none"] \in Slot
BY DEF Slot

\* A context frees its user data, an application is told, and a socket moves on.
LEMMA HandlerTypes ==
  ASSUME NEW k \in Slot
  PROVE  /\ \A w \in {"failed", "open", "close"} : Tell(k, w) \in Slot
         /\ \A x : UserFreed(k, x) \in Slot
         /\ CloseAnswered(k) \in Slot
<1>1. ASSUME NEW w \in {"failed", "open", "close"} PROVE Tell(k, w) \in Slot
  <2> DEFINE t == Append(k.told, w)
  <2>1. t \in Seq({"failed", "open", "close"})
    BY SlotFields
  <2> HIDE DEF t
  <2>2. [k EXCEPT !.told = t] \in Slot
    BY <2>1 DEF Slot
  <2> QED BY <2>2 DEF t, Tell
<1>2. ASSUME NEW x PROVE UserFreed(k, x) \in Slot
  <2> DEFINE u == k.user \ {x}
             n == k.frees + 1
  <2>1. u \subseteq {"dial", "peer"} /\ n \in Nat
    BY SlotFields
  <2> HIDE DEF u, n
  <2>2. [k EXCEPT !.user = u, !.frees = n] \in Slot
    BY <2>1 DEF Slot
  <2> QED BY <2>2 DEF u, n, UserFreed
<1>3. CloseAnswered(k) \in Slot
  <2> DEFINE r == Release(k)
             m == [r EXCEPT !.sock = "none"]
  <2>1. r \in Slot
    BY ReleaseTypes
  <2> HIDE DEF r
  <2>2. m \in Slot
    BY <2>1, NoSocketTypes
  <2> HIDE DEF m
  <2>3. HandshakeGone(m) \in Slot
    BY <2>2, RequestTypes
  <2>4. CloseAnswered(k) = IF Handshaking(k) THEN HandshakeGone(m) ELSE k
    BY DEF CloseAnswered, r, m
  <2> QED BY <2>3, <2>4
<1> QED BY <1>1, <1>2, <1>3

-----------------------------------------------------------------------------
(* The operators on slots: their phases.                                   *)

Answers == {"fail", "timer", "close", "closed", "deferred"}

\* Its handler has run and its user data is freed.
Told(k) == k.state = "done" /\ k.user = {} /\ k.frees = 1 /\ k.told = <<"failed">> /\ ~k.pend

\* What is left to do after the handler of a failed connect.
LEMMA ConnectFailedOver ==
  ASSUME NEW k \in Slot, Told(k), k.sock = "none", ~k.hd, ~k.gai, NEW m, m = ConnectFailed(k)
  PROVE  Over(m) /\ m.state = "done" /\ m.told = k.told
BY DEF Slot, Told, Over, Detached, Gone, ConnectFailed, RequestFree, UnlinkRequest, DropResults, CloseTimer

\* The request whose timer has fired, and its socket, are freed.
LEMMA TimedOutOver ==
  ASSUME NEW k \in Slot, Told(k), k.sock \in {"none", "semi"}, ~k.hd, NEW m, m = TimedOut(k),
         (k.req = "resolving" /\ k.gai) \/ (k.req = "connecting" /\ ~k.gai)
  PROVE  Over(m) /\ m.state = "done" /\ m.told = k.told
BY DEF Slot, Told, Over, Detached, Gone,
       TimedOut, CloseConnecting, RequestFree, UnlinkRequest, DropResults, CloseTimer

\* The socket of a handshake that has failed is closed, unless the handler has closed it.
LEMMA CloseAnsweredOver ==
  ASSUME NEW k \in Slot, Told(k), ~k.gai, NEW m, m = CloseAnswered(k),
         (k.sock \in {"dial", "peer"} /\ k.hd) \/ (Detached(k) /\ k.req = "freed")
  PROVE  Over(m) /\ m.state = "done" /\ m.told = k.told
BY DEF Slot, Told, Over, Detached, Gone, Handshaking,
       CloseAnswered, HandshakeGone, Release, RequestFree, UnlinkRequest, DropResults, CloseTimer

\* The connect whose socket has closed in its handshake is over.
LEMMA HandshakeGoneOver ==
  ASSUME NEW k \in Slot, Told(k), ~k.gai, Detached(k), k.req = "freed", NEW m, m = HandshakeGone(k)
  PROVE  Over(m) /\ m.state = "done" /\ m.told = k.told
BY DEF Slot, Told, Over, Detached, Gone, HandshakeGone

\* So is the connect that could not be started.
LEMMA DeferredOver ==
  ASSUME NEW k \in Slot, k.state = "done", k.user = {}, k.frees = 0, k.told = <<"failed">>, Detached(k), ~k.gai,
         k.req = "none", NEW m, m = [k EXCEPT !.frees = @ + 1]
  PROVE  m \in Slot /\ Over(m) /\ m.state = "done" /\ m.told = k.told
<1>1. k.frees + 1 = 1
  OBVIOUS
<1>2. m = [k EXCEPT !.frees = 1]
  BY <1>1
<1>3. m \in Slot
  BY <1>2 DEF Slot
<1>4. Over(m) /\ m.state = "done" /\ m.told = k.told
  BY <1>2 DEF Slot, Over, Detached, Gone
<1> QED BY <1>3, <1>4

\* Until the handler returns, a connect that fails is live.
LEMMA FailingIs ==
  ASSUME NEW k, NEW f, Failing(k, f), f.then \in Answers
  PROVE  /\ k.sock # "frame" /\ k.state = "live" /\ k.told = <<"failed">> /\ ~k.pend /\ k.frees = 0
         /\ ~Waiting(k) /\ ~Over(k)
<1>1. k.state = "live" /\ k.told = <<"failed">> /\ ~k.pend /\ k.frees = 0
  BY DEF Failing
<1>2. k.sock # "frame"
  BY DEF Failing, Detached, Answers
<1>3. ~Over(k)
  BY <1>1 DEF Over
<1>4. ~Waiting(k)
  BY <1>1 DEF Waiting
<1> QED BY <1>1, <1>2, <1>3, <1>4

\* The handler of a failed connect returns: whatever waits for it, the connect
\* is over.
LEMMA FailedOver ==
  ASSUME NEW k \in Slot, NEW f, Failing(k, f), f.then \in Answers, NEW m,
         LET d == Done(UserFreed(k, f.ctx))
         IN  m = CASE f.then = "fail"     -> ConnectFailed(d)
                   [] f.then = "timer"    -> TimedOut(d)
                   [] f.then = "close"    -> CloseAnswered(d)
                   [] f.then = "closed"   -> HandshakeGone(d)
                   [] f.then = "deferred" -> [d EXCEPT !.frees = @ + 1]
  PROVE  m \in Slot /\ Over(m) /\ m.state = "done" /\ m.told = k.told
<1> DEFINE d == Done(UserFreed(k, f.ctx))
<1>1. d \in Slot
  BY HandlerTypes, RequestTypes
<1>2. k.state = "live" /\ k.frees = 0 /\ k.told = <<"failed">> /\ ~k.pend
  BY FailingIs
<1>3. d.state = "done" /\ d.told = k.told /\ d.req = k.req /\ d.gai = k.gai /\ d.list = k.list /\ d.sock = k.sock
      /\ d.pend = k.pend /\ d.hd = k.hd /\ d.timer = k.timer
  BY <1>2 DEF Slot, Done, UserFreed
<1>4. d.user = k.user \ {f.ctx} /\ d.frees = IF f.ctx \in k.user THEN 1 ELSE 0
  BY <1>2 DEF Slot, Done, UserFreed
<1>5. m = CASE f.then = "fail"     -> ConnectFailed(d)
            [] f.then = "timer"    -> TimedOut(d)
            [] f.then = "close"    -> CloseAnswered(d)
            [] f.then = "closed"   -> HandshakeGone(d)
            [] f.then = "deferred" -> [d EXCEPT !.frees = @ + 1]
  OBVIOUS
<1> HIDE DEF d
<1>6. CASE f.then = "fail"
  <2>1. m = ConnectFailed(d)
    BY <1>5, <1>6
  <2>2. Told(d) /\ d.sock = "none" /\ ~d.hd /\ ~d.gai
    BY <1>2, <1>3, <1>4, <1>6 DEF Failing, Told
  <2> QED BY <1>1, <1>2, <1>3, <2>1, <2>2, ReleaseTypes, ConnectFailedOver
<1>7. CASE f.then = "timer"
  <2>1. m = TimedOut(d)
    BY <1>5, <1>7
  <2>2. Told(d) /\ d.sock \in {"none", "semi"} /\ ~d.hd
        /\ ((d.req = "resolving" /\ d.gai) \/ (d.req = "connecting" /\ ~d.gai))
    BY <1>2, <1>3, <1>4, <1>7 DEF Failing, Told
  <2> QED BY <1>1, <1>2, <1>3, <2>1, <2>2, ReleaseTypes, TimedOutOver
<1>8. CASE f.then = "close"
  <2>1. m = CloseAnswered(d)
    BY <1>5, <1>8
  <2>2. Told(d) /\ ~d.gai /\ ((d.sock \in {"dial", "peer"} /\ d.hd) \/ (Detached(d) /\ d.req = "freed"))
    BY <1>2, <1>3, <1>4, <1>8 DEF Failing, Told, Detached
  <2> QED BY <1>1, <1>2, <1>3, <2>1, <2>2, HandlerTypes, CloseAnsweredOver
<1>9. CASE f.then = "closed"
  <2>1. m = HandshakeGone(d)
    BY <1>5, <1>9
  <2>2. Told(d) /\ ~d.gai /\ Detached(d) /\ d.req = "freed"
    BY <1>2, <1>3, <1>4, <1>9 DEF Failing, Told, Detached
  <2> QED BY <1>1, <1>2, <1>3, <2>1, <2>2, RequestTypes, HandshakeGoneOver
<1>10. CASE f.then = "deferred"
  <2>1. m = [d EXCEPT !.frees = @ + 1]
    BY <1>5, <1>10
  <2>2. d.user = {} /\ d.frees = 0 /\ ~d.gai /\ Detached(d) /\ d.req = "none"
    BY <1>2, <1>3, <1>4, <1>10 DEF Failing, Detached
  <2> QED BY <1>1, <1>2, <1>3, <2>1, <2>2, DeferredOver
<1> QED BY <1>6, <1>7, <1>8, <1>9, <1>10 DEF Answers

\* A slot that is over is marked done.
LEMMA DoneOver ==
  ASSUME NEW k \in Slot, Over(k)
  PROVE  Over(Done(k)) /\ (k.state # "freed" => Done(k).state # "freed") /\ Done(k).told = k.told
BY DEF Slot, Over, Detached, Gone, Done

-----------------------------------------------------------------------------
(* The call stack.                                                         *)

\* A pushed frame joins the frames.
LEMMA PushFrames ==
  ASSUME NEW st \in Seq(Frame), NEW f \in Frame
  PROVE  <<f>> \o st \in Seq(Frame) /\ Frames(<<f>> \o st) = {f} \cup Frames(st)
<1> DEFINE up == <<f>> \o st
<1>1. up \in Seq(Frame) /\ Len(up) = Len(st) + 1 /\ up[1] = f /\ \A i \in 1 .. Len(st) : up[i + 1] = st[i]
  OBVIOUS
<1>2. DOMAIN up = 1 .. Len(st) + 1 /\ DOMAIN st = 1 .. Len(st) /\ Len(st) \in Nat
  BY <1>1
<1> HIDE DEF up
<1>3. ASSUME NEW g \in Frames(up) PROVE g \in {f} \cup Frames(st)
  <2>1. PICK i \in 1 .. Len(st) + 1 : g = up[i]
    BY <1>2 DEF Frames
  <2>2. CASE i = 1
    BY <1>1, <2>1, <2>2
  <2>3. CASE i # 1
    <3>1. i - 1 \in 1 .. Len(st) /\ g = st[i - 1]
      BY <1>1, <1>2, <2>1, <2>3
    <3> QED BY <1>2, <3>1 DEF Frames
  <2> QED BY <2>2, <2>3
<1>4. ASSUME NEW g \in {f} \cup Frames(st) PROVE g \in Frames(up)
  <2>1. CASE g = f
    BY <1>1, <1>2, <2>1 DEF Frames
  <2>2. CASE g \in Frames(st)
    <3>1. PICK i \in 1 .. Len(st) : g = st[i]
      BY <1>2, <2>2 DEF Frames
    <3>2. g = up[i + 1] /\ i + 1 \in 1 .. Len(st) + 1
      BY <1>1, <1>2, <3>1
    <3> QED BY <1>2, <3>2 DEF Frames
  <2> QED BY <2>1, <2>2
<1>5. Frames(up) = {f} \cup Frames(st)
  BY <1>3, <1>4
<1> QED BY <1>1, <1>5 DEF up

\* failed may be called for a connect for which it does not run.
LEMMA PushNested ==
  ASSUME NEW st \in Seq(Frame), NEW f \in Frame, Nested(st), f.fn # "wakeup",
         f.fn = "failed" => ~InFailed(Frames(st), f.slot)
  PROVE  Nested(<<f>> \o st)
<1> DEFINE up == <<f>> \o st
<1>1. up \in Seq(Frame) /\ Len(up) = Len(st) + 1 /\ up[1] = f /\ \A i \in 1 .. Len(st) : up[i + 1] = st[i]
  OBVIOUS
<1>2. DOMAIN up = 1 .. Len(st) + 1 /\ DOMAIN st = 1 .. Len(st) /\ Len(st) \in Nat
  BY <1>1
<1> HIDE DEF up
<1>3. \A i \in 1 .. Len(st) + 1 : i # 1 => i - 1 \in 1 .. Len(st) /\ up[i] = st[i - 1]
  BY <1>1, <1>2
<1>4. ASSUME f.fn = "failed", NEW i \in 1 .. Len(st), st[i].fn = "failed" PROVE st[i].slot # f.slot
  BY <1>2, <1>4 DEF InFailed, Frames
<1>5. ASSUME NEW i \in 1 .. Len(st) + 1, NEW j \in 1 .. Len(st) + 1,
             up[i].fn = "failed", up[j].fn = "failed", up[i].slot = up[j].slot
      PROVE  i = j
  <2>1. CASE i = 1 /\ j # 1
    BY <1>1, <1>3, <1>4, <1>5, <2>1
  <2>2. CASE i # 1 /\ j = 1
    BY <1>1, <1>3, <1>4, <1>5, <2>2
  <2>3. CASE i # 1 /\ j # 1
    <3>1. i - 1 = j - 1
      BY <1>2, <1>3, <1>5, <2>3 DEF Nested
    <3> QED BY <3>1
  <2> QED BY <2>1, <2>2, <2>3
<1>6. ASSUME NEW i \in 1 .. Len(st) + 1, NEW j \in 1 .. Len(st) + 1, up[i].fn = "wakeup" PROVE j <= i
  <2>1. i # 1
    BY <1>1, <1>6
  <2>2. CASE j = 1
    BY <2>2
  <2>3. CASE j # 1
    <3>1. j - 1 <= i - 1
      BY <1>2, <1>3, <1>6, <2>1, <2>3 DEF Nested
    <3> QED BY <3>1
  <2> QED BY <2>2, <2>3
<1> QED BY <1>1, <1>2, <1>5, <1>6 DEF Nested, up

\* A function returns: its frame is gone, and that of its failed handler with it.
LEMMA Pop ==
  ASSUME NEW st \in Seq(Frame), Nested(st), st # <<>>
  PROVE  /\ Head(st) \in Frame /\ Tail(st) \in Seq(Frame)
         /\ Frames(st) = {Head(st)} \cup Frames(Tail(st))
         /\ Nested(Tail(st))
         /\ Head(st).fn = "failed" => ~InFailed(Frames(Tail(st)), Head(st).slot)
         /\ Head(st).fn = "wakeup" => Tail(st) = <<>>
<1> DEFINE rest == Tail(st)
<1>1. /\ Head(st) \in Frame /\ rest \in Seq(Frame) /\ Head(st) = st[1] /\ Len(st) = Len(rest) + 1
      /\ \A i \in 1 .. Len(rest) : rest[i] = st[i + 1]
  OBVIOUS
<1> DEFINE n == Len(rest)
<1>2. DOMAIN st = 1 .. n + 1 /\ DOMAIN rest = 1 .. n /\ Len(st) = n + 1 /\ n \in Nat
  BY <1>1
<1>3. st = <<Head(st)>> \o rest
  OBVIOUS
<1>4. Frames(st) = {Head(st)} \cup Frames(rest)
  BY <1>1, <1>3, PushFrames
<1> HIDE DEF rest
<1>5. \A i \in 1 .. n : i + 1 \in 1 .. n + 1 /\ rest[i] = st[i + 1]
  BY <1>1, <1>2
<1>6. n = Len(rest)
  OBVIOUS
<1> HIDE DEF n
<1>7. Nested(rest)
  <2>1. ASSUME NEW i \in 1 .. n, NEW j \in 1 .. n,
               rest[i].fn = "failed", rest[j].fn = "failed", rest[i].slot = rest[j].slot
        PROVE  i = j
    <3>1. i + 1 = j + 1
      BY <1>2, <1>5, <2>1 DEF Nested
    <3> QED BY <3>1
  <2>2. ASSUME NEW i \in 1 .. n, NEW j \in 1 .. n, rest[i].fn = "wakeup" PROVE j <= i
    <3>1. j + 1 <= i + 1
      BY <1>2, <1>5, <2>2 DEF Nested
    <3> QED BY <3>1
  <2> QED BY <1>2, <2>1, <2>2 DEF Nested
<1>8. ASSUME Head(st).fn = "failed" PROVE ~InFailed(Frames(rest), Head(st).slot)
  <2> SUFFICES ASSUME NEW i \in 1 .. n, rest[i].fn = "failed", rest[i].slot = Head(st).slot PROVE FALSE
    BY <1>2 DEF InFailed, Frames
  <2>1. i + 1 = 1
    BY <1>1, <1>2, <1>5, <1>8 DEF Nested
  <2> QED BY <2>1
<1>9. ASSUME Head(st).fn = "wakeup" PROVE rest = <<>>
  <2>1. n + 1 <= 1
    BY <1>1, <1>2, <1>9 DEF Nested
  <2> QED BY <1>1, <1>2, <1>6, <2>1
<1> QED BY <1>1, <1>4, <1>7, <1>8, <1>9 DEF rest

-----------------------------------------------------------------------------
(* The defer queue.                                                        *)

\* What is deferred comes last.
LEMMA AppendItem ==
  ASSUME NEW q \in Seq(Item), NEW x \in Item, NEW r, r = Append(q, x)
  PROVE  /\ r \in Seq(Item)
         /\ \A c : Fails(r, c) <=> Fails(q, c) \/ (x.do = "fail" /\ x.slot = c)
         /\ Deletes(r) <=> Deletes(q) \/ x.do = "delete"
         /\ Ordered(q) /\ (x.do = "fail" => ~Deletes(q) /\ ~Fails(q, x.slot)) => Ordered(r)
<1> DEFINE n == Len(q)
<1>1. r \in Seq(Item) /\ DOMAIN r = 1 .. n + 1 /\ DOMAIN q = 1 .. n /\ n \in Nat
      /\ r[n + 1] = x /\ \A i \in 1 .. n : r[i] = q[i]
  OBVIOUS
<1> HIDE DEF n
<1>2. \A i \in 1 .. n + 1 : i \in 1 .. n \/ i = n + 1
  BY <1>1
<1>3. n + 1 \in 1 .. n + 1 /\ \A i \in 1 .. n : i \in 1 .. n + 1 /\ i < n + 1
  BY <1>1
<1>4. \A c : Fails(r, c) <=> Fails(q, c) \/ (x.do = "fail" /\ x.slot = c)
  BY <1>1, <1>2, <1>3 DEF Fails
<1>5. Deletes(r) <=> Deletes(q) \/ x.do = "delete"
  BY <1>1, <1>2, <1>3 DEF Deletes
<1>6. ASSUME Ordered(q), x.do = "fail" => ~Deletes(q) /\ ~Fails(q, x.slot) PROVE Ordered(r)
  <2>1. ASSUME NEW i \in 1 .. n + 1, NEW j \in 1 .. n + 1, r[i].do = "fail", r[j].do = "fail", r[i].slot = r[j].slot
        PROVE  i = j
    <3>1. CASE i \in 1 .. n /\ j \in 1 .. n
      BY <1>1, <1>6, <2>1, <3>1 DEF Ordered
    <3>2. CASE i \in 1 .. n /\ j = n + 1
      BY <1>1, <1>6, <2>1, <3>2 DEF Fails
    <3>3. CASE i = n + 1 /\ j \in 1 .. n
      BY <1>1, <1>6, <2>1, <3>3 DEF Fails
    <3> QED BY <1>2, <3>1, <3>2, <3>3
  <2>2. ASSUME NEW i \in 1 .. n + 1, NEW j \in 1 .. n + 1, r[i].do = "fail", r[j].do = "delete"
        PROVE  i < j
    <3>1. CASE i \in 1 .. n /\ j \in 1 .. n
      BY <1>1, <1>6, <2>2, <3>1 DEF Ordered
    <3>2. CASE i \in 1 .. n /\ j = n + 1
      BY <1>3, <3>2
    <3>3. CASE i = n + 1 /\ j \in 1 .. n
      BY <1>1, <1>6, <2>2, <3>3 DEF Deletes
    <3>4. CASE i = n + 1 /\ j = n + 1
      BY <2>2, <3>4
    <3> QED BY <1>2, <3>1, <3>2, <3>3, <3>4
  <2> QED BY <1>1, <2>1, <2>2 DEF Ordered
<1> QED BY <1>1, <1>4, <1>5, <1>6

\* The first item is taken.
LEMMA TakeItem ==
  ASSUME NEW q \in Seq(Item), q # <<>>, Ordered(q)
  PROVE  /\ Head(q) \in Item /\ Tail(q) \in Seq(Item) /\ Ordered(Tail(q))
         /\ \A c : Fails(q, c) <=> Fails(Tail(q), c) \/ (Head(q).do = "fail" /\ Head(q).slot = c)
         /\ Deletes(q) <=> Deletes(Tail(q)) \/ Head(q).do = "delete"
         /\ Head(q).do = "fail" => ~Fails(Tail(q), Head(q).slot)
         /\ Head(q).do = "delete" => \A c : ~Fails(q, c)
<1> DEFINE r == Tail(q)
           n == Len(r)
           x == Head(q)
<1>1. x \in Item /\ r \in Seq(Item) /\ DOMAIN q = 1 .. n + 1 /\ DOMAIN r = 1 .. n /\ n \in Nat
      /\ q[1] = x /\ \A i \in 1 .. n : r[i] = q[i + 1]
  OBVIOUS
<1> HIDE DEF n, r, x
<1>2. \A i \in 1 .. n + 1 : i = 1 \/ (i - 1 \in 1 .. n /\ r[i - 1] = q[i])
  BY <1>1
<1>3. 1 \in 1 .. n + 1 /\ \A i \in 1 .. n : i + 1 \in 1 .. n + 1
  BY <1>1
<1>4. \A c : Fails(q, c) <=> Fails(r, c) \/ (x.do = "fail" /\ x.slot = c)
  <2> TAKE c
  <2>1. Fails(q, c) => Fails(r, c) \/ (x.do = "fail" /\ x.slot = c)
    BY <1>1, <1>2 DEF Fails
  <2>2. Fails(r, c) \/ (x.do = "fail" /\ x.slot = c) => Fails(q, c)
    BY <1>1, <1>3 DEF Fails
  <2> QED BY <2>1, <2>2
<1>5. Deletes(q) <=> Deletes(r) \/ x.do = "delete"
  <2>1. Deletes(q) => Deletes(r) \/ x.do = "delete"
    BY <1>1, <1>2 DEF Deletes
  <2>2. Deletes(r) \/ x.do = "delete" => Deletes(q)
    BY <1>1, <1>3 DEF Deletes
  <2> QED BY <2>1, <2>2
<1>6. Ordered(r)
  <2>1. ASSUME NEW i \in 1 .. n, NEW j \in 1 .. n, r[i].do = "fail", r[j].do = "fail", r[i].slot = r[j].slot
        PROVE  i = j
    <3>1. i + 1 = j + 1
      BY <1>1, <1>3, <2>1 DEF Ordered
    <3> QED BY <3>1
  <2>2. ASSUME NEW i \in 1 .. n, NEW j \in 1 .. n, r[i].do = "fail", r[j].do = "delete"
        PROVE  i < j
    <3>1. i + 1 < j + 1
      BY <1>1, <1>3, <2>2 DEF Ordered
    <3> QED BY <3>1
  <2> QED BY <1>1, <2>1, <2>2 DEF Ordered
<1>7. ASSUME x.do = "fail" PROVE ~Fails(r, x.slot)
  <2> SUFFICES ASSUME NEW i \in 1 .. n, r[i].do = "fail", r[i].slot = x.slot PROVE FALSE
    BY <1>1 DEF Fails
  <2>1. i + 1 = 1
    BY <1>1, <1>3, <1>7 DEF Ordered
  <2> QED BY <2>1
<1>8. ASSUME x.do = "delete", NEW c PROVE ~Fails(q, c)
  <2> SUFFICES ASSUME NEW i \in 1 .. n + 1, q[i].do = "fail" PROVE FALSE
    BY <1>1 DEF Fails
  <2>1. i < 1
    BY <1>1, <1>3, <1>8 DEF Ordered
  <2> QED BY <2>1
<1> QED BY <1>1, <1>4, <1>5, <1>6, <1>7, <1>8 DEF r, x

SameQueue(q, r) ==
  /\ r \in Seq(Item) /\ Ordered(r)
  /\ Deletes(r) <=> Deletes(q)
  /\ \A c \in Slots : Fails(r, c) <=> Fails(q, c)

\* A sweep changes nothing for the connects that fail.
LEMMA ArmSweepSame ==
  ASSUME deferred \in Seq(Item), Ordered(deferred), NEW k
  PROVE  SameQueue(deferred, ArmSweep(k))
<1> DEFINE x == [do |-> "sweep"]
<1>1. x \in Item /\ x.do = "sweep"
  BY DEF Item
<1> HIDE DEF x
<1>2. SameQueue(deferred, Append(deferred, x))
  BY <1>1, AppendItem DEF SameQueue
<1>3. SameQueue(deferred, deferred)
  BY DEF SameQueue
<1> QED BY <1>2, <1>3 DEF ArmSweep, Defer, x

-----------------------------------------------------------------------------
(* A step that changes one connect.                                        *)

\* Only frames of c, and frames of close(), are on one of the stacks alone.
Others(F, G, c) ==
  \A f \in F \cup G : \/ f \in F /\ f \in G
                      \/ f.fn = "closing"
                      \/ f.fn \in Handlers \cup {"failed"} /\ f.slot = c

\* The others stay as they are, and so does the queue.
LEMMA OthersKeep ==
  ASSUME NEW sl \in [Slots -> Slot], NEW F, NEW q, NEW cl, NEW c \in Slots, NEW k \in Slot, NEW G, NEW r,
         Phases(sl, F), Handled(sl, F), Queues(F, q, cl), Waits(sl, F, q),
         Others(F, G, c), PhaseOf(k, c, G), HandledOf(k, c, G), Waiting(k) <=> Waiting(sl[c]), SameQueue(q, r),
         NEW tl, tl = [sl EXCEPT ![c] = k]
  PROVE  Phases(tl, G) /\ Handled(tl, G) /\ Queues(G, r, cl) /\ Waits(tl, G, r)
<1>1. tl[c] = k /\ \A d \in Slots : d # c => tl[d] = sl[d]
  OBVIOUS
<1>2. \A d \in Slots : d # c => (InFailed(F, d) <=> InFailed(G, d))
  BY DEF InFailed, Others
<1>3. ASSUME NEW d \in Slots PROVE PhaseOf(tl[d], d, G)
  <2>1. CASE d = c
    BY <1>1, <2>1
  <2>2. CASE d # c
    <3>1. PhaseOf(sl[d], d, F)
      BY DEF Phases
    <3>2. \A f \in G : f.fn = "failed" /\ f.slot = d => f \in F
      BY <2>2 DEF Others
    <3> QED BY <1>1, <1>2, <2>2, <3>1, <3>2 DEF PhaseOf
  <2> QED BY <2>1, <2>2
<1>4. ASSUME NEW d \in Slots PROVE HandledOf(tl[d], d, G)
  <2>1. CASE d = c
    BY <1>1, <2>1
  <2>2. CASE d # c
    <3>1. HandledOf(sl[d], d, F)
      BY DEF Handled
    <3>2. \A f \in G : f.fn \in Handlers /\ f.slot = d => f \in F
      BY <2>2 DEF Others, Handlers
    <3> QED BY <1>1, <2>2, <3>1, <3>2 DEF HandledOf
  <2> QED BY <2>1, <2>2
<1>5. Wakeups(F) = Wakeups(G)
  BY DEF Wakeups, Others, Handlers
<1>6. Queues(G, r, cl)
  BY <1>5 DEF Queues, SameQueue
<1>7. \A d \in Slots : Queued(F, q, d) <=> Queued(G, r, d)
  BY <1>5 DEF Queued, SameQueue
<1>8. Waits(tl, G, r)
  BY <1>1, <1>7 DEF Waits
<1> QED BY <1>3, <1>4, <1>6, <1>8 DEF Phases, Handled

\* So do the frames of close(), if the connect stays shut once it is.
LEMMA ClosingKeeps ==
  ASSUME NEW sl \in [Slots -> Slot], NEW F, NEW cl, NEW c \in Slots, NEW k \in Slot, NEW G,
         Closing(sl, F, cl), Others(F, G, c), \A f \in F \cup G : f.fn = "closing" => f \in F /\ f \in G,
         cl # "open" /\ Shut(sl[c], c, F) => Shut(k, c, G),
         cl = "deleted" /\ sl[c].state \in {"unused", "freed"} => k.state \in {"unused", "freed"},
         NEW tl, tl = [sl EXCEPT ![c] = k]
  PROVE  Closing(tl, G, cl)
<1>1. tl[c] = k /\ \A d \in Slots : d # c => tl[d] = sl[d]
  OBVIOUS
<1>2. \A d \in Slots : d # c => (InFailed(F, d) <=> InFailed(G, d))
  BY DEF InFailed, Others
<1>3. ASSUME NEW d \in Slots, cl # "open", Shut(sl[d], d, F) PROVE Shut(tl[d], d, G)
  <2>1. CASE d = c
    BY <1>1, <1>3, <2>1
  <2>2. CASE d # c
    BY <1>1, <1>2, <1>3, <2>2 DEF Shut
  <2> QED BY <2>1, <2>2
<1>4. \A f \in G : f.fn = "closing" => cl # "open" /\ \A d \in Slots \ f.rest : Shut(tl[d], d, G)
  BY <1>3 DEF Closing
<1>5. cl = "closing" => \E f \in G : f.fn = "closing"
  BY DEF Closing
<1>6. cl \in {"closed", "deleted"} => AllShut(tl, G)
  BY <1>3 DEF Closing, AllShut
<1>7. cl = "deleted" => \A d \in Slots : tl[d].state \in {"unused", "freed"}
  <2> SUFFICES ASSUME cl = "deleted", NEW d \in Slots PROVE tl[d].state \in {"unused", "freed"}
    OBVIOUS
  <2>1. sl[d].state \in {"unused", "freed"}
    BY DEF Closing
  <2> QED BY <1>1, <2>1
<1> QED BY <1>4, <1>5, <1>6, <1>7 DEF Closing

\* A connect that does not fail is steady, one that fails is not.
LEMMA Alone ==
  ASSUME NEW k, NEW c, NEW F, ~InFailed(F, c), NEW f
  PROVE  /\ PhaseOf(k, c, F) <=> Steady(k)
         /\ f.fn # "failed" => (PhaseOf(k, c, {f} \cup F) <=> Steady(k))
         /\ f.fn = "failed" /\ f.slot = c => (PhaseOf(k, c, {f} \cup F) <=> Failing(k, f))
BY DEF PhaseOf, InFailed

-----------------------------------------------------------------------------
(* What the abstract specification sees.                                   *)

\* The moves of a connect.
Advance(a, b) ==
  \/ a = b
  \/ client = "open" /\ <<a, b>> \in {<<"unused", "pending">>, <<"pending", "open">>}
  \/ <<a, b>> \in {<<"pending", "failed">>, <<"open", "closed">>}
  \/ client # "open" /\ <<a, b>> = <<"pending", "cancelled">>

\* The status of a connect is that of its phase.
LEMMA StatusOf ==
  ASSUME NEW k
  PROVE  /\ Untouched(k) => Status(k) = "unused"
         /\ Waiting(k) \/ Resolving(k) \/ Connecting(k) \/ ShakingHands(k) => Status(k) = "pending"
         /\ Framed(k) => Status(k) = IF k.ended THEN "closed" ELSE "open"
         /\ Cancelled(k) => Status(k) = "cancelled"
         /\ Over(k) => Status(k) = IF k.told = <<"failed">> THEN "failed" ELSE "closed"
         /\ \A f : Failing(k, f) => Status(k) = "failed"
<1>1. Untouched(k) => Status(k) = "unused"
  BY DEF Untouched, Status
<1>2. Waiting(k) \/ Resolving(k) \/ Connecting(k) \/ ShakingHands(k) => Status(k) = "pending"
  <2> SUFFICES ASSUME k.state = "live", k.told = <<>>, k.req \notin {"cancelled", "freed"} PROVE Status(k) = "pending"
    BY DEF Waiting, Resolving, Connecting, ShakingHands
  <2> QED BY DEF Status
<1>3. Framed(k) => Status(k) = IF k.ended THEN "closed" ELSE "open"
  BY DEF Framed, Status
<1>4. Cancelled(k) => Status(k) = "cancelled"
  BY DEF Cancelled, Gone, Status
<1>5. Over(k) => Status(k) = IF k.told = <<"failed">> THEN "failed" ELSE "closed"
  BY DEF Over, Status
<1>6. ASSUME NEW f, Failing(k, f) PROVE Status(k) = "failed"
  <2>1. k.state = "live" /\ k.told = <<"failed">>
    BY <1>6 DEF Failing
  <2> QED BY <2>1 DEF Status
<1> QED BY <1>1, <1>2, <1>3, <1>4, <1>5, <1>6

\* A connect is in one phase only.
LEMMA Phasewise ==
  ASSUME NEW k
  PROVE  /\ Waiting(k) => ~(Resolving(k) \/ Connecting(k) \/ ShakingHands(k) \/ Framed(k) \/ Cancelled(k) \/ Over(k) \/ Untouched(k))
         /\ Over(k) => ~(Resolving(k) \/ Connecting(k) \/ ShakingHands(k) \/ Framed(k) \/ Cancelled(k) \/ Untouched(k))
BY DEF Untouched, Waiting, Resolving, Connecting, ShakingHands, Framed, Cancelled, Over, Detached, Gone, Handshaking

-----------------------------------------------------------------------------
(* The operators on slots that call failed.                                *)

\* What emitFailed does to a slot before its handler runs.
Emitted(k, x) == [IF k.handler = x THEN Tell(k, "failed") ELSE k EXCEPT !.notified = @ \cup {x}]

FailedFrame(c, x, then) == [fn |-> "failed", slot |-> c, ctx |-> x, then |-> then]

\* emitFailed tells the application and marks the context, no more.
LEMMA EmittedIs ==
  ASSUME NEW k \in Slot, NEW x \in {"dial", "peer"}, k.handler = x, k.told = <<>>, NEW m, m = Emitted(k, x)
  PROVE  /\ m \in Slot
         /\ m.told = <<"failed">> /\ x \in m.notified
         /\ m.state = k.state /\ m.frees = k.frees /\ m.pend = k.pend /\ m.hd = k.hd /\ m.list = k.list
         /\ m.timer = k.timer /\ m.sock = k.sock /\ m.req = k.req /\ m.gai = k.gai /\ m.user = k.user
<1> DEFINE t == Tell(k, "failed")
           u == t.notified \cup {x}
<1>1. t \in Slot
  BY HandlerTypes
<1>2. t.told = <<"failed">>
  BY DEF Slot, Tell
<1>3. t.state = k.state /\ t.frees = k.frees /\ t.pend = k.pend /\ t.hd = k.hd /\ t.list = k.list
      /\ t.timer = k.timer /\ t.sock = k.sock /\ t.req = k.req /\ t.gai = k.gai /\ t.user = k.user
  BY DEF Slot, Tell
<1>4. m = [t EXCEPT !.notified = t.notified \cup {x}]
  BY DEF Emitted
<1> HIDE DEF t
<1>5. u \subseteq {"dial", "peer"} /\ x \in u
  BY <1>1, SlotFields
<1>6. m = [t EXCEPT !.notified = u]
  BY <1>4
<1> HIDE DEF u
<1>7. m \in Slot
  BY ONLY <1>1, <1>5, <1>6 DEF Slot
<1>8. m.told = t.told /\ m.notified = u
      /\ m.state = t.state /\ m.frees = t.frees /\ m.pend = t.pend /\ m.hd = t.hd /\ m.list = t.list
      /\ m.timer = t.timer /\ m.sock = t.sock /\ m.req = t.req /\ m.gai = t.gai /\ m.user = t.user
  BY ONLY <1>1, <1>6 DEF Slot
<1> QED BY <1>2, <1>3, <1>5, <1>7, <1>8

\* A request that fails while it is resolved or its addresses are tried.
LEMMA RequestFails ==
  ASSUME NEW k \in Slot, k.state = "live", k.list = "dial", k.sock = "none", ~k.hd,
         k.req \in {"resolving", "connecting"}, ~k.gai, k.user = {"dial"}, k.frees = 0, k.told = <<>>, k.handler = "dial",
         NEW c, NEW m, m = Emitted([k EXCEPT !.pend = FALSE], "dial")
  PROVE  m \in Slot /\ Failing(m, FailedFrame(c, "dial", "fail"))
<1> DEFINE d == [k EXCEPT !.pend = FALSE]
<1>1. d \in Slot
  BY DEF Slot
<1>2. d.state = "live" /\ d.list = "dial" /\ d.sock = "none" /\ ~d.hd /\ d.req \in {"resolving", "connecting"} /\ ~d.gai
      /\ d.user = {"dial"} /\ d.frees = 0 /\ d.told = <<>> /\ d.handler = "dial" /\ ~d.pend
  BY DEF Slot
<1>3. m = Emitted(d, "dial")
  OBVIOUS
<1> HIDE DEF d
<1>4. m \in Slot /\ m.told = <<"failed">> /\ m.state = d.state /\ m.frees = d.frees /\ m.pend = d.pend /\ m.hd = d.hd
      /\ m.list = d.list /\ m.sock = d.sock /\ m.req = d.req /\ m.gai = d.gai /\ m.user = d.user
  <2>1. d.handler = "dial" /\ d.told = <<>> /\ "dial" \in {"dial", "peer"}
    BY <1>2
  <2> QED BY ONLY <1>1, <1>3, <2>1, EmittedIs
<1> QED BY <1>2, <1>4 DEF Failing, FailedFrame

\* A request whose timer fires before it is connected.
LEMMA RequestTimesOut ==
  ASSUME NEW k \in Slot, k.state = "live", k.list = "dial", k.sock \in {"none", "semi"}, ~k.hd,
         (k.req = "resolving" /\ k.gai) \/ (k.req = "connecting" /\ ~k.gai),
         k.user = {"dial"}, k.frees = 0, k.told = <<>>, k.handler = "dial",
         NEW c, NEW m, m = Emitted([k EXCEPT !.pend = FALSE], "dial")
  PROVE  m \in Slot /\ Failing(m, FailedFrame(c, "dial", "timer"))
<1> DEFINE d == [k EXCEPT !.pend = FALSE]
<1>1. d \in Slot
  BY DEF Slot
<1>2. d.state = "live" /\ d.list = "dial" /\ d.sock \in {"none", "semi"} /\ ~d.hd
      /\ ((d.req = "resolving" /\ d.gai) \/ (d.req = "connecting" /\ ~d.gai))
      /\ d.user = {"dial"} /\ d.frees = 0 /\ d.told = <<>> /\ d.handler = "dial" /\ ~d.pend
  BY DEF Slot
<1>3. m = Emitted(d, "dial")
  OBVIOUS
<1> HIDE DEF d
<1>4. m \in Slot /\ m.told = <<"failed">> /\ m.state = d.state /\ m.frees = d.frees /\ m.pend = d.pend /\ m.hd = d.hd
      /\ m.list = d.list /\ m.sock = d.sock /\ m.req = d.req /\ m.gai = d.gai /\ m.user = d.user
  <2>1. d.handler = "dial" /\ d.told = <<>> /\ "dial" \in {"dial", "peer"}
    BY <1>2
  <2> QED BY ONLY <1>1, <1>3, <2>1, EmittedIs
<1> QED BY <1>2, <1>4 DEF Failing, FailedFrame

\* A handshake that is refused or timed out, before its socket is closed.
LEMMA HandshakeFails ==
  ASSUME NEW k \in Slot, k.state = "live", k.req \in {"handshaking", "done"}, ~k.gai, Handshaking(k), ~k.pend, k.hd,
         k.user = {k.sock}, k.frees = 0, k.told = <<>>, k.handler = k.sock,
         NEW c, NEW m, m = Emitted(k, k.sock)
  PROVE  m \in Slot /\ Failing(m, FailedFrame(c, k.sock, "close"))
<1>1. k.sock \in {"dial", "peer"}
  BY DEF Handshaking
<1>2. m \in Slot /\ m.told = <<"failed">> /\ m.state = k.state /\ m.frees = k.frees /\ m.pend = k.pend /\ m.hd = k.hd
      /\ m.sock = k.sock /\ m.req = k.req /\ m.gai = k.gai /\ m.user = k.user /\ k.sock \in m.notified
  <2>1. k \in Slot /\ k.handler = k.sock /\ k.told = <<>> /\ m = Emitted(k, k.sock)
    OBVIOUS
  <2> QED BY ONLY <1>1, <2>1, EmittedIs
<1> QED BY <1>1, <1>2 DEF Failing, FailedFrame

\* A handshake whose socket is closed.
LEMMA HandshakeCloses ==
  ASSUME NEW k \in Slot, ShakingHands(k), NEW c, NEW m, m = Emitted([Release(k) EXCEPT !.sock = "none"], k.sock)
  PROVE  m \in Slot /\ Failing(m, FailedFrame(c, k.sock, "closed"))
<1> DEFINE r == Release(k)
           d == [r EXCEPT !.sock = "none"]
<1>1. k.sock \in {"dial", "peer"}
  BY DEF ShakingHands, Handshaking
<1>2. r \in Slot
  BY ReleaseTypes
<1>3. k.hd /\ ~k.pend /\ k.state = "live" /\ ~k.gai /\ k.user = {k.sock} /\ k.frees = 0 /\ k.told = <<>> /\ k.handler = k.sock
  BY DEF ShakingHands
<1>4. r.state = k.state /\ r.gai = k.gai /\ r.user = k.user /\ r.frees = k.frees /\ r.told = k.told /\ r.handler = k.handler
      /\ ~r.pend /\ ~r.hd /\ r.list = "none" /\ r.timer = "none" /\ r.req = "freed"
  BY <1>3 DEF Slot, Release, RequestFree, UnlinkRequest, DropResults, CloseTimer
<1> HIDE DEF r
<1>5. d \in Slot
  BY <1>2, NoSocketTypes
<1>6. d.state = r.state /\ d.gai = r.gai /\ d.user = r.user /\ d.frees = r.frees /\ d.told = r.told /\ d.handler = r.handler
      /\ d.pend = r.pend /\ d.hd = r.hd /\ d.list = r.list /\ d.timer = r.timer /\ d.req = r.req /\ d.sock = "none"
  BY ONLY <1>2 DEF Slot
<1>7. m = Emitted(d, k.sock)
  BY DEF r
<1> HIDE DEF d
<1>8. d.handler = k.sock /\ d.told = <<>>
  BY <1>3, <1>4, <1>6
<1>9. m \in Slot /\ m.told = <<"failed">> /\ m.state = d.state /\ m.frees = d.frees /\ m.pend = d.pend /\ m.hd = d.hd
      /\ m.list = d.list /\ m.timer = d.timer /\ m.sock = d.sock /\ m.req = d.req /\ m.gai = d.gai /\ m.user = d.user
  BY <1>1, <1>5, <1>7, <1>8, EmittedIs
<1> QED BY <1>1, <1>3, <1>4, <1>6, <1>9 DEF Failing, FailedFrame, Detached

-----------------------------------------------------------------------------
(* The operators on slots that do not.                                     *)

\* The resolver reports that it was cancelled.
LEMMA AnswerCancelled ==
  ASSUME NEW k \in Slot, Cancelled(k) \/ Over(k), k.gai, NEW m, m = RequestFree([k EXCEPT !.gai = FALSE])
  PROVE  m \in Slot /\ m.told = k.told /\ m.state = k.state /\ (Cancelled(k) => Cancelled(m)) /\ (Over(k) => Over(m))
<1>1. [k EXCEPT !.gai = FALSE] \in Slot
  BY ONLY k \in Slot DEF Slot
<1>2. m = [k EXCEPT !.gai = FALSE, !.req = "freed"]
  BY DEF Slot, RequestFree
<1>3. m \in Slot
  BY ONLY k \in Slot, <1>2 DEF Slot
<1>4. m.told = k.told /\ m.state = k.state /\ m.frees = k.frees /\ m.user = k.user /\ m.list = k.list /\ m.timer = k.timer
      /\ m.sock = k.sock /\ m.pend = k.pend /\ m.hd = k.hd /\ ~m.gai /\ m.req = "freed"
  BY ONLY k \in Slot, <1>2 DEF Slot
<1> QED BY <1>3, <1>4 DEF Cancelled, Over, Detached, Gone

\* Its addresses are being tried, none is.
Trying(k) ==
  /\ k.state = "live" /\ k.req = "connecting" /\ ~k.gai /\ k.list = "dial" /\ k.sock = "none" /\ k.pend /\ ~k.hd
  /\ k.user = {"dial"} /\ k.frees = 0 /\ k.told = <<>> /\ k.notified = {} /\ k.handler = "dial" /\ ~k.ended

\* The resolver has answered.
LEMMA AnswerTries ==
  ASSUME NEW k \in Slot, Resolving(k), NEW d, d = [k EXCEPT !.gai = FALSE],
         NEW n \in 1 .. MaxAddresses, NEW m, m = [d EXCEPT !.req = "connecting", !.addrs = n]
  PROVE  d \in Slot /\ m \in Slot /\ Trying(m)
         /\ d.state = "live" /\ d.list = "dial" /\ d.sock = "none" /\ ~d.hd /\ d.req = "resolving" /\ ~d.gai
         /\ d.user = {"dial"} /\ d.frees = 0 /\ d.told = <<>> /\ d.handler = "dial"
<1>1. d \in Slot
  BY ONLY k \in Slot, d = [k EXCEPT !.gai = FALSE] DEF Slot
<1>2. n \in 0 .. MaxAddresses
  BY ClientConnectAssumption
<1>3. m \in Slot
  BY ONLY <1>1, <1>2, m = [d EXCEPT !.req = "connecting", !.addrs = n], SetReq, SetAddrs
<1>4. d.state = "live" /\ d.list = "dial" /\ d.sock = "none" /\ ~d.hd /\ d.req = "resolving" /\ ~d.gai
      /\ d.user = {"dial"} /\ d.frees = 0 /\ d.told = <<>> /\ d.handler = "dial"
  BY DEF Slot, Resolving
<1>5. Trying(m)
  BY DEF Slot, Resolving, Trying
<1> QED BY <1>1, <1>3, <1>4, <1>5

\* The attempt has failed.
LEMMA NextTries ==
  ASSUME NEW k \in Slot, Connecting(k), NEW m, m = [CloseConnecting(k) EXCEPT !.addrs = @ - 1]
  PROVE  m \in Slot /\ Trying(m)
<1> DEFINE n == k.addrs - 1
<1>1. n \in 0 .. MaxAddresses
  BY SlotFields, ClientConnectAssumption DEF Connecting
<1>2. m = [k EXCEPT !.sock = "none", !.addrs = n]
  BY DEF Slot, CloseConnecting, Connecting
<1> HIDE DEF n
<1>3. m \in Slot
  BY ONLY k \in Slot, <1>1, <1>2, SetSock, SetAddrs
<1>4. Trying(m)
  BY ONLY k \in Slot, Connecting(k), <1>2 DEF Slot, Connecting, Trying
<1> QED BY <1>3, <1>4

\* No address is left.
LEMMA TryFails ==
  ASSUME NEW k \in Slot, Trying(k), NEW c, NEW m, m = Emitted([DropResults(k) EXCEPT !.pend = FALSE], "dial")
  PROVE  m \in Slot /\ Failing(m, FailedFrame(c, "dial", "fail"))
<1> DEFINE d == DropResults(k)
<1>1. d \in Slot
  BY RequestTypes
<1>2. d.state = "live" /\ d.list = "dial" /\ d.sock = "none" /\ ~d.hd /\ d.req = "connecting" /\ ~d.gai
      /\ d.user = {"dial"} /\ d.frees = 0 /\ d.told = <<>> /\ d.handler = "dial"
  BY DEF Slot, Trying, DropResults
<1> HIDE DEF d
<1>3. m = Emitted([d EXCEPT !.pend = FALSE], "dial")
  BY DEF d
<1> QED BY ONLY <1>1, <1>2, <1>3, RequestFails

\* A socket is made for one of them.
LEMMA TryConnects ==
  ASSUME NEW k \in Slot, Trying(k), NEW left \in 1 .. k.addrs, NEW m, m = [k EXCEPT !.addrs = left, !.sock = "semi"]
  PROVE  m \in Slot /\ Connecting(m)
<1>1. left \in 0 .. MaxAddresses /\ left > 0
  BY SlotFields, ClientConnectAssumption
<1>2. m \in Slot
  BY ONLY k \in Slot, <1>1, m = [k EXCEPT !.addrs = left, !.sock = "semi"] DEF Slot
<1>3. Connecting(m)
  BY <1>1 DEF Slot, Trying, Connecting
<1> QED BY <1>2, <1>3

\* The attempt is connected.
LEMMA ConnectedShakes ==
  ASSUME NEW k \in Slot, Connecting(k), NEW m, m = Opened(Rearmed(DropResults([k EXCEPT !.req = "handshaking"])))
  PROVE  m \in Slot /\ ShakingHands(m)
<1> DEFINE a == [k EXCEPT !.req = "handshaking"]
           b == DropResults(a)
           e == Rearmed(b)
           t == e.proxy # "none"
           n == [e EXCEPT !.sock = "dial", !.pend = FALSE, !.hd = e.pend]
<1>1. a \in Slot
  BY ONLY k \in Slot DEF Slot
<1> HIDE DEF a
<1>2. b \in Slot
  BY <1>1, RequestTypes
<1>3. b.state = a.state /\ b.req = a.req /\ b.gai = a.gai /\ b.list = a.list /\ b.pend = a.pend /\ b.user = a.user
      /\ b.frees = a.frees /\ b.told = a.told /\ b.notified = a.notified /\ b.handler = a.handler /\ b.ended = a.ended
  BY ONLY <1>1 DEF Slot, DropResults
<1>4. a.state = "live" /\ a.req = "handshaking" /\ ~a.gai /\ a.list = "dial" /\ a.pend /\ a.user = {"dial"}
      /\ a.frees = 0 /\ a.told = <<>> /\ a.notified = {} /\ a.handler = "dial" /\ ~a.ended
  BY DEF Slot, Connecting, a
<1> HIDE DEF b
<1>5. e \in Slot
  BY ONLY <1>2, SetTimer DEF Rearmed, CloseTimer, e
<1>6. e.state = b.state /\ e.req = b.req /\ e.gai = b.gai /\ e.list = b.list /\ e.pend = b.pend /\ e.user = b.user
      /\ e.frees = b.frees /\ e.told = b.told /\ e.notified = b.notified /\ e.handler = b.handler /\ e.ended = b.ended
  BY ONLY <1>2 DEF Slot, Rearmed, CloseTimer
<1> HIDE DEF e
<1>7. n \in Slot
  <2>1. e.pend \in BOOLEAN
    BY <1>5, SlotFields
  <2> QED BY ONLY <1>5, <2>1, SetSock, SetPend, SetHd DEF n
<1>8. n.state = e.state /\ n.req = e.req /\ n.gai = e.gai /\ n.list = e.list /\ n.user = e.user
      /\ n.frees = e.frees /\ n.told = e.told /\ n.notified = e.notified /\ n.handler = e.handler /\ n.ended = e.ended
      /\ n.sock = "dial" /\ ~n.pend /\ n.hd = e.pend
  BY ONLY <1>5 DEF Slot
<1>9. m = [n EXCEPT !.opened = "dial", !.tunnel = t]
  BY DEF Opened, e, b, a
<1>10. t \in BOOLEAN
  OBVIOUS
<1> HIDE DEF n, t
<1>11. m \in Slot
  BY ONLY <1>7, <1>9, <1>10, SetOpened, SetTunnel
<1>12. m.state = n.state /\ m.req = n.req /\ m.gai = n.gai /\ m.list = n.list /\ m.user = n.user
      /\ m.frees = n.frees /\ m.told = n.told /\ m.notified = n.notified /\ m.handler = n.handler /\ m.ended = n.ended
      /\ m.sock = n.sock /\ m.pend = n.pend /\ m.hd = n.hd
  BY ONLY <1>7, <1>9 DEF Slot
<1> QED BY <1>3, <1>4, <1>6, <1>8, <1>11, <1>12 DEF ShakingHands, Handshaking

\* The proxy has answered.
LEMMA TunnelShakes ==
  ASSUME NEW k \in Slot, ShakingHands(k), NEW m,
         m = IF k.proxy = "tls" THEN ProxyStartTls(k) ELSE [k EXCEPT !.tunnel = FALSE]
  PROVE  m \in Slot /\ ShakingHands(m)
<1>1. CASE k.proxy = "tls"
  <2> DEFINE a == [k EXCEPT !.sock = "peer", !.opened = "peer", !.tunnel = FALSE, !.handler = "peer", !.user = {"peer"}]
             b == UnlinkRequest(a)
  <2>1. a \in Slot
    BY ONLY k \in Slot, SetSock, SetOpened, SetTunnel, SetHandler, SetUser
  <2>2. a.state = k.state /\ a.req = k.req /\ a.gai = k.gai /\ a.sock = "peer" /\ a.pend = k.pend /\ a.hd = k.hd
        /\ a.user = {"peer"} /\ a.frees = k.frees /\ a.told = k.told /\ a.notified = k.notified /\ a.handler = "peer"
        /\ a.ended = k.ended
    BY ONLY k \in Slot DEF Slot
  <2>3. m = LinkRequest(UnlinkRequest(a), "peer")
    BY <1>1 DEF ProxyStartTls
  <2> HIDE DEF a
  <2>4. m = [a EXCEPT !.list = "none", !.list = "peer"]
    BY ONLY <2>3 DEF LinkRequest, UnlinkRequest
  <2>5. m \in Slot
    BY ONLY <2>1, <2>4, SetList
  <2>6. m.state = a.state /\ m.req = a.req /\ m.gai = a.gai /\ m.sock = a.sock /\ m.pend = a.pend /\ m.hd = a.hd
        /\ m.user = a.user /\ m.frees = a.frees /\ m.told = a.told /\ m.notified = a.notified /\ m.handler = a.handler
        /\ m.ended = a.ended /\ m.list = "peer"
    BY ONLY <2>1, <2>4 DEF Slot
  <2>7. k.state = "live" /\ k.req = "handshaking" /\ ~k.gai /\ ~k.pend /\ k.hd /\ k.frees = 0 /\ k.told = <<>>
        /\ k.notified = {} /\ ~k.ended
    BY DEF ShakingHands
  <2> QED BY ONLY <2>2, <2>5, <2>6, <2>7 DEF ShakingHands, Handshaking
<1>2. CASE k.proxy # "tls"
  <2>1. m = [k EXCEPT !.tunnel = FALSE]
    BY <1>2
  <2>2. m \in Slot
    BY ONLY k \in Slot, <2>1, SetTunnel
  <2>3. m.state = k.state /\ m.req = k.req /\ m.gai = k.gai /\ m.sock = k.sock /\ m.pend = k.pend /\ m.hd = k.hd
        /\ m.user = k.user /\ m.frees = k.frees /\ m.told = k.told /\ m.notified = k.notified /\ m.handler = k.handler
        /\ m.ended = k.ended /\ m.list = k.list
    BY ONLY k \in Slot, <2>1 DEF Slot
  <2> QED BY <2>2, <2>3 DEF ShakingHands, Handshaking
<1> QED BY <1>1, <1>2

\* Both owners have forgotten the request of a handshake.
LEMMA ReleaseShakes ==
  ASSUME NEW k \in Slot, ShakingHands(k), NEW m, m = Release(k)
  PROVE  /\ m \in Slot /\ m.state = "live" /\ m.req = "freed" /\ ~m.gai /\ m.list = "none" /\ m.timer = "none"
         /\ ~m.pend /\ ~m.hd /\ m.user = {k.sock} /\ m.frees = 0 /\ m.told = <<>> /\ ~m.ended /\ k.sock \in {"dial", "peer"}
         /\ m.handler = k.sock
<1>1. m \in Slot
  BY ReleaseTypes
<1>2. k.state = "live" /\ k.hd /\ ~k.gai /\ k.user = {k.sock} /\ k.frees = 0 /\ k.told = <<>> /\ ~k.ended
      /\ k.sock \in {"dial", "peer"} /\ k.handler = k.sock
  BY DEF ShakingHands, Handshaking
<1>3. m.state = k.state /\ m.req = "freed" /\ m.gai = k.gai /\ m.list = "none" /\ m.timer = "none"
      /\ ~m.pend /\ ~m.hd /\ m.user = k.user /\ m.frees = k.frees /\ m.told = k.told /\ m.ended = k.ended
      /\ m.handler = k.handler
  BY ONLY k \in Slot, m = Release(k), <1>2
  DEF Slot, Release, RequestFree, UnlinkRequest, DropResults, CloseTimer
<1> QED BY <1>1, <1>2, <1>3

\* The connection is upgraded: its socket moves to the frame context.
LEMMA AdoptFrames ==
  ASSUME NEW k \in Slot, ShakingHands(k), NEW m,
         m = Tell([Release(k) EXCEPT !.sock = "frame", !.opened = "none", !.user = @ \ {k.sock}, !.frees = @ + 1], "open")
  PROVE  m \in Slot /\ Framed(m) /\ ~m.ended
<1> DEFINE r == Release(k)
           u == r.user \ {k.sock}
           n == r.frees + 1
           a == [r EXCEPT !.sock = "frame", !.opened = "none", !.user = u, !.frees = n]
<1>1. m = Tell(a, "open")
  OBVIOUS
<1>2. /\ r \in Slot /\ r.state = "live" /\ r.req = "freed" /\ ~r.gai /\ r.list = "none" /\ r.timer = "none"
      /\ ~r.pend /\ ~r.hd /\ r.user = {k.sock} /\ r.frees = 0 /\ r.told = <<>> /\ ~r.ended
  BY ReleaseShakes
<1> HIDE DEF r
<1>3. u = {} /\ n = 1
  BY <1>2
<1> HIDE DEF u, n
<1>4. a \in Slot
  BY ONLY <1>2, <1>3, SetSock, SetOpened, SetUser, SetFrees
<1>5. a.state = r.state /\ a.req = r.req /\ a.gai = r.gai /\ a.list = r.list /\ a.timer = r.timer /\ a.pend = r.pend
      /\ a.hd = r.hd /\ a.user = u /\ a.frees = n /\ a.told = r.told /\ a.ended = r.ended /\ a.sock = "frame"
  BY ONLY <1>2 DEF Slot
<1> HIDE DEF a
<1>6. m \in Slot
  BY <1>1, <1>4, HandlerTypes
<1>7. m.state = a.state /\ m.req = a.req /\ m.gai = a.gai /\ m.list = a.list /\ m.timer = a.timer /\ m.pend = a.pend
      /\ m.hd = a.hd /\ m.user = a.user /\ m.frees = a.frees /\ m.told = Append(a.told, "open") /\ m.ended = a.ended
      /\ m.sock = a.sock
  BY ONLY <1>1, <1>4 DEF Slot, Tell
<1>8. m.told = <<"open">>
  BY <1>2, <1>5, <1>7
<1> QED BY <1>2, <1>3, <1>5, <1>6, <1>7, <1>8 DEF Framed

\* The fields that the phases after the handshake are about.
SameRest(k, m) ==
  /\ m.state = k.state /\ m.req = k.req /\ m.gai = k.gai /\ m.list = k.list /\ m.timer = k.timer /\ m.pend = k.pend
  /\ m.hd = k.hd /\ m.user = k.user /\ m.frees = k.frees /\ m.ended = k.ended

\* Two answers in a row.
LEMMA AppendPair ==
  ASSUME NEW a, NEW b
  PROVE  Append(<<a>>, b) = <<a, b>>
<1> DEFINE s == Append(<<a>>, b)
           t == <<a, b>>
<1>1. <<a>> \in Seq({a, b}) /\ Len(<<a>>) = 1 /\ <<a>>[1] = a
  OBVIOUS
<1>2. s \in Seq({a, b}) /\ Len(s) = 2 /\ s[1] = a /\ s[2] = b
  BY <1>1
<1>3. t \in Seq({a, b}) /\ Len(t) = 2 /\ t[1] = a /\ t[2] = b
  OBVIOUS
<1> HIDE DEF s, t
<1>4. \A i \in 1 .. Len(s) : s[i] = t[i]
  BY <1>2, <1>3
<1>5. s = t
  BY <1>2, <1>3, <1>4, SeqEqual
<1> QED BY <1>5 DEF s, t

\* The socket of a frame context is closed.
LEMMA FrameOver ==
  ASSUME NEW k \in Slot, Framed(k)
  PROVE  /\ k.ended => Done([k EXCEPT !.sock = "none"]) \in Slot /\ Over(Done([k EXCEPT !.sock = "none"]))
                       /\ Done([k EXCEPT !.sock = "none"]).state = "done"
                       /\ Done([k EXCEPT !.sock = "none"]).told = <<"open", "close">>
         /\ ~k.ended => Tell([k EXCEPT !.sock = "none"], "close") \in Slot /\ Over(Tell([k EXCEPT !.sock = "none"], "close"))
                        /\ Tell([k EXCEPT !.sock = "none"], "close").state = "live"
                        /\ Tell([k EXCEPT !.sock = "none"], "close").told = <<"open", "close">>
<1> DEFINE a == [k EXCEPT !.sock = "none"]
<1>1. a \in Slot
  BY ONLY k \in Slot, SetSock
<1>2. SameRest(k, a) /\ a.sock = "none" /\ a.told = k.told
  BY ONLY k \in Slot DEF Slot, SameRest
<1> HIDE DEF a
<1>3. ASSUME k.ended PROVE Done(a) \in Slot /\ Over(Done(a)) /\ Done(a).state = "done" /\ Done(a).told = <<"open", "close">>
  <2> DEFINE m == Done(a)
  <2>1. a.state = "live"
    BY <1>2 DEF SameRest, Framed
  <2>2. m = [a EXCEPT !.state = "done"]
    BY <2>1 DEF Done
  <2> HIDE DEF m
  <2>3. m \in Slot
    BY ONLY <1>1, <2>2, SetState
  <2>4. m.state = "done" /\ m.req = a.req /\ m.gai = a.gai /\ m.list = a.list /\ m.timer = a.timer /\ m.pend = a.pend
        /\ m.hd = a.hd /\ m.user = a.user /\ m.frees = a.frees /\ m.told = a.told /\ m.sock = a.sock
    BY ONLY <1>1, <2>2 DEF Slot
  <2>5. Over(m) /\ m.state = "done" /\ m.told = <<"open", "close">>
    BY <1>2, <1>3, <2>4 DEF SameRest, Framed, Over, Detached, Gone
  <2> QED BY <2>3, <2>5 DEF m
<1>4. ASSUME ~k.ended
      PROVE  Tell(a, "close") \in Slot /\ Over(Tell(a, "close")) /\ Tell(a, "close").state = "live"
             /\ Tell(a, "close").told = <<"open", "close">>
  <2> DEFINE m == Tell(a, "close")
  <2>1. m \in Slot
    BY <1>1, HandlerTypes
  <2>2. SameRest(a, m) /\ m.told = Append(a.told, "close") /\ m.sock = a.sock
    BY ONLY <1>1 DEF Slot, Tell, SameRest
  <2> HIDE DEF m
  <2>3. m.told = <<"open", "close">>
    <3>1. a.told = <<"open">>
      BY <1>2, <1>4 DEF Framed
    <3>2. Append(<<"open">>, "close") = <<"open", "close">>
      BY AppendPair
    <3> QED BY ONLY <2>2, <3>1, <3>2
  <2>4. Over(m) /\ m.state = "live"
    BY <1>2, <2>2, <2>3 DEF SameRest, Framed, Over, Detached, Gone
  <2> QED BY <2>1, <2>3, <2>4 DEF m
<1> QED BY <1>3, <1>4 DEF a

\* end() tells the application that the connection is closed.
LEMMA EndFrames ==
  ASSUME NEW k \in Slot, Framed(k), ~k.ended, NEW m, m = Tell([k EXCEPT !.ended = TRUE], "close")
  PROVE  m \in Slot /\ Framed(m) /\ m.ended
<1> DEFINE a == [k EXCEPT !.ended = TRUE]
<1>1. a \in Slot
  BY ONLY k \in Slot, SetEnded
<1>2. a.state = k.state /\ a.req = k.req /\ a.gai = k.gai /\ a.list = k.list /\ a.timer = k.timer /\ a.pend = k.pend
      /\ a.hd = k.hd /\ a.user = k.user /\ a.frees = k.frees /\ a.ended /\ a.sock = k.sock /\ a.told = k.told
  BY ONLY k \in Slot DEF Slot
<1>3. m = Tell(a, "close")
  OBVIOUS
<1> HIDE DEF a
<1>4. m \in Slot
  BY <1>1, <1>3, HandlerTypes
<1>5. SameRest(a, m) /\ m.told = Append(a.told, "close") /\ m.sock = a.sock
  BY ONLY <1>1, <1>3 DEF Slot, Tell, SameRest
<1>6. m.told = <<"open", "close">>
  <2>1. a.told = <<"open">>
    BY <1>2 DEF Framed
  <2>2. Append(<<"open">>, "close") = <<"open", "close">>
    BY AppendPair
  <2> QED BY ONLY <1>5, <2>1, <2>2
<1> QED BY <1>2, <1>4, <1>5, <1>6 DEF SameRest, Framed

\* A connect is started, or its failure deferred.
LEMMA NewSlotIs ==
  ASSUME NEW proxy \in Proxies, NEW deadline \in Deadlines, NEW m, m = NewSlot(proxy, deadline)
  PROVE  m \in Slot /\ Waiting(m)
<1>1. proxy \in {"none", "plain", "tls"} /\ deadline \subseteq {"connect", "handshake"} /\ MaxAddresses \in Nat
  BY ClientConnectAssumption
<1>2. m = [state |-> "live", proxy |-> proxy, deadline |-> deadline,
           req |-> "none", list |-> "none", gai |-> FALSE, timer |-> "none", addrs |-> 0,
           sock |-> "none", tunnel |-> FALSE, ended |-> FALSE,
           pend |-> FALSE, hd |-> FALSE, opened |-> "none", notified |-> {}, handler |-> "dial",
           user |-> {}, frees |-> 0, told |-> <<>>]
  BY DEF NewSlot, Unused
<1>3. m \in Slot
  BY <1>1, <1>2 DEF Slot
<1> QED BY <1>2, <1>3 DEF Waiting, Detached

\* A connect that is started waits for the resolver.
LEMMA PendingIs ==
  ASSUME NEW proxy \in Proxies, NEW deadline \in Deadlines, NEW m, m = Pending(NewSlot(proxy, deadline))
  PROVE  m \in Slot /\ Resolving(m)
<1> DEFINE k == NewSlot(proxy, deadline)
           t == IF "connect" \in k.deadline THEN "armed" ELSE IF k.deadline # {} THEN "idle" ELSE "none"
<1>1. k \in Slot
  BY NewSlotIs
<1>2. k.state = "live" /\ k.sock = "none" /\ ~k.hd /\ k.frees = 0 /\ k.told = <<>> /\ k.notified = {}
      /\ k.handler = "dial" /\ ~k.ended
  BY DEF NewSlot, Unused
<1>3. m = [k EXCEPT !.req = "resolving", !.gai = TRUE, !.timer = t, !.list = "dial", !.pend = TRUE, !.user = {"dial"}]
  BY DEF Pending, StartRequest, LinkRequest
<1>4. t \in {"none", "idle", "armed"}
  OBVIOUS
<1> HIDE DEF k, t
<1>5. m \in Slot
  BY ONLY <1>1, <1>3, <1>4, SetReq, SetGai, SetTimer, SetList, SetPend, SetUser
<1>6. m.state = k.state /\ m.sock = k.sock /\ m.hd = k.hd /\ m.frees = k.frees /\ m.told = k.told
      /\ m.notified = k.notified /\ m.handler = k.handler /\ m.ended = k.ended
      /\ m.req = "resolving" /\ m.gai /\ m.list = "dial" /\ m.pend /\ m.user = {"dial"}
  BY ONLY <1>1, <1>3 DEF Slot
<1> QED BY <1>2, <1>5, <1>6 DEF Resolving

\* close() cancels what is pending and leaves the rest as it is.
LEMMA Cancels ==
  ASSUME NEW k \in Slot, NEW m, m = Cancel(k)
  PROVE  /\ m \in Slot
         /\ Resolving(k) \/ Connecting(k) => Cancelled(m)
         /\ ~k.pend => m = k
<1>1. m \in Slot
  BY ReleaseTypes
<1>2. ASSUME Resolving(k) PROVE Cancelled(m)
  <2>1. k.pend /\ k.req = "resolving" /\ k.gai /\ k.sock = "none" /\ ~k.hd /\ k.state = "live" /\ k.user = {"dial"}
        /\ k.frees = 0 /\ k.told = <<>>
    BY <1>2 DEF Resolving
  <2>2. m.state = k.state /\ m.user = k.user /\ m.frees = k.frees /\ m.told = k.told /\ m.gai = k.gai
        /\ m.req = "cancelled" /\ m.list = "none" /\ m.timer = "none" /\ m.sock = "none" /\ ~m.pend /\ m.hd = k.hd
    <3>1. m = [k EXCEPT !.timer = "none", !.list = "none", !.pend = FALSE, !.req = "cancelled"]
      BY <2>1 DEF Cancel, UnlinkRequest, CloseConnecting, CloseTimer, Slot
    <3> QED BY ONLY k \in Slot, <3>1, <2>1 DEF Slot
  <2> QED BY ONLY <2>1, <2>2 DEF Cancelled, Detached, Gone
<1>3. ASSUME Connecting(k) PROVE Cancelled(m)
  <2>1. k.pend /\ k.req = "connecting" /\ ~k.gai /\ k.sock = "semi" /\ ~k.hd /\ k.state = "live" /\ k.user = {"dial"}
        /\ k.frees = 0 /\ k.told = <<>>
    BY <1>3 DEF Connecting
  <2>2. m.state = k.state /\ m.user = k.user /\ m.frees = k.frees /\ m.told = k.told /\ m.gai = k.gai
        /\ m.req = "freed" /\ m.list = "none" /\ m.timer = "none" /\ m.sock = "none" /\ ~m.pend /\ m.hd = k.hd
    BY ONLY k \in Slot, m = Cancel(k), <2>1
    DEF Slot, Cancel, RequestFree, DropResults, UnlinkRequest, CloseConnecting, CloseTimer
  <2> QED BY <2>1, <2>2 DEF Cancelled, Detached, Gone
<1>4. ASSUME ~k.pend PROVE m = k
  BY <1>4 DEF Cancel
<1> QED BY <1>1, <1>2, <1>3, <1>4

\* close() meets a connect whose failed handler runs.
LEMMA ClosesFailing ==
  ASSUME NEW k \in Slot, NEW f, Failing(k, f), f.then \in Answers, f.ctx \in {"none", "dial", "peer"},
         NEW m, m = IF Handshaking(k) THEN HandshakeGone([Release(k) EXCEPT !.sock = "none"]) ELSE CloseConnecting(k)
  PROVE  m \in Slot /\ Failing(m, f) /\ (Handshaking(k) => k.sock \in k.notified) /\ m.sock \notin {"semi", "frame"} /\ ~m.pend
<1>1. k.state = "live" /\ k.frees = 0 /\ k.told = <<"failed">> /\ ~k.pend
  BY FailingIs
<1>2. CASE Handshaking(k)
  <2> DEFINE r == Release(k)
             a == [r EXCEPT !.sock = "none"]
  <2>1. f.then = "close" /\ k.sock = f.ctx /\ f.ctx \in {"dial", "peer"} /\ f.ctx \in k.notified /\ k.hd /\ ~k.gai
        /\ k.user = {f.ctx}
    BY <1>2 DEF Failing, Handshaking, Detached, Answers
  <2>2. r \in Slot
    BY ReleaseTypes
  <2>3. r.state = k.state /\ r.frees = k.frees /\ r.told = k.told /\ r.gai = k.gai /\ r.user = k.user
        /\ r.req = "freed" /\ r.list = "none" /\ r.timer = "none" /\ ~r.pend /\ ~r.hd
    BY ONLY k \in Slot, <2>1 DEF Slot, Release, RequestFree, UnlinkRequest, DropResults, CloseTimer
  <2>4. m = HandshakeGone(a)
    BY <1>2
  <2> HIDE DEF r
  <2>5. m \in Slot
    BY ONLY <2>2, <2>4, SetSock, SetOpened DEF HandshakeGone, a
  <2>6. m.state = r.state /\ m.frees = r.frees /\ m.told = r.told /\ m.gai = r.gai /\ m.user = r.user
        /\ m.req = r.req /\ m.list = r.list /\ m.timer = r.timer /\ m.pend = r.pend /\ m.hd = r.hd /\ m.sock = "none"
    BY ONLY <2>2, <2>4 DEF Slot, HandshakeGone, a
  <2>7. Failing(m, f)
    BY <1>1, <2>1, <2>3, <2>6 DEF Failing, Detached
  <2> QED BY <2>1, <2>3, <2>5, <2>6, <2>7
<1>3. CASE ~Handshaking(k)
  <2>1. m = CloseConnecting(k)
    BY <1>3
  <2>2. m \in Slot
    BY <2>1, RequestTypes
  <2>3. m.state = k.state /\ m.frees = k.frees /\ m.told = k.told /\ m.gai = k.gai /\ m.user = k.user
        /\ m.req = k.req /\ m.list = k.list /\ m.timer = k.timer /\ m.pend = k.pend /\ m.hd = k.hd
        /\ m.notified = k.notified /\ m.sock = IF k.sock = "semi" THEN "none" ELSE k.sock
    BY ONLY k \in Slot, <2>1 DEF Slot, CloseConnecting
  <2>4. m.sock \notin {"semi", "frame"}
    <3>1. k.sock # "frame"
      BY FailingIs
    <3> QED BY <2>3, <3>1
  <2>5. Failing(m, f)
    <3>1. k.sock = "semi" => f.then = "timer"
      BY DEF Failing, Answers, Detached
    <3>2. CASE k.sock = "semi"
      BY <1>1, <2>3, <3>1, <3>2 DEF Failing
    <3>3. CASE k.sock # "semi"
      <4>1. m = k
        BY <2>1, <3>3 DEF CloseConnecting
      <4> QED BY <4>1
    <3> QED BY <3>2, <3>3
  <2> QED BY <1>1, <1>3, <2>2, <2>3, <2>4, <2>5
<1> QED BY <1>2, <1>3

\* The deleters of a connect that is over or cancelled.
LEMMA FreedSlot ==
  ASSUME NEW k \in Slot, Cancelled(k) \/ Over(k), NEW m, m = FreeSlot(k)
  PROVE  /\ m \in Slot /\ m.state = "freed" /\ m.told = k.told /\ ~m.pend /\ m.sock = "none"
         /\ Cancelled(k) /\ k.state = "live" => Cancelled(m)
         /\ Over(k) => Over(m)
<1> DEFINE n == k.frees + Cardinality(k.user)
<1>1. k.list = "none"
  BY DEF Cancelled, Over, Detached
<1>2. m = [k EXCEPT !.state = "freed", !.frees = n, !.user = {}]
  BY <1>1 DEF FreeSlot
<1>3. ASSUME k.user = {"dial"}, k.frees = 0 PROVE n = 1
  <2>1. Cardinality(k.user) = 1
    BY <1>3, FS_Singleton, Zenon
  <2> QED BY <1>3, <2>1
<1>4. ASSUME k.user = {}, k.frees = 1 PROVE n = 1
  <2>1. Cardinality(k.user) = 0
    BY <1>4, FS_EmptySet, Zenon
  <2> QED BY <1>4, <2>1
<1>5. n = 1
  BY <1>3, <1>4 DEF Cancelled, Over
<1>7. n \in Nat
  BY <1>5
<1> HIDE DEF n
<1>8. m \in Slot
  BY ONLY k \in Slot, <1>2, <1>7, SetState, SetFrees, SetUser
<1>9. m.state = "freed" /\ m.user = {} /\ m.frees = n /\ m.told = k.told /\ m.req = k.req /\ m.gai = k.gai /\ m.list = k.list
      /\ m.timer = k.timer /\ m.sock = k.sock /\ m.pend = k.pend /\ m.hd = k.hd
  BY ONLY k \in Slot, <1>2 DEF Slot
<1>10. ~k.pend /\ k.sock = "none"
  BY DEF Cancelled, Over, Detached
<1>11. ASSUME Cancelled(k), k.state = "live" PROVE Cancelled(m)
  BY <1>5, <1>9, <1>11 DEF Cancelled, Detached, Gone
<1>12. ASSUME Over(k) PROVE Over(m)
  BY <1>5, <1>9, <1>12 DEF Over, Detached, Gone
<1> QED BY <1>8, <1>9, <1>10, <1>11, <1>12

-----------------------------------------------------------------------------
(* Steps: one connect c changes to k, with B the stack below the handler   *)
(* that is called, if one is.                                              *)

Calls(c, k, B) ==
  \/ /\ stack' = B
     /\ PhaseOf(k, c, Frames(B)) /\ HandledOf(k, c, Frames(B))
  \/ \E f \in Frame :
       /\ f.fn \in Handlers \cup {"failed"} /\ f.slot = c
       /\ f.fn = "failed" => ~InFailed(Frames(B), c)
       /\ stack' = <<f>> \o B
       /\ PhaseOf(k, c, {f} \cup Frames(B)) /\ HandledOf(k, c, {f} \cup Frames(B))

Changes(c, k, B) ==
  /\ k \in Slot
  /\ slot' = [slot EXCEPT ![c] = k]
  /\ Calls(c, k, B)
  /\ SameQueue(deferred, deferred')
  /\ Waiting(k) <=> Waiting(slot[c])
  /\ Advance(Status(slot[c]), Status(k))

Stays(c, k) ==
  /\ client # "open" /\ Shut(slot[c], c, Frames(stack)) => Shut(k, c, Frames(stack'))
  /\ client = "deleted" /\ slot[c].state \in {"unused", "freed"} => k.state \in {"unused", "freed"}

\* The new stack has the frames of B and perhaps one of c.
LEMMA NewFrames ==
  ASSUME NEW c \in Slots, NEW k, NEW B \in Seq(Frame), Nested(B), Calls(c, k, B),
         Others(Frames(stack), Frames(B), c)
  PROVE  /\ stack' \in Seq(Frame) /\ Nested(stack')
         /\ PhaseOf(k, c, Frames(stack')) /\ HandledOf(k, c, Frames(stack'))
         /\ Others(Frames(stack), Frames(stack'), c)
         /\ \A f : f.fn = "closing" => (f \in Frames(stack') <=> f \in Frames(B))
<1>1. CASE stack' = B /\ PhaseOf(k, c, Frames(B)) /\ HandledOf(k, c, Frames(B))
  BY <1>1
<1>2. CASE \E f \in Frame :
             /\ f.fn \in Handlers \cup {"failed"} /\ f.slot = c
             /\ f.fn = "failed" => ~InFailed(Frames(B), c)
             /\ stack' = <<f>> \o B
             /\ PhaseOf(k, c, {f} \cup Frames(B)) /\ HandledOf(k, c, {f} \cup Frames(B))
  <2>1. PICK f \in Frame :
             /\ f.fn \in Handlers \cup {"failed"} /\ f.slot = c
             /\ f.fn = "failed" => ~InFailed(Frames(B), c)
             /\ stack' = <<f>> \o B
             /\ PhaseOf(k, c, {f} \cup Frames(B)) /\ HandledOf(k, c, {f} \cup Frames(B))
    BY <1>2
  <2>2. f.fn # "wakeup" /\ f.fn # "closing"
    BY <2>1 DEF Handlers
  <2>3. <<f>> \o B \in Seq(Frame) /\ Frames(<<f>> \o B) = {f} \cup Frames(B)
    BY PushFrames
  <2>4. Nested(<<f>> \o B)
    BY <2>1, <2>2, PushNested
  <2>5. Others(Frames(stack), {f} \cup Frames(B), c)
    BY <2>1 DEF Others
  <2>6. \A g : g.fn = "closing" => (g \in {f} \cup Frames(B) <=> g \in Frames(B))
    BY <2>2
  <2> QED BY <2>1, <2>3, <2>4, <2>5, <2>6
<1> QED BY <1>1, <1>2 DEF Calls

\* A change keeps all of the invariant but what is about close().
LEMMA ChangeKeeps ==
  ASSUME IInv, NEW c \in Slots, NEW k, NEW B \in Seq(Frame), Nested(B), Changes(c, k, B),
         Others(Frames(stack), Frames(B), c)
  PROVE  /\ slot' \in [Slots -> Slot] /\ stack' \in Seq(Frame) /\ deferred' \in Seq(Item)
         /\ Nested(stack') /\ Phases(slot', Frames(stack')) /\ Handled(slot', Frames(stack'))
         /\ Queues(Frames(stack'), deferred', client) /\ Waits(slot', Frames(stack'), deferred')
         /\ Others(Frames(stack), Frames(stack'), c)
<1> DEFINE F == Frames(stack)
           G == Frames(stack')
<1>1. stack' \in Seq(Frame) /\ Nested(stack') /\ PhaseOf(k, c, G) /\ HandledOf(k, c, G) /\ Others(F, G, c)
  BY NewFrames DEF Changes
<1>2. slot \in [Slots -> Slot] /\ Phases(slot, F) /\ Handled(slot, F) /\ Queues(F, deferred, client)
      /\ Waits(slot, F, deferred)
  BY DEF IInv, Typed
<1>3. k \in Slot /\ slot' = [slot EXCEPT ![c] = k] /\ SameQueue(deferred, deferred') /\ (Waiting(k) <=> Waiting(slot[c]))
  BY DEF Changes
<1>4. slot' \in [Slots -> Slot]
  BY <1>2, <1>3
<1>5. deferred' \in Seq(Item)
  BY <1>3 DEF SameQueue
<1> HIDE DEF F, G
<1>6. Phases(slot', G) /\ Handled(slot', G) /\ Queues(G, deferred', client) /\ Waits(slot', G, deferred')
  BY ONLY c \in Slots, <1>1, <1>2, <1>3, OthersKeep, ZenonT(30)
<1> QED BY <1>1, <1>4, <1>5, <1>6 DEF F, G

\* And what is about close(), if the connect stays as close() left it.
LEMMA ChangeKeepsInv ==
  ASSUME IInv, NEW c \in Slots, NEW k, NEW B \in Seq(Frame), Nested(B), Changes(c, k, B), Stays(c, k), UNCHANGED client,
         Others(Frames(stack), Frames(B), c),
         \A f : f.fn = "closing" => (f \in Frames(stack) <=> f \in Frames(B))
  PROVE  IInv'
<1>1. /\ slot' \in [Slots -> Slot] /\ stack' \in Seq(Frame) /\ deferred' \in Seq(Item)
      /\ Nested(stack') /\ Phases(slot', Frames(stack')) /\ Handled(slot', Frames(stack'))
      /\ Queues(Frames(stack'), deferred', client) /\ Waits(slot', Frames(stack'), deferred')
      /\ Others(Frames(stack), Frames(stack'), c)
  BY ChangeKeeps
<1>2. \A f : f.fn = "closing" => (f \in Frames(stack') <=> f \in Frames(stack))
  BY NewFrames DEF Changes
<1>3. Closing(slot', Frames(stack'), client)
  <2>1. k \in Slot /\ slot' = [slot EXCEPT ![c] = k]
    BY DEF Changes
  <2>2. slot \in [Slots -> Slot] /\ Closing(slot, Frames(stack), client)
    BY DEF IInv, Typed
  <2>3. \A f \in Frames(stack) \cup Frames(stack') : f.fn = "closing" => f \in Frames(stack) /\ f \in Frames(stack')
    BY <1>2
  <2> QED BY <1>1, <2>1, <2>2, <2>3, ClosingKeeps DEF Stays
<1>4. client' \in {"open", "closing", "closed", "deleted"}
  BY DEF IInv, Typed
<1> QED BY <1>1, <1>3, <1>4 DEF IInv, Typed

-----------------------------------------------------------------------------
(* The ways in which a connect changes.                                    *)

Same(c, k) == (Waiting(k) <=> Waiting(slot[c])) /\ Advance(Status(slot[c]), Status(k))

\* No handler is called.
LEMMA Settles ==
  ASSUME NEW c, NEW k \in Slot, NEW B, ~InFailed(Frames(B), c), Steady(k), HandledOf(k, c, Frames(B)),
         slot' = [slot EXCEPT ![c] = k], stack' = B, SameQueue(deferred, deferred'), Same(c, k)
  PROVE  Changes(c, k, B)
<1>1. PhaseOf(k, c, Frames(B))
  BY Alone
<1> QED BY <1>1 DEF Changes, Calls, Same

\* failed is called.
LEMMA CallsFailed ==
  ASSUME NEW c \in Slots, NEW k \in Slot, NEW B, ~InFailed(Frames(B), c), HandledOf(k, c, Frames(B)),
         NEW x \in {"none", "dial", "peer"}, NEW then \in Answers, Failing(k, FailedFrame(c, x, then)),
         slot' = [slot EXCEPT ![c] = k], stack' = <<FailedFrame(c, x, then)>> \o B, SameQueue(deferred, deferred'), Same(c, k)
  PROVE  Changes(c, k, B)
<1> DEFINE f == FailedFrame(c, x, then)
<1>1. f \in Frame /\ f.fn = "failed" /\ f.slot = c
  BY DEF Frame, FailedFrame, Answers
<1> HIDE DEF f
<1>2. PhaseOf(k, c, {f} \cup Frames(B))
  BY <1>1, Alone DEF f
<1>3. HandledOf(k, c, {f} \cup Frames(B))
  BY <1>1 DEF HandledOf, Handlers
<1>4. Calls(c, k, B)
  BY <1>1, <1>2, <1>3 DEF Calls, f
<1> QED BY <1>4 DEF Changes, Same

\* open or close is called.
LEMMA CallsHandler ==
  ASSUME NEW c \in Slots, NEW k \in Slot, NEW B, ~InFailed(Frames(B), c), HandledOf(k, c, Frames(B)),
         NEW fn \in Handlers, Steady(k), k.state # "freed", fn = "close" => Over(k),
         slot' = [slot EXCEPT ![c] = k], stack' = <<[fn |-> fn, slot |-> c]>> \o B, SameQueue(deferred, deferred'), Same(c, k)
  PROVE  Changes(c, k, B)
<1> DEFINE f == [fn |-> fn, slot |-> c]
<1>1. f \in Frame /\ f.fn = fn /\ f.slot = c /\ f.fn # "failed"
  BY DEF Frame, Handlers
<1> HIDE DEF f
<1>2. PhaseOf(k, c, {f} \cup Frames(B))
  BY <1>1, Alone
<1>3. HandledOf(k, c, {f} \cup Frames(B))
  BY <1>1 DEF HandledOf
<1>4. Calls(c, k, B)
  BY <1>1, <1>2, <1>3 DEF Calls, f
<1> QED BY <1>4 DEF Changes, Same

\* Nothing runs: the connects are steady, and shut if the client is closed.
LEMMA IdleIs ==
  ASSUME IInv, Idle, NEW c \in Slots
  PROVE  /\ slot[c] \in Slot /\ Steady(slot[c]) /\ Frames(stack) = {} /\ ~InFailed(Frames(stack), c)
         /\ SameQueue(deferred, deferred)
         /\ client # "open" => ~slot[c].pend /\ slot[c].sock = "none"
         /\ \A k : HandledOf(k, c, Frames(stack))
<1>1. slot[c] \in Slot
  BY DEF IInv, Typed
<1>2. Frames(stack) = {}
  BY DEF Idle, Frames
<1>3. ~InFailed(Frames(stack), c) /\ \A k : HandledOf(k, c, Frames(stack))
  BY <1>2 DEF InFailed, HandledOf
<1>4. Steady(slot[c])
  BY <1>3 DEF IInv, Phases, PhaseOf
<1>5. SameQueue(deferred, deferred)
  BY DEF IInv, Typed, Queues, SameQueue
<1>6. ASSUME client # "open" PROVE ~slot[c].pend /\ slot[c].sock = "none"
  <2>1. client \in {"closing", "closed", "deleted"} /\ client # "closing"
    BY <1>2, <1>6 DEF IInv, Typed, Closing
  <2>2. Shut(slot[c], c, Frames(stack))
    BY <2>1 DEF IInv, Closing, AllShut
  <2> QED BY <1>3, <2>2 DEF Shut
<1> QED BY <1>1, <1>2, <1>3, <1>4, <1>5, <1>6

\* What a connect that is not shut does changes nothing for close().
LEMMA OpenStays ==
  ASSUME IInv, Idle, NEW c \in Slots, slot[c].pend \/ slot[c].sock # "none", NEW k, slot[c].state = "live"
  PROVE  Stays(c, k) /\ client = "open"
BY IdleIs DEF Stays

-----------------------------------------------------------------------------
(* Events.                                                                 *)

Underway(k) == Resolving(k) \/ Connecting(k) \/ ShakingHands(k)

\* A connect changes, with nothing that is below taken from the stack.
Moves(c) == \E k : Changes(c, k, stack) /\ Stays(c, k)

\* An event of a connect that is not answered yet takes it to its next phase.
LEMMA MovesOn ==
  ASSUME IInv, Idle, NEW c \in Slots, Underway(slot[c]), NEW k \in Slot, Underway(k),
         slot' = [slot EXCEPT ![c] = k], UNCHANGED <<stack, deferred>>
  PROVE  Moves(c)
<1>1. Steady(k) /\ ~InFailed(Frames(stack), c) /\ HandledOf(k, c, Frames(stack)) /\ SameQueue(deferred, deferred')
  BY IdleIs DEF Steady, Underway
<1>2. Same(c, k)
  <2>1. Status(k) = "pending" /\ Status(slot[c]) = "pending"
    BY StatusOf DEF Underway
  <2>2. ~Waiting(k) /\ ~Waiting(slot[c])
    BY Phasewise DEF Underway
  <2> QED BY <2>1, <2>2 DEF Same, Advance
<1>3. Changes(c, k, stack)
  BY <1>1, <1>2, Settles
<1>4. Stays(c, k)
  BY OpenStays DEF Underway, Resolving, Connecting, ShakingHands, Handshaking
<1> QED BY <1>3, <1>4 DEF Moves

\* Or fails it.
LEMMA MovesFail ==
  ASSUME IInv, Idle, NEW c \in Slots, Underway(slot[c]), NEW k \in Slot,
         NEW x \in {"dial", "peer"}, NEW then \in Answers, Failing(k, FailedFrame(c, x, then)),
         slot' = [slot EXCEPT ![c] = k], stack' = <<FailedFrame(c, x, then)>> \o stack, UNCHANGED deferred
  PROVE  Moves(c)
<1>1. ~InFailed(Frames(stack), c) /\ HandledOf(k, c, Frames(stack)) /\ SameQueue(deferred, deferred')
  BY IdleIs
<1>2. Same(c, k)
  <2>1. Status(k) = "failed" /\ Status(slot[c]) = "pending"
    BY StatusOf DEF Underway
  <2>2. ~Waiting(k)
    BY FailingIs DEF FailedFrame
  <2>3. ~Waiting(slot[c])
    BY Phasewise DEF Underway
  <2> QED BY <2>1, <2>2, <2>3 DEF Same, Advance
<1>3. Changes(c, k, stack)
  BY <1>1, <1>2, CallsFailed
<1>4. Stays(c, k)
  BY OpenStays DEF Underway, Resolving, Connecting, ShakingHands, Handshaking
<1> QED BY <1>3, <1>4 DEF Moves

\* emitFailed in these terms.
LEMMA EmitFailedIs ==
  ASSUME NEW c, NEW k, NEW x, NEW then, NEW below, EmitFailed(c, k, x, then, below)
  PROVE  slot' = [slot EXCEPT ![c] = Emitted(k, x)] /\ stack' = <<FailedFrame(c, x, then)>> \o below
BY DEF EmitFailed, Emitted, FailedFrame

\* on_connect_error in these terms.
LEMMA ConnectErrorIs ==
  ASSUME NEW c, NEW k, NEW then, ConnectError(c, k, then)
  PROVE  /\ slot' = [slot EXCEPT ![c] = Emitted([k EXCEPT !.pend = FALSE], "dial")]
         /\ stack' = <<FailedFrame(c, "dial", then)>> \o stack
<1> DEFINE a == [k EXCEPT !.pend = FALSE]
<1>1. EmitFailed(c, a, "dial", then, stack)
  BY DEF ConnectError
<1> HIDE DEF a
<1>2. slot' = [slot EXCEPT ![c] = Emitted(a, "dial")] /\ stack' = <<FailedFrame(c, "dial", then)>> \o stack
  BY ONLY <1>1, EmitFailedIs, Zenon
<1> QED BY <1>2 DEF a

\* The first of the addresses left for which a socket can be made, if any.
LEMMA TryNextMoves ==
  ASSUME IInv, Idle, NEW c \in Slots, Underway(slot[c]), NEW k \in Slot, Trying(k), TryNext(c, k), UNCHANGED deferred
  PROVE  Moves(c)
<1>1. PICK left \in 0 .. k.addrs :
        \/ left = 0 /\ ConnectError(c, DropResults(k), "fail")
        \/ left # 0 /\ slot' = [slot EXCEPT ![c] = [k EXCEPT !.addrs = left, !.sock = "semi"]] /\ UNCHANGED stack
  BY ONLY TryNext(c, k), Zenon DEF TryNext
<1>2. CASE left = 0
  <2> DEFINE m == Emitted([DropResults(k) EXCEPT !.pend = FALSE], "dial")
  <2>1. m \in Slot /\ Failing(m, FailedFrame(c, "dial", "fail"))
    BY TryFails
  <2>2. slot' = [slot EXCEPT ![c] = m] /\ stack' = <<FailedFrame(c, "dial", "fail")>> \o stack
    BY <1>1, <1>2, ConnectErrorIs, Zenon
  <2> HIDE DEF m
  <2> QED BY <2>1, <2>2, MovesFail DEF Answers
<1>3. CASE left # 0
  <2> DEFINE m == [k EXCEPT !.addrs = left, !.sock = "semi"]
  <2>1. left \in 1 .. k.addrs
    <3>1. k.addrs \in Nat
      BY SlotFields, ClientConnectAssumption
    <3> QED BY <1>3, <3>1
  <2>2. m \in Slot /\ Connecting(m)
    BY <2>1, TryConnects
  <2>3. slot' = [slot EXCEPT ![c] = m] /\ UNCHANGED stack
    BY <1>1, <1>3, Zenon
  <2> HIDE DEF m
  <2> QED BY <2>2, <2>3, MovesOn DEF Underway
<1> QED BY <1>2, <1>3

\* The resolver answers.
LEMMA ResolvedMoves ==
  ASSUME IInv, NEW c \in Slots, Resolved(c)
  PROVE  Moves(c)
<1> DEFINE s == slot[c]
           d == [s EXCEPT !.gai = FALSE]
<1>1. /\ Idle /\ s.gai /\ UNCHANGED <<deferred, client>>
      /\ IF d.req = "cancelled" THEN slot' = [slot EXCEPT ![c] = RequestFree(d)] /\ UNCHANGED stack
         ELSE \/ ConnectError(c, d, "fail")
              \/ \E n \in 1 .. MaxAddresses : TryNext(c, [d EXCEPT !.req = "connecting", !.addrs = n])
  BY ONLY Resolved(c), Zenon DEF Resolved
<1> HIDE DEF s, d
<1>2. s \in Slot /\ Steady(s) /\ ~InFailed(Frames(stack), c) /\ SameQueue(deferred, deferred')
      /\ \A k : HandledOf(k, c, Frames(stack))
  BY <1>1, IdleIs DEF s
<1>3. d.req = s.req
  BY ONLY <1>2 DEF Slot, d
<1>4. \/ s.req = "cancelled" /\ slot' = [slot EXCEPT ![c] = RequestFree(d)] /\ UNCHANGED stack
      \/ s.req # "cancelled" /\ ConnectError(c, d, "fail")
      \/ s.req # "cancelled" /\ \E n \in 1 .. MaxAddresses : TryNext(c, [d EXCEPT !.req = "connecting", !.addrs = n])
  BY ONLY <1>1, <1>3, Zenon
<1>5. CASE s.req = "cancelled" /\ slot' = [slot EXCEPT ![c] = RequestFree(d)] /\ UNCHANGED stack
  <2> DEFINE m == RequestFree(d)
  <2>1. Cancelled(s) \/ Over(s)
    BY <1>1, <1>2, <1>5 DEF Steady, Untouched, Waiting, Resolving, Connecting, ShakingHands, Framed
  <2>2. m \in Slot /\ m.told = s.told /\ m.state = s.state /\ (Cancelled(s) => Cancelled(m)) /\ (Over(s) => Over(m))
    BY <1>1, <1>2, <2>1, AnswerCancelled DEF d
  <2>3. slot' = [slot EXCEPT ![c] = m] /\ stack' = stack
    BY <1>5
  <2> HIDE DEF m
  <2>4. ~m.pend /\ m.sock = "none"
    BY <2>1, <2>2 DEF Cancelled, Over, Detached
  <2>5. Status(m) = Status(s)
    BY <2>1, <2>2, StatusOf
  <2>6. ~Waiting(m) /\ ~Waiting(s)
    BY <2>1, <2>2, Phasewise
  <2>7. Changes(c, m, stack)
    BY <1>2, <2>1, <2>2, <2>3, <2>5, <2>6, Settles DEF Same, Advance, Steady, s
  <2>8. Stays(c, m)
    BY <2>2, <2>4 DEF Stays, Shut, s
  <2> QED BY <2>7, <2>8 DEF Moves
<1>6. ASSUME s.req # "cancelled" PROVE Resolving(s)
  BY <1>1, <1>2, <1>6 DEF Steady, Untouched, Waiting, Connecting, ShakingHands, Framed, Cancelled, Over, Gone
<1>7. CASE s.req # "cancelled" /\ ConnectError(c, d, "fail")
  <2> DEFINE m == Emitted([d EXCEPT !.pend = FALSE], "dial")
  <2>1. Resolving(s) /\ 1 \in 1 .. MaxAddresses
    BY <1>6, <1>7, ClientConnectAssumption
  <2>2. d \in Slot /\ d.state = "live" /\ d.list = "dial" /\ d.sock = "none" /\ ~d.hd /\ d.req = "resolving" /\ ~d.gai
        /\ d.user = {"dial"} /\ d.frees = 0 /\ d.told = <<>> /\ d.handler = "dial"
    BY <1>2, <2>1, AnswerTries DEF d
  <2>3. m \in Slot /\ Failing(m, FailedFrame(c, "dial", "fail"))
    BY ONLY <2>2, RequestFails
  <2>4. slot' = [slot EXCEPT ![c] = m] /\ stack' = <<FailedFrame(c, "dial", "fail")>> \o stack
    BY <1>7, ConnectErrorIs, Zenon
  <2> HIDE DEF m
  <2> QED BY <1>1, <2>1, <2>3, <2>4, MovesFail DEF Answers, Underway, s
<1>8. CASE s.req # "cancelled" /\ \E n \in 1 .. MaxAddresses : TryNext(c, [d EXCEPT !.req = "connecting", !.addrs = n])
  <2>1. PICK n \in 1 .. MaxAddresses : TryNext(c, [d EXCEPT !.req = "connecting", !.addrs = n])
    BY <1>8
  <2> DEFINE m == [d EXCEPT !.req = "connecting", !.addrs = n]
  <2>2. Resolving(s)
    BY <1>6, <1>8
  <2>3. m \in Slot /\ Trying(m)
    BY <1>2, <2>2, AnswerTries DEF d
  <2>4. TryNext(c, m)
    BY <2>1
  <2> HIDE DEF m
  <2> QED BY <1>1, <2>2, <2>3, <2>4, TryNextMoves DEF Underway, s
<1> QED BY <1>4, <1>5, <1>7, <1>8

\* An attempt is connected or has failed.
LEMMA ReadyMoves ==
  ASSUME IInv, NEW c \in Slots, Ready(c)
  PROVE  Moves(c)
<1> DEFINE s == slot[c]
           e == [CloseConnecting(s) EXCEPT !.addrs = @ - 1]
           o == Opened(Rearmed(DropResults([s EXCEPT !.req = "handshaking"])))
<1>1. /\ Idle /\ s.sock = "semi" /\ UNCHANGED <<deferred, client>>
      /\ \/ TryNext(c, e)
         \/ slot' = [slot EXCEPT ![c] = o] /\ UNCHANGED stack
  BY ONLY Ready(c), Zenon DEF Ready
<1>2. s \in Slot /\ Connecting(s)
  <2>1. s \in Slot /\ Steady(s)
    BY <1>1, IdleIs
  <2> QED BY <1>1, <2>1 DEF Steady, Untouched, Waiting, Resolving, ShakingHands, Framed, Cancelled, Over, Detached, Handshaking
<1>3. e \in Slot /\ Trying(e)
  BY <1>2, NextTries
<1>4. o \in Slot /\ ShakingHands(o)
  BY <1>2, ConnectedShakes
<1> HIDE DEF e, o
<1>5. CASE TryNext(c, e)
  BY <1>1, <1>2, <1>3, <1>5, TryNextMoves DEF Underway
<1>6. CASE slot' = [slot EXCEPT ![c] = o] /\ UNCHANGED stack
  BY <1>1, <1>2, <1>4, <1>6, MovesOn DEF Underway
<1> QED BY <1>1, <1>5, <1>6

\* The timer fires.
LEMMA TimerMoves ==
  ASSUME IInv, NEW c \in Slots, Timer(c)
  PROVE  Moves(c)
<1> DEFINE s == slot[c]
           d == [s EXCEPT !.timer = "idle"]
           h == [d EXCEPT !.req = "done"]
<1>1. /\ Idle /\ s.timer = "armed" /\ UNCHANGED <<deferred, client>>
      /\ \/ d.req = "handshaking" /\ EmitFailed(c, h, d.sock, "close", stack)
         \/ d.req # "handshaking" /\ ConnectError(c, d, "timer")
  BY ONLY Timer(c), Zenon DEF Timer
<1> HIDE DEF s
<1>2. s \in Slot /\ Steady(s)
  BY <1>1, IdleIs DEF s
<1>3. Underway(s)
  BY <1>1, <1>2 DEF Steady, Underway, Untouched, Waiting, Framed, Cancelled, Over, Detached
<1>4. d \in Slot
  BY ONLY <1>2, SetTimer
<1>5. /\ d.state = s.state /\ d.req = s.req /\ d.gai = s.gai /\ d.sock = s.sock /\ d.list = s.list /\ d.pend = s.pend /\ d.hd = s.hd
      /\ d.user = s.user /\ d.frees = s.frees /\ d.told = s.told /\ d.handler = s.handler
  BY ONLY <1>2 DEF Slot
<1> HIDE DEF d
<1>6. CASE d.req = "handshaking" /\ EmitFailed(c, h, d.sock, "close", stack)
  <2>1. ShakingHands(s)
    BY <1>3, <1>5, <1>6 DEF Underway, Resolving, Connecting
  <2>2. h \in Slot
    BY ONLY <1>4, SetReq
  <2>3. /\ h.state = d.state /\ h.req = "done" /\ h.gai = d.gai /\ h.sock = d.sock /\ h.pend = d.pend /\ h.hd = d.hd
        /\ h.user = d.user /\ h.frees = d.frees /\ h.told = d.told /\ h.handler = d.handler
    BY ONLY <1>4 DEF Slot
  <2> DEFINE m == Emitted(h, h.sock)
  <2> HIDE DEF h
  <2>4. slot' = [slot EXCEPT ![c] = m] /\ stack' = <<FailedFrame(c, h.sock, "close")>> \o stack
    <3>1. EmitFailed(c, h, h.sock, "close", stack)
      BY ONLY <1>6, <2>3
    <3> QED BY ONLY <3>1 DEF EmitFailed, Emitted, FailedFrame
  <2>5. h.sock \in {"dial", "peer"} /\ Handshaking(h)
    BY <1>5, <2>1, <2>3 DEF ShakingHands, Handshaking
  <2>6. h.state = "live" /\ ~h.gai /\ ~h.pend /\ h.hd /\ h.user = {h.sock} /\ h.frees = 0 /\ h.told = <<>> /\ h.handler = h.sock
    BY <1>5, <2>1, <2>3 DEF ShakingHands
  <2>7. m \in Slot /\ Failing(m, FailedFrame(c, h.sock, "close"))
    BY ONLY <2>2, <2>3, <2>5, <2>6, HandshakeFails
  <2> HIDE DEF m
  <2> QED BY <1>1, <1>3, <2>4, <2>5, <2>7, MovesFail DEF Answers, s
<1>7. CASE d.req # "handshaking" /\ ConnectError(c, d, "timer")
  <2> DEFINE m == Emitted([d EXCEPT !.pend = FALSE], "dial")
  <2>1. Resolving(s) \/ Connecting(s)
    BY <1>3, <1>5, <1>7 DEF Underway, ShakingHands
  <2>2. /\ d.state = "live" /\ d.list = "dial" /\ d.sock \in {"none", "semi"} /\ ~d.hd
        /\ (d.req = "resolving" /\ d.gai) \/ (d.req = "connecting" /\ ~d.gai)
        /\ d.user = {"dial"} /\ d.frees = 0 /\ d.told = <<>> /\ d.handler = "dial"
    BY <1>5, <2>1 DEF Resolving, Connecting
  <2>3. m \in Slot /\ Failing(m, FailedFrame(c, "dial", "timer"))
    BY ONLY <1>4, <2>2, RequestTimesOut
  <2>4. slot' = [slot EXCEPT ![c] = m] /\ stack' = <<FailedFrame(c, "dial", "timer")>> \o stack
    BY ONLY <1>7, ConnectErrorIs, Zenon
  <2> HIDE DEF m
  <2> QED BY <1>1, <1>3, <2>3, <2>4, MovesFail DEF Answers, s
<1> QED BY <1>1, <1>6, <1>7

\* A handshake fails: the application is told before the socket is closed.
LEMMA HandshakeMovesFail ==
  ASSUME IInv, Idle, NEW c \in Slots, ShakingHands(slot[c]), UNCHANGED deferred,
         EmitFailed(c, slot[c], slot[c].sock, "close", stack)
  PROVE  Moves(c)
<1> DEFINE s == slot[c]
           m == Emitted(s, s.sock)
<1>1. s \in Slot
  BY IdleIs
<1>2. EmitFailed(c, s, s.sock, "close", stack)
  OBVIOUS
<1>3. s.sock \in {"dial", "peer"} /\ ShakingHands(s)
  BY DEF ShakingHands, Handshaking
<1> HIDE DEF s
<1>5. slot' = [slot EXCEPT ![c] = m] /\ stack' = <<FailedFrame(c, s.sock, "close")>> \o stack
  BY ONLY <1>2 DEF EmitFailed, Emitted, FailedFrame
<1>4. m \in Slot /\ Failing(m, FailedFrame(c, s.sock, "close"))
  <2>1. /\ s.state = "live" /\ s.req \in {"handshaking", "done"} /\ ~s.gai /\ Handshaking(s) /\ ~s.pend /\ s.hd
        /\ s.user = {s.sock} /\ s.frees = 0 /\ s.told = <<>> /\ s.handler = s.sock
    BY <1>3 DEF ShakingHands
  <2> QED BY ONLY <1>1, <2>1, HandshakeFails
<1> HIDE DEF m
<1> QED BY <1>3, <1>4, <1>5, MovesFail DEF Answers, Underway, s

\* A connect with the socket of a handshake shakes hands.
LEMMA HandshakingIs ==
  ASSUME IInv, Idle, NEW c \in Slots, Handshaking(slot[c])
  PROVE  slot[c] \in Slot /\ ShakingHands(slot[c])
BY IdleIs DEF Steady, Untouched, Waiting, Resolving, Connecting, Framed, Cancelled, Over, Detached, Handshaking

\* The answer to CONNECT arrives.
LEMMA ProxyDataMoves ==
  ASSUME IInv, NEW c \in Slots, ProxyData(c)
  PROVE  Moves(c)
<1> DEFINE s == slot[c]
           m == IF s.proxy = "tls" THEN ProxyStartTls(s) ELSE [s EXCEPT !.tunnel = FALSE]
<1>1. Idle /\ s.sock = "dial" /\ UNCHANGED deferred
  BY DEF ProxyData
<1>2. s \in Slot /\ ShakingHands(s)
  BY <1>1, HandshakingIs DEF Handshaking
<1>3. \/ EmitFailed(c, s, "dial", "close", stack)
      \/ slot' = [slot EXCEPT ![c] = m] /\ UNCHANGED stack
  <2>1. slot \in [Slots -> Slot]
    BY DEF IInv, Typed
  <2> QED BY ONLY <2>1, ProxyData(c), c \in Slots, Zenon DEF ProxyData
<1>4. m \in Slot /\ ShakingHands(m)
  BY <1>2, TunnelShakes
<1>5. CASE EmitFailed(c, s, "dial", "close", stack)
  BY <1>1, <1>2, <1>5, HandshakeMovesFail
<1> HIDE DEF m
<1>6. CASE slot' = [slot EXCEPT ![c] = m] /\ UNCHANGED stack
  BY <1>1, <1>2, <1>4, <1>6, MovesOn DEF Underway
<1> QED BY <1>3, <1>5, <1>6

\* The answer to the upgrade request arrives.
LEMMA UpgradeDataMoves ==
  ASSUME IInv, NEW c \in Slots, UpgradeData(c)
  PROVE  Moves(c)
<1> DEFINE s == slot[c]
           m == Tell([Release(s) EXCEPT !.sock = "frame", !.opened = "none", !.user = @ \ {s.sock}, !.frees = @ + 1], "open")
<1>1. Idle /\ Handshaking(s) /\ UNCHANGED deferred
  BY DEF UpgradeData
<1>2. s \in Slot /\ ShakingHands(s)
  BY <1>1, HandshakingIs
<1>3. \/ EmitFailed(c, s, s.sock, "close", stack)
      \/ slot' = [slot EXCEPT ![c] = m] /\ stack' = <<[fn |-> "open", slot |-> c]>> \o stack
  <2>1. EmitFailed(c, s, s.sock, "close", stack) \/ AdoptToFrame(c, s)
    BY DEF UpgradeData
  <2>2. Release(s) \in Slot
    BY <1>2, ReleaseTypes
  <2> HIDE DEF s
  <2>3. AdoptToFrame(c, s) => slot' = [slot EXCEPT ![c] = m] /\ stack' = <<[fn |-> "open", slot |-> c]>> \o stack
    BY ONLY <2>2 DEF AdoptToFrame
  <2> QED BY <2>1, <2>3
<1>4. m \in Slot /\ Framed(m) /\ ~m.ended
  BY <1>2, AdoptFrames
<1>5. CASE EmitFailed(c, s, s.sock, "close", stack)
  BY <1>1, <1>2, <1>5, HandshakeMovesFail
<1> HIDE DEF m
<1>6. CASE slot' = [slot EXCEPT ![c] = m] /\ stack' = <<[fn |-> "open", slot |-> c]>> \o stack
  <2>1. ~InFailed(Frames(stack), c) /\ HandledOf(m, c, Frames(stack)) /\ SameQueue(deferred, deferred')
    BY <1>1, IdleIs
  <2>2. Stays(c, m) /\ client = "open"
    BY <1>1, <1>2, OpenStays DEF ShakingHands, Handshaking
  <2>3. Same(c, m)
    <3>1. Status(m) = "open" /\ Status(s) = "pending"
      BY <1>2, <1>4, StatusOf
    <3>2. ~Waiting(m) /\ ~Waiting(s)
      BY <1>2, <1>4, Phasewise
    <3> QED BY <2>2, <3>1, <3>2 DEF Same, Advance
  <2>4. Steady(m) /\ m.state # "freed"
    BY <1>4 DEF Steady, Framed
  <2>5. Changes(c, m, stack)
    BY <1>4, <1>6, <2>1, <2>3, <2>4, CallsHandler DEF Handlers
  <2> QED BY <2>2, <2>5 DEF Moves
<1> QED BY <1>3, <1>5, <1>6

-----------------------------------------------------------------------------
(* Sockets that close, with the frames of B left on the stack.             *)

Closed(c, B) == \E k : Changes(c, k, B) /\ Stays(c, k) /\ ~k.pend /\ k.sock = "none"

\* No function of B runs a handler that the stack does not.
Within(B, c) == ~InFailed(Frames(B), c) /\ \A f \in Frames(B) : f.fn \in Handlers => f \in Frames(stack)

\* What is closed is shut.
LEMMA ClosedStays ==
  ASSUME NEW c, NEW k, ~k.pend, k.sock = "none", slot[c].state = "live"
  PROVE  Stays(c, k)
BY DEF Stays, Shut

\* The queue of a state may get a sweep.
LEMMA QueueSame ==
  ASSUME IInv
  PROVE  SameQueue(deferred, deferred) /\ \A k : SameQueue(deferred, ArmSweep(k))
<1>1. deferred \in Seq(Item) /\ Ordered(deferred)
  BY DEF IInv, Typed, Queues
<1> QED BY <1>1, ArmSweepSame DEF SameQueue

\* The socket of a frame context closes: close is called, unless end() has called it.
LEMMA FrameClosed ==
  ASSUME IInv, NEW c \in Slots, Framed(slot[c]), NEW B, Within(B, c), FrameCloses(c, B)
  PROVE  Closed(c, B)
<1> DEFINE s == slot[c]
           a == Done([s EXCEPT !.sock = "none"])
           b == Tell([s EXCEPT !.sock = "none"], "close")
<1>1. s \in Slot /\ Framed(s) /\ s.state = "live" /\ slot \in [Slots -> Slot]
  BY DEF IInv, Typed, Framed
<1>2. \/ s.ended /\ slot' = [slot EXCEPT ![c] = a] /\ deferred' = ArmSweep(s) /\ stack' = B
      \/ ~s.ended /\ slot' = [slot EXCEPT ![c] = b] /\ stack' = <<[fn |-> "close", slot |-> c]>> \o B /\ UNCHANGED deferred
  BY ONLY <1>1, c \in Slots, FrameCloses(c, B), Zenon DEF FrameCloses
<1>3. /\ s.ended => a \in Slot /\ Over(a) /\ a.state = "done" /\ a.told = <<"open", "close">>
      /\ ~s.ended => b \in Slot /\ Over(b) /\ b.state = "live" /\ b.told = <<"open", "close">>
  BY <1>1, FrameOver
<1>4. ASSUME NEW k, Over(k), k.told = <<"open", "close">> PROVE Same(c, k)
  <2>1. Status(k) = "closed" /\ Status(s) \in {"open", "closed"}
    BY <1>1, <1>4, StatusOf
  <2>2. ~Waiting(k) /\ ~Waiting(s)
    BY <1>1, <1>4, Phasewise
  <2> QED BY <2>1, <2>2 DEF Same, Advance
<1> HIDE DEF a, b
<1>5. CASE s.ended /\ slot' = [slot EXCEPT ![c] = a] /\ deferred' = ArmSweep(s) /\ stack' = B
  <2>1. HandledOf(a, c, Frames(B)) /\ Steady(a) /\ ~a.pend /\ a.sock = "none"
    BY <1>3, <1>5 DEF HandledOf, Steady, Over, Detached
  <2>2. Same(c, a) /\ SameQueue(deferred, deferred')
    BY <1>3, <1>4, <1>5, QueueSame
  <2>3. Changes(c, a, B)
    BY <1>3, <1>5, <2>1, <2>2, Settles DEF Within
  <2> QED BY <1>1, <2>1, <2>3, ClosedStays DEF Closed
<1>6. CASE ~s.ended /\ slot' = [slot EXCEPT ![c] = b] /\ stack' = <<[fn |-> "close", slot |-> c]>> \o B /\ UNCHANGED deferred
  <2>1. HandledOf(b, c, Frames(B)) /\ Steady(b) /\ ~b.pend /\ b.sock = "none"
    BY <1>3, <1>6 DEF HandledOf, Steady, Over, Detached
  <2>2. Same(c, b) /\ SameQueue(deferred, deferred')
    BY <1>3, <1>4, <1>6, QueueSame
  <2>3. Changes(c, b, B)
    BY <1>3, <1>6, <2>1, <2>2, CallsHandler DEF Within, Handlers
  <2> QED BY <1>1, <2>1, <2>3, ClosedStays DEF Closed
<1> QED BY <1>2, <1>5, <1>6

\* The socket of a handshake closes: the application is told that it has failed.
LEMMA HandshakeClosed ==
  ASSUME IInv, NEW c \in Slots, ShakingHands(slot[c]), NEW B, Within(B, c),
         Closes(c, slot[c], B), UNCHANGED deferred
  PROVE  Closed(c, B)
<1> DEFINE s == slot[c]
           r == [Release(s) EXCEPT !.sock = "none"]
           m == Emitted(r, s.sock)
           f == FailedFrame(c, s.sock, "closed")
<1>1. /\ s \in Slot /\ ShakingHands(s) /\ s.state = "live" /\ s.sock \in {"dial", "peer"} /\ s.sock \notin s.notified
      /\ Closes(c, s, B)
  BY DEF IInv, Typed, ShakingHands, Handshaking
<1> HIDE DEF s
<1>2. slot' = [slot EXCEPT ![c] = m] /\ stack' = <<f>> \o B
  BY ONLY <1>1 DEF Closes, EmitFailed, Emitted, FailedFrame
<1>3. m \in Slot /\ Failing(m, f)
  BY ONLY <1>1, HandshakeCloses
<1> HIDE DEF m
<1>4. ~m.pend /\ m.sock = "none" /\ m.state = "live"
  BY <1>3 DEF Failing, FailedFrame, Detached
<1>5. HandledOf(m, c, Frames(B))
  <2>1. HandledOf(s, c, Frames(stack)) /\ ~Over(s)
    BY <1>1, Phasewise DEF IInv, Handled, s
  <2>2. ASSUME NEW g \in Frames(B), g.fn \in Handlers, g.slot = c PROVE g.fn # "close"
    BY <2>1, <2>2 DEF Within, HandledOf
  <2> QED BY <1>4, <2>2 DEF HandledOf
<1>6. Same(c, m)
  <2>1. Status(m) = "failed" /\ Status(s) = "pending"
    BY <1>1, <1>3, StatusOf
  <2>2. ~Waiting(m)
    BY <1>3, FailingIs DEF FailedFrame, Answers
  <2>3. ~Waiting(s)
    BY <1>1, Phasewise
  <2> QED BY <2>1, <2>2, <2>3 DEF Same, Advance, s
<1>7. Changes(c, m, B)
  BY <1>1, <1>2, <1>3, <1>5, <1>6, QueueSame, CallsFailed DEF Within, Answers
<1> QED BY <1>1, <1>4, <1>7, ClosedStays DEF Closed, s

\* A connect with a frame context is open.
LEMMA FrameIs ==
  ASSUME IInv, NEW c \in Slots, slot[c].sock = "frame"
  PROVE  Framed(slot[c]) /\ Within(stack, c)
<1>1. PhaseOf(slot[c], c, Frames(stack)) /\ stack \in Seq(Frame)
  BY DEF IInv, Phases, Typed
<1>2. ~InFailed(Frames(stack), c)
  <2>1. ASSUME NEW f \in Frames(stack), f.fn = "failed", f.slot = c PROVE FALSE
    <3>1. f \in Frame
      BY <1>1 DEF Frames
    <3>2. f.then \in Answers
      BY <2>1, <3>1 DEF Frame, Answers
    <3>3. Failing(slot[c], f)
      BY <1>1, <2>1 DEF PhaseOf
    <3> QED BY <3>2, <3>3, FailingIs
  <2> QED BY <2>1 DEF InFailed
<1>3. Steady(slot[c])
  BY <1>1, <1>2 DEF PhaseOf
<1>4. Framed(slot[c])
  BY <1>3 DEF Steady, Untouched, Waiting, Resolving, Connecting, ShakingHands, Cancelled, Over, Detached, Handshaking
<1> QED BY <1>2, <1>4 DEF Within

\* The peer closes.
LEMMA PeerClosesMoves ==
  ASSUME IInv, NEW c \in Slots, PeerCloses(c)
  PROVE  Moves(c)
<1>1. Idle
  BY DEF PeerCloses
<1>2. CASE Handshaking(slot[c]) /\ Closes(c, slot[c], stack) /\ UNCHANGED deferred
  <2>1. Within(stack, c)
    BY <1>1, IdleIs DEF Within
  <2> QED BY <1>1, <1>2, <2>1, HandshakingIs, HandshakeClosed DEF Closed, Moves
<1>3. CASE slot[c].sock = "frame" /\ FrameCloses(c, stack)
  BY <1>3, FrameIs, FrameClosed DEF Closed, Moves
<1> QED BY <1>2, <1>3 DEF PeerCloses

-----------------------------------------------------------------------------
(* The application, and handlers that return.                              *)

\* close() of a WebSocket.
LEMMA CloseSocketMoves ==
  ASSUME IInv, NEW c \in Slots, CloseSocket(c)
  PROVE  Moves(c)
BY FrameIs, FrameClosed DEF CloseSocket, Closed, Moves

\* end() of a WebSocket.
LEMMA EndSocketMoves ==
  ASSUME IInv, NEW c \in Slots, EndSocket(c)
  PROVE  Moves(c)
<1> DEFINE s == slot[c]
           m == Tell([s EXCEPT !.ended = TRUE], "close")
<1>1. /\ s \in Slot /\ Framed(s) /\ ~s.ended /\ ~InFailed(Frames(stack), c)
      /\ slot' = [slot EXCEPT ![c] = m] /\ stack' = <<[fn |-> "ended", slot |-> c]>> \o stack /\ UNCHANGED deferred
  <2>1. s \in Slot /\ slot \in [Slots -> Slot]
    BY DEF IInv, Typed
  <2>2. s.sock = "frame" /\ ~s.ended /\ stack' = <<[fn |-> "ended", slot |-> c]>> \o stack /\ UNCHANGED deferred
    BY DEF EndSocket
  <2>3. slot' = [slot EXCEPT ![c] = m]
    BY ONLY <2>1, EndSocket(c), c \in Slots, Zenon DEF EndSocket
  <2> QED BY <2>1, <2>2, <2>3, FrameIs DEF Within
<1>2. m \in Slot /\ Framed(m) /\ m.ended
  BY <1>1, EndFrames
<1> HIDE DEF m
<1>3. HandledOf(m, c, Frames(stack))
  <2>1. HandledOf(s, c, Frames(stack)) /\ ~Over(s)
    BY <1>1, Phasewise DEF IInv, Handled
  <2> QED BY <1>2, <2>1 DEF HandledOf, Framed
<1>4. Same(c, m)
  <2>1. Status(m) = "closed" /\ Status(s) = "open"
    BY <1>1, <1>2, StatusOf
  <2>2. ~Waiting(m) /\ ~Waiting(s)
    BY <1>1, <1>2, Phasewise
  <2> QED BY <2>1, <2>2 DEF Same, Advance
<1>5. Steady(m) /\ m.state # "freed"
  BY <1>2 DEF Steady, Framed
<1>6. Changes(c, m, stack)
  BY <1>1, <1>2, <1>3, <1>4, <1>5, QueueSame, CallsHandler DEF Handlers
<1>7. Stays(c, m)
  BY <1>1 DEF Stays, Shut, Framed
<1> QED BY <1>6, <1>7 DEF Moves

\* A handler returns.
Returns(c) ==
  /\ \E k : Changes(c, k, Tail(stack)) /\ Stays(c, k)
  /\ stack # <<>> /\ Head(stack).fn \in Handlers \cup {"failed"} /\ Head(stack).slot = c

\* What follows failed, in the function that has called it.
LEMMA FailedReturnReturns ==
  ASSUME IInv, FailedReturn
  PROVE  \E c \in Slots : Returns(c)
<1> DEFINE f == Head(stack)
           c == f.slot
           s == slot[c]
           d == Done(UserFreed(s, f.ctx))
           m == CASE f.then = "fail"     -> ConnectFailed(d)
                  [] f.then = "timer"    -> TimedOut(d)
                  [] f.then = "close"    -> CloseAnswered(d)
                  [] f.then = "closed"   -> HandshakeGone(d)
                  [] f.then = "deferred" -> [d EXCEPT !.frees = @ + 1]
<1>1. stack # <<>> /\ f.fn = "failed" /\ stack' = Tail(stack) /\ deferred' = ArmSweep(s)
  BY DEF FailedReturn, Idle
<1>2. slot' = [slot EXCEPT ![c] = m]
  BY ONLY FailedReturn, Zenon DEF FailedReturn
<1>3. /\ stack \in Seq(Frame) /\ f \in Frame /\ Frames(stack) = {f} \cup Frames(Tail(stack))
      /\ ~InFailed(Frames(Tail(stack)), c)
  BY <1>1, Pop DEF IInv, Typed
<1>4. c \in Slots /\ f.then \in Answers
  BY <1>1, <1>3 DEF Frame, Answers
<1>5. s \in Slot /\ Failing(s, f)
  <2>1. PhaseOf(s, c, Frames(stack)) /\ s \in Slot
    BY <1>4 DEF IInv, Phases, Typed
  <2> QED BY <1>1, <1>3, <2>1 DEF PhaseOf
<1> HIDE DEF f, c, s
<1>6. m \in Slot /\ Over(m) /\ m.state = "done" /\ m.told = s.told
  BY ONLY <1>4, <1>5, FailedOver
<1> HIDE DEF m
<1>7. Steady(m) /\ HandledOf(m, c, Frames(Tail(stack))) /\ ~m.pend /\ m.sock = "none"
  BY <1>6 DEF Steady, HandledOf, Over, Detached
<1>8. s.state = "live" /\ s.told = <<"failed">> /\ ~Waiting(s)
  BY <1>4, <1>5, FailingIs
<1>9. Same(c, m)
  <2>1. Status(m) = "failed" /\ Status(s) = "failed"
    BY <1>5, <1>6, <1>8, StatusOf
  <2>2. ~Waiting(m)
    BY <1>6, Phasewise
  <2> QED BY <1>8, <2>1, <2>2 DEF Same, Advance, s
<1>10. SameQueue(deferred, deferred')
  BY <1>1, QueueSame
<1>11. Changes(c, m, Tail(stack))
  BY <1>1, <1>2, <1>3, <1>6, <1>7, <1>9, <1>10, Settles
<1>12. Stays(c, m)
  BY <1>7, <1>8, ClosedStays DEF s
<1> QED BY <1>1, <1>4, <1>11, <1>12 DEF Returns, c, f

\* open or close returns; after close the connect is retired.
LEMMA HandlerReturnReturns ==
  ASSUME IInv, HandlerReturn
  PROVE  \E c \in Slots : Returns(c)
<1> DEFINE f == Head(stack)
           c == f.slot
           s == slot[c]
           B == Tail(stack)
<1>1. stack # <<>> /\ f.fn \in Handlers /\ stack' = B
  BY DEF HandlerReturn, Idle, Handlers
<1>2. \/ f.fn = "close" /\ slot' = [slot EXCEPT ![c] = Done(s)] /\ deferred' = ArmSweep(s)
      \/ f.fn # "close" /\ UNCHANGED <<slot, deferred>>
  <2>1. f.fn \in Retires <=> f.fn = "close"
    BY DEF Retires
  <2> QED BY ONLY <2>1, HandlerReturn, Zenon DEF HandlerReturn
<1>3. stack \in Seq(Frame) /\ f \in Frame /\ B \in Seq(Frame) /\ Frames(stack) = {f} \cup Frames(B)
  BY <1>1, Pop DEF IInv, Typed
<1>4. c \in Slots
  BY <1>1, <1>3 DEF Frame, Handlers
<1>5. s \in Slot /\ slot \in [Slots -> Slot] /\ PhaseOf(s, c, Frames(stack)) /\ HandledOf(s, c, Frames(stack))
  BY <1>4 DEF IInv, Phases, Handled, Typed
<1>6. f.fn # "failed"
  BY <1>1 DEF Handlers
<1> HIDE DEF f, c, s, B
<1>7. s.state # "freed" /\ (f.fn = "close" => Over(s))
  BY <1>1, <1>3, <1>5 DEF HandledOf, c
<1>8. InFailed(Frames(stack), c) <=> InFailed(Frames(B), c)
  BY <1>3, <1>6 DEF InFailed
<1>9. CASE f.fn = "close" /\ slot' = [slot EXCEPT ![c] = Done(s)] /\ deferred' = ArmSweep(s)
  <2> DEFINE m == Done(s)
  <2>1. ~InFailed(Frames(B), c)
    <3>1. ASSUME NEW g \in Frames(stack), g.fn = "failed", g.slot = c PROVE FALSE
      <4>1. g \in Frame
        BY <1>3 DEF Frames
      <4>2. g.then \in Answers
        BY <3>1, <4>1 DEF Frame, Answers
      <4>3. Failing(s, g)
        BY <1>5, <3>1 DEF PhaseOf
      <4> QED BY <1>7, <1>9, <4>2, <4>3, FailingIs
    <3> QED BY <1>8, <3>1 DEF InFailed
  <2>2. m \in Slot /\ Over(m) /\ m.state # "freed" /\ m.told = s.told
    BY <1>5, <1>7, <1>9, DoneOver, RequestTypes
  <2>3. slot' = [slot EXCEPT ![c] = m]
    BY <1>9
  <2> HIDE DEF m
  <2>4. Steady(m) /\ HandledOf(m, c, Frames(B)) /\ ~m.pend /\ m.sock = "none"
    BY <2>2 DEF Steady, HandledOf, Over, Detached
  <2>5. Same(c, m)
    <3>1. Status(m) = Status(s)
      BY <1>7, <1>9, <2>2, StatusOf
    <3>2. ~Waiting(m) /\ ~Waiting(s)
      BY <1>7, <1>9, <2>2, Phasewise
    <3> QED BY <3>1, <3>2 DEF Same, Advance, s
  <2>6. SameQueue(deferred, deferred')
    BY <1>9, QueueSame
  <2>7. Changes(c, m, B)
    BY <1>1, <2>1, <2>2, <2>3, <2>4, <2>5, <2>6, Settles
  <2>8. Stays(c, m)
    BY <1>7, <1>9, <2>4 DEF Stays, Shut, Over, s
  <2> QED BY <1>1, <1>4, <2>7, <2>8 DEF Returns, c, f, B
<1>10. CASE f.fn # "close" /\ UNCHANGED <<slot, deferred>>
  <2>1. PhaseOf(s, c, Frames(B)) /\ HandledOf(s, c, Frames(B))
    BY <1>3, <1>5, <1>8 DEF PhaseOf, HandledOf
  <2>2. slot' = [slot EXCEPT ![c] = s] /\ SameQueue(deferred, deferred') /\ Same(c, s)
    BY <1>4, <1>5, <1>10, QueueSame DEF Same, Advance, s
  <2>3. Changes(c, s, B)
    BY <1>1, <1>5, <2>1, <2>2 DEF Changes, Calls, Same
  <2>4. Stays(c, s)
    BY <1>1, <1>8 DEF Stays, Shut, s
  <2> QED BY <1>1, <1>4, <2>3, <2>4 DEF Returns, c, f, B
<1> QED BY <1>2, <1>9, <1>10

\* An event or a call keeps the invariant.
LEMMA MovesKeepInv ==
  ASSUME IInv, NEW c \in Slots, Moves(c), UNCHANGED client
  PROVE  IInv'
<1>1. PICK k : Changes(c, k, stack) /\ Stays(c, k)
  BY DEF Moves
<1>2. stack \in Seq(Frame) /\ Nested(stack) /\ Others(Frames(stack), Frames(stack), c)
  BY DEF IInv, Typed, Others
<1> QED BY <1>1, <1>2, ChangeKeepsInv

\* And so does a handler that returns.
LEMMA ReturnsKeepInv ==
  ASSUME IInv, NEW c \in Slots, Returns(c), UNCHANGED client
  PROVE  IInv'
<1>1. PICK k : Changes(c, k, Tail(stack)) /\ Stays(c, k)
  BY DEF Returns
<1>2. stack # <<>> /\ Head(stack).fn \in Handlers \cup {"failed"} /\ Head(stack).slot = c
  BY DEF Returns
<1>3. Tail(stack) \in Seq(Frame) /\ Nested(Tail(stack)) /\ Frames(stack) = {Head(stack)} \cup Frames(Tail(stack))
  BY <1>2, Pop DEF IInv, Typed
<1>4. Others(Frames(stack), Frames(Tail(stack)), c)
  BY <1>2, <1>3 DEF Others
<1>5. \A f : f.fn = "closing" => (f \in Frames(stack) <=> f \in Frames(Tail(stack)))
  BY <1>2, <1>3 DEF Handlers
<1> QED BY <1>1, <1>3, <1>4, <1>5, ChangeKeepsInv

\* What a step does to the answers: at most one connect moves on.
Advanced ==
  \/ /\ \E c \in Slots : \E k : slot' = [slot EXCEPT ![c] = k] /\ Advance(Status(slot[c]), Status(k))
     /\ UNCHANGED client
  \/ /\ \A c \in Slots : Status(slot'[c]) = Status(slot[c])
     /\ client # "open" => client' # "open"

\* A slot that is not used has no frame that runs a handler of its connect.
LEMMA UnusedIs ==
  ASSUME IInv, NEW c \in Slots, slot[c].state = "unused"
  PROVE  /\ Untouched(slot[c]) /\ ~InFailed(Frames(stack), c)
         /\ \A k \in Slot : k.state = "live" => HandledOf(k, c, Frames(stack))
<1>1. PhaseOf(slot[c], c, Frames(stack)) /\ HandledOf(slot[c], c, Frames(stack)) /\ stack \in Seq(Frame)
  BY DEF IInv, Phases, Handled, Typed
<1>2. ~InFailed(Frames(stack), c)
  <2>1. ASSUME NEW f \in Frames(stack), f.fn = "failed", f.slot = c PROVE FALSE
    <3>1. f \in Frame
      BY <1>1 DEF Frames
    <3>2. f.then \in Answers
      BY <2>1, <3>1 DEF Frame, Answers
    <3>3. Failing(slot[c], f)
      BY <1>1, <2>1 DEF PhaseOf
    <3> QED BY <3>2, <3>3, FailingIs
  <2> QED BY <2>1 DEF InFailed
<1>3. Steady(slot[c])
  BY <1>1, <1>2 DEF PhaseOf
<1>4. Untouched(slot[c])
  BY <1>3 DEF Steady, Waiting, Resolving, Connecting, ShakingHands, Framed, Cancelled, Over
<1>5. ASSUME NEW k \in Slot, k.state = "live" PROVE HandledOf(k, c, Frames(stack))
  <2>1. ~Over(slot[c])
    BY DEF Over
  <2> QED BY <1>1, <1>5, <2>1 DEF HandledOf
<1> QED BY <1>2, <1>4, <1>5

\* A connect is started, or its failure is deferred.
LEMMA ConnectKeeps ==
  ASSUME IInv, NEW c \in Slots, Connect(c)
  PROVE  IInv' /\ Advanced
<1> DEFINE s == slot[c]
           F == Frames(stack)
<1>1. client = "open" /\ s.state = "unused" /\ UNCHANGED <<stack, client>>
  BY DEF Connect
<1>2. Untouched(s) /\ ~InFailed(F, c) /\ \A k \in Slot : k.state = "live" => HandledOf(k, c, F)
  BY <1>1, UnusedIs
<1>3. PICK proxy \in Proxies, deadline \in Deadlines :
        \/ slot' = [slot EXCEPT ![c] = Pending(NewSlot(proxy, deadline))] /\ UNCHANGED deferred
        \/ slot' = [slot EXCEPT ![c] = NewSlot(proxy, deadline)] /\ deferred' = Append(deferred, [do |-> "fail", slot |-> c])
  BY ONLY Connect(c), Zenon DEF Connect, Defer
<1>4. Status(s) = "unused" /\ ~Waiting(s)
  BY <1>2, StatusOf, Phasewise
<1>5. CASE slot' = [slot EXCEPT ![c] = Pending(NewSlot(proxy, deadline))] /\ UNCHANGED deferred
  <2> DEFINE m == Pending(NewSlot(proxy, deadline))
  <2>1. m \in Slot /\ Resolving(m) /\ m.state = "live"
    BY PendingIs DEF Resolving
  <2>2. slot' = [slot EXCEPT ![c] = m]
    BY <1>5
  <2> HIDE DEF m
  <2>3. Advance(Status(s), Status(m))
    BY <1>1, <1>4, <2>1, StatusOf DEF Advance
  <2>4. Same(c, m)
    BY <1>4, <2>1, <2>3, Phasewise DEF Same
  <2>5. Changes(c, m, stack)
    BY <1>1, <1>2, <1>5, <2>1, <2>2, <2>4, QueueSame, Settles DEF Steady
  <2>6. Stays(c, m)
    BY <1>1 DEF Stays
  <2>7. IInv'
    BY <1>1, <2>5, <2>6, MovesKeepInv DEF Moves
  <2> QED BY <1>1, <2>2, <2>3, <2>7 DEF Advanced
<1>6. CASE slot' = [slot EXCEPT ![c] = NewSlot(proxy, deadline)] /\ deferred' = Append(deferred, [do |-> "fail", slot |-> c])
  <2> DEFINE m == NewSlot(proxy, deadline)
             x == [do |-> "fail", slot |-> c]
  <2>1. m \in Slot /\ Waiting(m) /\ m.state = "live"
    BY NewSlotIs DEF Waiting
  <2>2. slot' = [slot EXCEPT ![c] = m] /\ deferred' = Append(deferred, x) /\ x \in Item /\ x.do = "fail" /\ x.slot = c
    BY <1>6 DEF Item
  <2> HIDE DEF m, x
  <2>3. Advance(Status(s), Status(m))
    BY <1>1, <1>4, <2>1, StatusOf DEF Advance
  <2>4. /\ slot \in [Slots -> Slot] /\ stack \in Seq(Frame) /\ deferred \in Seq(Item) /\ Nested(stack)
        /\ Phases(slot, F) /\ Handled(slot, F) /\ Closing(slot, F, client) /\ Queues(F, deferred, client)
        /\ Waits(slot, F, deferred)
    BY DEF IInv, Typed
  <2> HIDE DEF F
  <2>5. ~Queued(F, deferred, c)
    BY <1>4, <2>4 DEF Waits
  <2>6. ~Deletes(deferred) /\ Ordered(deferred)
    BY <1>1, <2>4 DEF Queues
  <2>7. /\ deferred' \in Seq(Item) /\ Ordered(deferred') /\ ~Deletes(deferred')
        /\ \A d : Fails(deferred', d) <=> Fails(deferred, d) \/ d = c
    <3>1. ~Fails(deferred, c)
      BY <2>5 DEF Queued
    <3> QED BY <2>2, <2>4, <2>6, <3>1, AppendItem
  <2>8. \A d \in Slots : slot'[d] = IF d = c THEN m ELSE slot[d]
    BY <2>2, <2>4
  <2>9. Phases(slot', F)
    BY <1>2, <2>1, <2>4, <2>8, Alone DEF Phases, Steady
  <2>10. Handled(slot', F)
    BY <1>2, <2>1, <2>4, <2>8 DEF Handled
  <2>11. Closing(slot', F, client)
    BY <1>1, <2>4 DEF Closing
  <2>12. Queues(F, deferred', client)
    BY <1>1, <2>4, <2>5, <2>7 DEF Queues, Queued
  <2>13. Waits(slot', F, deferred')
    BY <2>1, <2>4, <2>7, <2>8 DEF Waits, Queued
  <2>14. slot' \in [Slots -> Slot]
    BY <2>1, <2>2, <2>4
  <2>15. IInv'
    BY <1>1, <2>4, <2>7, <2>9, <2>10, <2>11, <2>12, <2>13, <2>14 DEF IInv, Typed, F
  <2> QED BY <1>1, <2>2, <2>3, <2>15 DEF Advanced
<1> QED BY <1>3, <1>5, <1>6

-----------------------------------------------------------------------------
(* close().                                                                *)

\* Frames of close() matter to nothing but Closing.
LEMMA ClosingFrames ==
  ASSUME NEW sl, NEW F, NEW G, NEW q, NEW cl, Phases(sl, F), Handled(sl, F), Queues(F, q, cl), Waits(sl, F, q),
         \A f \in F \cup G : (f \in F /\ f \in G) \/ f.fn = "closing"
  PROVE  /\ Phases(sl, G) /\ Handled(sl, G) /\ Queues(G, q, cl) /\ Waits(sl, G, q)
         /\ \A c : InFailed(F, c) <=> InFailed(G, c)
<1>1. \A f : f.fn # "closing" => (f \in F <=> f \in G)
  OBVIOUS
<1>2. \A c : InFailed(F, c) <=> InFailed(G, c)
  BY <1>1 DEF InFailed
<1>3. Phases(sl, G)
  BY <1>1, <1>2 DEF Phases, PhaseOf
<1>4. Handled(sl, G)
  BY <1>1 DEF Handled, HandledOf, Handlers
<1>5. Wakeups(F) = Wakeups(G)
  BY <1>1 DEF Wakeups
<1>6. Queues(G, q, cl) /\ Waits(sl, G, q)
  BY <1>5 DEF Queues, Waits, Queued
<1> QED BY <1>2, <1>3, <1>4, <1>6

\* A connect that is not in use, or freed, is shut.
LEMMA GoneShut ==
  ASSUME IInv, NEW c \in Slots, slot[c].state \in {"unused", "freed"}
  PROVE  Shut(slot[c], c, Frames(stack))
<1>1. PhaseOf(slot[c], c, Frames(stack))
  BY DEF IInv, Phases
<1> QED BY <1>1 DEF Shut, PhaseOf, Steady, Untouched, Waiting, Resolving, Connecting, ShakingHands, Framed, Cancelled, Over, Detached

\* close() begins.
LEMMA CloseClientKeeps ==
  ASSUME IInv, CloseClient
  PROVE  IInv' /\ Advanced
<1> DEFINE R == {c \in Slots : slot[c].state \in {"live", "done"}}
           f == [fn |-> "closing", rest |-> R]
           F == Frames(stack)
           G == Frames(stack')
<1>1. client \in {"open", "closing"} /\ client' = "closing" /\ stack' = <<f>> \o stack /\ UNCHANGED <<slot, deferred>>
  BY DEF CloseClient
<1>2. f \in Frame /\ f.fn = "closing" /\ f.rest = R
  BY DEF Frame
<1>3. /\ slot \in [Slots -> Slot] /\ stack \in Seq(Frame) /\ deferred \in Seq(Item) /\ Nested(stack)
      /\ Phases(slot, F) /\ Handled(slot, F) /\ Closing(slot, F, client) /\ Queues(F, deferred, client)
      /\ Waits(slot, F, deferred)
  BY DEF IInv, Typed
<1>4. \A c \in Slots \ R : Shut(slot[c], c, F)
  <2>1. ASSUME NEW c \in Slots \ R PROVE slot[c].state \in {"unused", "freed"}
    <3>1. slot[c] \in Slot
      BY <1>3
    <3> QED BY <3>1, SlotFields
  <2> QED BY <2>1, GoneShut
<1> HIDE DEF f, R
<1>5. stack' \in Seq(Frame) /\ G = {f} \cup F /\ Nested(stack')
  BY <1>1, <1>2, <1>3, PushFrames, PushNested
<1> HIDE DEF F, G
<1>6. Queues(F, deferred, client')
  BY <1>1, <1>3 DEF Queues
<1>7. \A g \in F \cup G : (g \in F /\ g \in G) \/ g.fn = "closing"
  BY <1>2, <1>5
<1>8. /\ Phases(slot, G) /\ Handled(slot, G) /\ Queues(G, deferred, client') /\ Waits(slot, G, deferred)
      /\ \A c : InFailed(F, c) <=> InFailed(G, c)
  BY ONLY <1>3, <1>6, <1>7, ClosingFrames
<1>9. Closing(slot, G, client')
  <2>1. \A c \in Slots : Shut(slot[c], c, F) => Shut(slot[c], c, G)
    BY <1>8 DEF Shut
  <2> QED BY <1>1, <1>2, <1>3, <1>4, <1>5, <2>1 DEF Closing
<1>10. IInv'
  BY <1>1, <1>3, <1>5, <1>8, <1>9 DEF IInv, Typed, G
<1> QED BY <1>1, <1>10 DEF Advanced

\* close() has closed the slots: the client is deleted later.
LEMMA CloseEnds ==
  ASSUME IInv, CloseNext, Head(stack).rest = {}
  PROVE  IInv' /\ Advanced
<1> DEFINE f == Head(stack)
           F == Frames(stack)
           G == Frames(stack')
           x == [do |-> "delete"]
<1>1. stack # <<>> /\ f.fn = "closing" /\ f.rest = {}
  BY DEF CloseNext, Idle
<1>2. client' = "closed" /\ deferred' = Append(deferred, x) /\ stack' = Tail(stack) /\ UNCHANGED slot
  BY <1>1 DEF CloseNext, Defer
<1>3. /\ slot \in [Slots -> Slot] /\ stack \in Seq(Frame) /\ deferred \in Seq(Item) /\ Nested(stack)
      /\ Phases(slot, F) /\ Handled(slot, F) /\ Closing(slot, F, client) /\ Queues(F, deferred, client)
      /\ Waits(slot, F, deferred)
  BY DEF IInv, Typed
<1>4. stack' \in Seq(Frame) /\ F = {f} \cup G /\ Nested(stack')
  BY <1>1, <1>2, <1>3, Pop
<1>5. x \in Item /\ x.do = "delete"
  BY DEF Item
<1> HIDE DEF f, F, G, x
<1>6. client # "open" /\ AllShut(slot, F)
  BY <1>1, <1>3, <1>4 DEF Closing, AllShut
<1>7. /\ deferred' \in Seq(Item) /\ Ordered(deferred')
      /\ \A c : Fails(deferred', c) <=> Fails(deferred, c)
  BY <1>2, <1>3, <1>5, AppendItem DEF Queues
<1>8. Queues(F, deferred', client') /\ Waits(slot, F, deferred')
  <2>1. Queues(F, deferred', client')
    BY <1>2, <1>3, <1>7 DEF Queues
  <2> QED BY <1>3, <1>7, <2>1 DEF Waits, Queued
<1>9. \A g \in F \cup G : (g \in F /\ g \in G) \/ g.fn = "closing"
  BY <1>1, <1>4
<1>10. /\ Phases(slot, G) /\ Handled(slot, G) /\ Queues(G, deferred', client') /\ Waits(slot, G, deferred')
       /\ \A c : InFailed(F, c) <=> InFailed(G, c)
  BY ONLY <1>3, <1>8, <1>9, ClosingFrames
<1>11. Closing(slot, G, client')
  <2>1. \A c \in Slots : Shut(slot[c], c, G)
    BY <1>6, <1>10 DEF Shut, AllShut
  <2> QED BY <1>2, <2>1 DEF Closing, AllShut
<1>12. IInv'
  BY <1>2, <1>3, <1>4, <1>7, <1>10, <1>11 DEF IInv, Typed, G
<1> QED BY <1>2, <1>12 DEF Advanced

\* What close() does to a connect that is neither shaking hands nor open.
LEMMA QuietCloses ==
  ASSUME IInv, NEW c \in Slots, client # "open", NEW B, Within(B, c), stack' = B, UNCHANGED deferred,
         NEW m, m = Cancel(slot[c]), slot' = [slot EXCEPT ![c] = CloseConnecting(m)],
         Steady(slot[c]), ~ShakingHands(slot[c]), ~Framed(slot[c])
  PROVE  \E k : Changes(c, k, B) /\ Stays(c, k) /\ ~k.pend /\ k.sock = "none"
<1> DEFINE s == slot[c]
<1>1. s \in Slot /\ HandledOf(s, c, Frames(stack)) /\ slot \in [Slots -> Slot]
  BY DEF IInv, Typed, Handled
<1>2. m \in Slot /\ (Resolving(s) \/ Connecting(s) => Cancelled(m)) /\ (~s.pend => m = s)
  BY <1>1, Cancels
<1>3. \/ Resolving(s) \/ Connecting(s)
      \/ (Untouched(s) \/ Waiting(s) \/ Cancelled(s) \/ Over(s)) /\ Detached(s)
  BY DEF Steady, Untouched, Waiting, Cancelled, Over
<1> HIDE DEF s
<1>4. /\ Steady(m) /\ ~m.pend /\ m.sock = "none" /\ (Waiting(m) <=> Waiting(s))
      /\ (m = s \/ (Underway(s) /\ Cancelled(m)))
  <2>1. CASE Resolving(s) \/ Connecting(s)
    BY <1>2, <2>1, Phasewise DEF Steady, Cancelled, Detached, Underway, Waiting, Resolving, Connecting
  <2>2. CASE (Untouched(s) \/ Waiting(s) \/ Cancelled(s) \/ Over(s)) /\ Detached(s)
    BY <1>2, <2>2 DEF Steady, Detached
  <2> QED BY <1>3, <2>1, <2>2
<1>5. CloseConnecting(m) = m
  BY <1>4 DEF CloseConnecting
<1>6. Advance(Status(s), Status(m))
  <2>1. CASE m = s
    BY <2>1 DEF Advance
  <2>2. CASE Underway(s) /\ Cancelled(m)
    <3>1. Status(s) = "pending" /\ Status(m) = "cancelled"
      BY <2>2, StatusOf DEF Underway
    <3> QED BY <3>1 DEF Advance
  <2> QED BY <1>4, <2>1, <2>2
<1>7. HandledOf(m, c, Frames(B))
  <2>1. CASE m = s
    BY <1>1, <2>1 DEF HandledOf, Within
  <2>2. CASE Underway(s) /\ Cancelled(m)
    <3>1. m.state # "freed"
      <4>1. s.state = "live"
        BY <2>2 DEF Underway, Resolving, Connecting, ShakingHands
      <4>2. m.state = s.state
        BY ONLY <1>1, m = Cancel(slot[c]) DEF Slot, Cancel, RequestFree, DropResults, UnlinkRequest, CloseConnecting, CloseTimer, s
      <4> QED BY <4>1, <4>2
    <3>2. ~Over(s)
      BY <2>2, Phasewise DEF Underway
    <3> QED BY <1>1, <3>1, <3>2 DEF HandledOf, Within
  <2> QED BY <1>4, <2>1, <2>2
<1>8. Changes(c, m, B)
  BY <1>2, <1>4, <1>5, <1>6, <1>7, QueueSame, Settles DEF Same, Within, s
<1>9. Stays(c, m)
  <2>1. s.state \in {"unused", "freed"} => m = s
    BY <1>4 DEF Underway, Resolving, Connecting, ShakingHands
  <2> QED BY <1>4, <2>1 DEF Stays, Shut, s
<1> QED BY <1>4, <1>8, <1>9

\* A frame of failed: what the invariant says of its connect.
LEMMA FailedFrames ==
  ASSUME IInv, NEW f \in Frames(stack), f.fn = "failed"
  PROVE  /\ f.slot \in Slots /\ f.then \in Answers /\ f.ctx \in {"none", "dial", "peer"}
         /\ slot[f.slot] \in Slot /\ Failing(slot[f.slot], f)
<1>1. f \in Frame
  BY DEF IInv, Typed, Frames
<1>2. f.slot \in Slots /\ f.then \in Answers /\ f.ctx \in {"none", "dial", "peer"}
  BY <1>1 DEF Frame, Answers
<1>3. slot[f.slot] \in Slot /\ PhaseOf(slot[f.slot], f.slot, Frames(stack))
  BY <1>2 DEF IInv, Phases, Typed
<1> QED BY <1>2, <1>3 DEF PhaseOf

\* close() meets a connect while its failed handler runs.
LEMMA FailingCloses ==
  ASSUME IInv, NEW c \in Slots, InFailed(Frames(stack), c), NEW B,
         \A f \in Frames(B) : f.fn \in Handlers \cup {"failed"} => f \in Frames(stack),
         InFailed(Frames(B), c), CloseContexts(c, Cancel(slot[c]), B)
  PROVE  \E k : Changes(c, k, B) /\ Stays(c, k) /\ stack' = B
<1> DEFINE s == slot[c]
           m == IF Handshaking(s) THEN HandshakeGone([Release(s) EXCEPT !.sock = "none"]) ELSE CloseConnecting(s)
<1>1. PICK f \in Frames(stack) : f.fn = "failed" /\ f.slot = c
  BY DEF InFailed
<1>2. s \in Slot /\ Failing(s, f) /\ f.then \in Answers /\ f.ctx \in {"none", "dial", "peer"}
  BY <1>1, FailedFrames
<1>3. s.sock # "frame" /\ s.state = "live" /\ s.told = <<"failed">> /\ ~s.pend /\ ~Waiting(s) /\ ~Over(s)
  BY <1>2, FailingIs
<1>4. Cancel(s) = s
  BY <1>3 DEF Cancel
<1>5. Handshaking(s) => s.sock \in s.notified
  BY <1>2, ClosesFailing
<1>6. slot' = [slot EXCEPT ![c] = m] /\ stack' = B /\ UNCHANGED deferred
  <2>1. CloseContexts(c, s, B)
    BY <1>4
  <2> HIDE DEF s
  <2>2. CASE Handshaking(s)
    BY ONLY <1>5, <2>1, <2>2 DEF CloseContexts, Closes
  <2>3. CASE ~Handshaking(s)
    BY ONLY <1>3, <2>1, <2>3 DEF CloseContexts
  <2> QED BY <2>2, <2>3
<1>7. \A g \in Frames(stack) : g.fn = "failed" /\ g.slot = c => m \in Slot /\ Failing(m, g)
  <2>1. ASSUME NEW g \in Frames(stack), g.fn = "failed", g.slot = c PROVE m \in Slot /\ Failing(m, g)
    <3>1. Failing(s, g) /\ g.then \in Answers /\ g.ctx \in {"none", "dial", "peer"}
      BY <2>1, FailedFrames
    <3> QED BY ONLY <1>2, <3>1, ClosesFailing
  <2> QED BY <2>1
<1>8. m \in Slot /\ Failing(m, f)
  BY <1>1, <1>7
<1> HIDE DEF s, m
<1>9. PhaseOf(m, c, Frames(B))
  BY <1>7 DEF PhaseOf
<1>10. m.state = "live" /\ ~Waiting(m)
  BY <1>2, <1>8, FailingIs
<1>11. HandledOf(m, c, Frames(B))
  <2>1. HandledOf(s, c, Frames(stack))
    BY DEF IInv, Handled, s
  <2> QED BY <1>3, <1>10, <2>1 DEF HandledOf, Handlers
<1>12. Same(c, m)
  <2>1. Status(m) = "failed" /\ Status(s) = "failed"
    BY <1>2, <1>8, StatusOf
  <2> QED BY <1>3, <1>10, <2>1 DEF Same, Advance, s
<1>13. Changes(c, m, B)
  BY <1>6, <1>8, <1>9, <1>11, <1>12, QueueSame DEF Changes, Calls, Same
<1>14. Stays(c, m)
  BY <1>3, <1>6 DEF Stays, Shut, s
<1> QED BY <1>6, <1>13, <1>14

\* close() closes a slot: afterwards it is shut.
LEMMA SlotCloses ==
  ASSUME IInv, client # "open", NEW c \in Slots, NEW B \in Seq(Frame),
         \A f : f.fn \in Handlers \cup {"failed"} => (f \in Frames(B) <=> f \in Frames(stack)),
         CloseContexts(c, Cancel(slot[c]), B)
  PROVE  \E k : Changes(c, k, B) /\ Stays(c, k) /\ ((InFailed(Frames(B), c) /\ stack' = B) \/ (~k.pend /\ k.sock = "none"))
<1> DEFINE s == slot[c]
<1>1. InFailed(Frames(B), c) <=> InFailed(Frames(stack), c)
  BY DEF InFailed
<1>2. CASE InFailed(Frames(stack), c)
  <2>1. \A f \in Frames(B) : f.fn \in Handlers \cup {"failed"} => f \in Frames(stack)
    OBVIOUS
  <2>2. InFailed(Frames(B), c)
    BY <1>1, <1>2
  <2>3. \E k : Changes(c, k, B) /\ Stays(c, k) /\ stack' = B
    BY <1>2, <2>1, <2>2, FailingCloses
  <2> QED BY ONLY <2>2, <2>3, Zenon
<1>3. CASE ~InFailed(Frames(stack), c)
  <2>1. s \in Slot /\ Steady(s)
    BY <1>3 DEF IInv, Typed, Phases, PhaseOf
  <2>2. Within(B, c)
    BY <1>1, <1>3 DEF Within
  <2>3. CASE ShakingHands(s)
    <3>1. Handshaking(s) /\ ~s.pend
      BY <2>3 DEF ShakingHands
    <3>2. Cancel(s) = s
      BY <3>1 DEF Cancel
    <3>3. Closes(c, s, B) /\ UNCHANGED deferred
      BY <3>1, <3>2 DEF CloseContexts
    <3> QED BY <2>2, <2>3, <3>3, HandshakeClosed DEF Closed
  <2>4. CASE Framed(s)
    <3>1. s.sock = "frame" /\ ~s.pend
      BY <2>4 DEF Framed
    <3>2. Cancel(s) = s
      BY <3>1 DEF Cancel
    <3>3. FrameCloses(c, B)
      BY <3>1, <3>2 DEF CloseContexts, Handshaking
    <3> QED BY <2>2, <2>4, <3>3, FrameClosed DEF Closed
  <2>5. CASE ~ShakingHands(s) /\ ~Framed(s)
    <3> DEFINE m == Cancel(s)
    <3>1. m.sock \notin {"dial", "peer", "frame"}
      <4>1. (Resolving(s) \/ Connecting(s) => Cancelled(m)) /\ (~s.pend => m = s)
        BY <2>1, Cancels
      <4>2. CASE Resolving(s) \/ Connecting(s)
        BY <4>1, <4>2 DEF Cancelled, Detached
      <4>3. CASE ~(Resolving(s) \/ Connecting(s))
        <5>1. Detached(s)
          BY <2>1, <2>5, <4>3 DEF Steady, Untouched, Waiting, Cancelled, Over
        <5> QED BY <4>1, <5>1 DEF Detached
      <4> QED BY <4>2, <4>3
    <3>2. slot' = [slot EXCEPT ![c] = CloseConnecting(m)] /\ stack' = B /\ UNCHANGED deferred
      BY <3>1 DEF CloseContexts, Handshaking
    <3> QED BY <2>1, <2>2, <2>5, <3>2, QuietCloses
  <2> QED BY <2>3, <2>4, <2>5
<1> QED BY <1>2, <1>3

\* close() closes the next slot.
LEMMA CloseStepKeeps ==
  ASSUME IInv, CloseNext, Head(stack).rest # {}
  PROVE  IInv' /\ Advanced
<1> DEFINE f == Head(stack)
           T == Tail(stack)
           F == Frames(stack)
           G == Frames(stack')
<1>1. PICK c \in f.rest : CloseContexts(c, Cancel(slot[c]), <<[fn |-> "closing", rest |-> f.rest \ {c}]>> \o T)
  BY DEF CloseNext
<1>2. stack # <<>> /\ f.fn = "closing" /\ UNCHANGED client
  BY DEF CloseNext, Idle
<1>3. /\ slot \in [Slots -> Slot] /\ stack \in Seq(Frame) /\ Nested(stack) /\ Closing(slot, F, client)
      /\ client \in {"open", "closing", "closed", "deleted"}
  BY DEF IInv, Typed
<1>4. f \in Frame /\ T \in Seq(Frame) /\ Nested(T) /\ F = {f} \cup Frames(T)
  BY <1>2, <1>3, Pop
<1>5. f.rest \subseteq Slots /\ c \in Slots
  BY <1>1, <1>2, <1>4 DEF Frame, Handlers
<1> DEFINE e == [fn |-> "closing", rest |-> f.rest \ {c}]
           B == <<e>> \o T
<1>6. e \in Frame /\ e.fn = "closing" /\ e.rest = f.rest \ {c}
  BY <1>5 DEF Frame
<1>7. CloseContexts(c, Cancel(slot[c]), B)
  BY <1>1
<1> HIDE DEF e
<1>8. B \in Seq(Frame) /\ Nested(B) /\ Frames(B) = {e} \cup Frames(T)
  BY <1>4, <1>6, PushFrames, PushNested
<1> HIDE DEF f, T, F, B
<1>9. client # "open" /\ \A d \in Slots \ f.rest : Shut(slot[d], d, F)
  BY <1>2, <1>3, <1>4 DEF Closing
<1>10. \A g : g.fn \in Handlers \cup {"failed"} => (g \in Frames(B) <=> g \in F)
  BY <1>2, <1>4, <1>6, <1>8 DEF Handlers
<1>11. PICK k : Changes(c, k, B) /\ Stays(c, k) /\ ((InFailed(Frames(B), c) /\ stack' = B) \/ (~k.pend /\ k.sock = "none"))
  BY <1>5, <1>7, <1>8, <1>9, <1>10, SlotCloses DEF F
<1>12. Others(F, Frames(B), c)
  BY <1>2, <1>4, <1>6, <1>8 DEF Others
<1>13. /\ slot' \in [Slots -> Slot] /\ stack' \in Seq(Frame) /\ deferred' \in Seq(Item)
       /\ Nested(stack') /\ Phases(slot', G) /\ Handled(slot', G)
       /\ Queues(G, deferred', client) /\ Waits(slot', G, deferred')
       /\ Others(F, G, c)
  BY <1>5, <1>8, <1>11, <1>12, ChangeKeeps DEF F
<1>14. \A g : g.fn = "closing" => (g \in G <=> g \in Frames(B))
  BY <1>5, <1>8, <1>11, <1>12, NewFrames DEF Changes, F
<1>15. Shut(k, c, G)
  BY <1>11 DEF Shut
<1>16. k \in Slot /\ slot' = [slot EXCEPT ![c] = k] /\ Advance(Status(slot[c]), Status(k))
  BY <1>11 DEF Changes
<1>17. ASSUME NEW d \in Slots, Shut(slot[d], d, F) PROVE Shut(slot'[d], d, G)
  <2>1. CASE d = c
    BY <1>3, <1>15, <1>16, <2>1
  <2>2. CASE d # c
    <3>1. slot'[d] = slot[d]
      BY <1>3, <1>16, <2>2
    <3>2. InFailed(F, d) => InFailed(G, d)
      BY <1>13, <2>2 DEF InFailed, Others, Handlers
    <3> QED BY <1>17, <3>1, <3>2 DEF Shut
  <2> QED BY <2>1, <2>2
<1>18. Closing(slot', G, client)
  <2>1. ASSUME NEW g \in G, g.fn = "closing", NEW d \in Slots \ g.rest PROVE Shut(slot'[d], d, G)
    <3>1. g = e \/ g \in F
      BY <1>4, <1>8, <1>14, <2>1
    <3>2. CASE g = e
      <4>1. d = c \/ d \in Slots \ f.rest
        BY <1>6, <2>1, <3>2
      <4> QED BY <1>3, <1>5, <1>9, <1>15, <1>16, <1>17, <4>1
    <3>3. CASE g \in F
      BY <1>3, <1>17, <2>1, <3>3 DEF Closing
    <3> QED BY <3>1, <3>2, <3>3
  <2>2. e \in G /\ e.fn = "closing"
    BY <1>6, <1>8, <1>14
  <2>3. ASSUME client \in {"closed", "deleted"} PROVE AllShut(slot', G)
    BY <1>3, <1>17, <2>3 DEF Closing, AllShut
  <2>4. ASSUME client = "deleted", NEW d \in Slots PROVE slot'[d].state \in {"unused", "freed"}
    <3>1. slot[d].state \in {"unused", "freed"} /\ slot[c].state \in {"unused", "freed"}
      BY <1>3, <1>5, <2>4 DEF Closing
    <3>2. k.state \in {"unused", "freed"}
      <4>1. Shut(slot[c], c, Frames(stack))
        BY <1>3, <1>5, <2>4 DEF Closing, AllShut, F
      <4> QED BY <1>11, <2>4, <3>1 DEF Stays
    <3> QED BY <1>3, <1>16, <3>1, <3>2
  <2> QED BY <1>9, <2>1, <2>2, <2>3, <2>4 DEF Closing
<1>19. IInv'
  BY <1>2, <1>3, <1>13, <1>18 DEF IInv, Typed, G
<1> QED BY <1>2, <1>5, <1>16, <1>19 DEF Advanced

-----------------------------------------------------------------------------
(* The defer queue.                                                        *)

Woken(q) == [fn |-> "wakeup", rest |-> q]

\* The loop calls wakeup with nothing below it.
LEMMA WokenIs ==
  ASSUME NEW q \in Seq(Item), NEW st, st = <<Woken(q)>>
  PROVE  st \in Seq(Frame) /\ Nested(st) /\ Frames(st) = {Woken(q)} /\ Woken(q).fn = "wakeup" /\ Woken(q).rest = q
<1> DEFINE w == Woken(q)
<1>1. w \in Frame /\ w.fn = "wakeup" /\ w.rest = q
  BY DEF Frame, Woken
<1> HIDE DEF w
<1>2. <<w>> \in Seq(Frame) /\ DOMAIN <<w>> = {1} /\ <<w>>[1] = w
  BY <1>1
<1>3. st = <<w>>
  BY DEF w
<1>4. Nested(st)
  BY <1>1, <1>2, <1>3 DEF Nested
<1>5. Frames(st) = {w}
  BY <1>2, <1>3 DEF Frames
<1> QED BY <1>1, <1>2, <1>3, <1>4, <1>5 DEF w

\* The queue has been run up to the items q: connects are steady, and wait if they fail in q or later.
LEMMA RunKeeps ==
  ASSUME IInv, NEW q \in Seq(Item), slot' \in [Slots -> Slot], stack' = <<Woken(q)>>, UNCHANGED deferred,
         client' \in {"open", "closed", "deleted"},
         Queues({Woken(q)}, deferred, client'),
         \A c \in Slots : Steady(slot'[c]) /\ (Waiting(slot'[c]) <=> Fails(q, c) \/ Fails(deferred, c)),
         client' # "open" => \A c \in Slots : ~slot'[c].pend /\ slot'[c].sock = "none",
         client' = "deleted" => \A c \in Slots : slot'[c].state \in {"unused", "freed"}
  PROVE  IInv'
<1> DEFINE w == Woken(q)
           G == Frames(stack')
<1>1. stack' \in Seq(Frame) /\ Nested(stack') /\ G = {w} /\ w.fn = "wakeup" /\ w.rest = q
  BY WokenIs
<1> HIDE DEF w, G
<1>2. \A c : ~InFailed(G, c)
  BY <1>1 DEF InFailed
<1>3. Phases(slot', G)
  BY <1>2 DEF Phases, PhaseOf, InFailed
<1>4. Handled(slot', G)
  BY <1>1 DEF Handled, HandledOf, Handlers
<1>5. Closing(slot', G, client')
  BY <1>1 DEF Closing, AllShut, Shut
<1>6. Wakeups(G) = {w}
  BY <1>1 DEF Wakeups
<1>7. Waits(slot', G, deferred')
  BY <1>1, <1>6 DEF Waits, Queued
<1>8. Queues(G, deferred', client')
  BY <1>1 DEF w
<1> QED BY <1>1, <1>3, <1>4, <1>5, <1>7, <1>8 DEF IInv, Typed, G

\* While the queue is run and no handler is called.
LEMMA WakeupIs ==
  ASSUME IInv, stack # <<>>, Head(stack).fn = "wakeup"
  PROVE  /\ Head(stack).rest \in Seq(Item) /\ Tail(stack) = <<>> /\ Head(stack) = Woken(Head(stack).rest)
         /\ Queues({Head(stack)}, deferred, client)
         /\ client \in {"open", "closed", "deleted"}
         /\ \A c \in Slots : /\ slot[c] \in Slot /\ Steady(slot[c])
                             /\ Waiting(slot[c]) <=> Fails(Head(stack).rest, c) \/ Fails(deferred, c)
                             /\ client # "open" => ~slot[c].pend /\ slot[c].sock = "none"
                             /\ client = "deleted" => slot[c].state \in {"unused", "freed"}
<1> DEFINE w == Head(stack)
           F == Frames(stack)
<1>1. /\ slot \in [Slots -> Slot] /\ stack \in Seq(Frame) /\ Nested(stack) /\ client \in {"open", "closing", "closed", "deleted"}
      /\ Phases(slot, F) /\ Closing(slot, F, client) /\ Queues(F, deferred, client) /\ Waits(slot, F, deferred)
  BY DEF IInv, Typed
<1>2. w \in Frame /\ F = {w} \cup Frames(Tail(stack)) /\ Tail(stack) = <<>>
  BY <1>1, Pop
<1>3. F = {w}
  <2>1. Frames(<<>>) = {}
    BY DEF Frames
  <2> QED BY <1>2, <2>1
<1> HIDE DEF w, F
<1>4. w.fn = "wakeup"
  BY DEF w
<1>5. w.rest \in Seq(Item) /\ w = Woken(w.rest)
  BY <1>2, <1>4 DEF Frame, Woken
<1>6. \A c : ~InFailed(F, c)
  BY <1>3, <1>4 DEF InFailed
<1>7. client # "closing" /\ (client # "open" => \A c \in Slots : ~slot[c].pend /\ slot[c].sock = "none")
  BY <1>1, <1>3, <1>4, <1>6 DEF Closing, AllShut, Shut
<1>8. \A c \in Slots : Steady(slot[c])
  BY <1>1, <1>6 DEF Phases, PhaseOf
<1>9. \A c \in Slots : Waiting(slot[c]) <=> Fails(w.rest, c) \/ Fails(deferred, c)
  <2>1. Wakeups(F) = {w}
    BY <1>3, <1>4 DEF Wakeups
  <2> QED BY <1>1, <2>1 DEF Waits, Queued
<1> QED BY <1>1, <1>2, <1>3, <1>5, <1>7, <1>8, <1>9 DEF Closing, w

\* The loop takes the queue.
LEMMA WakeupKeeps ==
  ASSUME IInv, Wakeup
  PROVE  IInv' /\ Advanced
<1>1. Idle /\ stack' = <<Woken(deferred)>> /\ deferred' = <<>> /\ UNCHANGED <<slot, client>>
  BY DEF Wakeup, Woken
<1> DEFINE w == Woken(deferred)
           F == Frames(stack)
           G == Frames(stack')
<1>2. /\ slot \in [Slots -> Slot] /\ deferred \in Seq(Item) /\ client \in {"open", "closing", "closed", "deleted"}
      /\ Closing(slot, F, client) /\ Queues(F, deferred, client) /\ Waits(slot, F, deferred)
  BY DEF IInv, Typed
<1>3. F = {} /\ \A c \in Slots : Steady(slot[c])
  <2>1. F = {}
    BY <1>1 DEF Idle, Frames
  <2> QED BY <1>1, <2>1, IdleIs
<1>4. stack' \in Seq(Frame) /\ Nested(stack') /\ G = {w} /\ w.fn = "wakeup" /\ w.rest = deferred
  BY <1>1, <1>2, WokenIs
<1> HIDE DEF w, F, G
<1>5. \A c : ~InFailed(G, c) /\ ~InFailed(F, c)
  BY <1>3, <1>4 DEF InFailed
<1>6. Phases(slot, G) /\ Handled(slot, G)
  BY <1>3, <1>4, <1>5 DEF Phases, PhaseOf, Handled, HandledOf, InFailed, Handlers
<1>7. Closing(slot, G, client)
  BY <1>2, <1>3, <1>4, <1>5 DEF Closing, AllShut, Shut
<1>8. Wakeups(F) = {} /\ Wakeups(G) = {w}
  BY <1>3, <1>4 DEF Wakeups
<1>9. /\ <<>> \in Seq(Item) /\ Ordered(<<>>) /\ ~Deletes(<<>>)
      /\ \A c : ~Fails(<<>>, c)
  BY DEF Ordered, Deletes, Fails
<1>10. Queues(G, deferred', client)
  BY <1>1, <1>2, <1>4, <1>8, <1>9 DEF Queues
<1>11. Waits(slot, G, deferred')
  BY <1>1, <1>2, <1>4, <1>8, <1>9 DEF Waits, Queued
<1>12. IInv'
  BY <1>1, <1>2, <1>4, <1>6, <1>7, <1>9, <1>10, <1>11 DEF IInv, Typed, G
<1> QED BY <1>1, <1>12 DEF Advanced

\* The queue has been run.
LEMMA RunEnds ==
  ASSUME IInv, RunDeferred, Head(stack).rest = <<>>
  PROVE  IInv' /\ Advanced
<1> DEFINE w == Head(stack)
           G == Frames(stack')
<1>1. stack # <<>> /\ w.fn = "wakeup" /\ w.rest = <<>> /\ stack' = <<>> /\ UNCHANGED <<slot, client, deferred>>
  BY DEF RunDeferred, Idle
<1>2. /\ client \in {"open", "closed", "deleted"} /\ Queues({w}, deferred, client)
      /\ \A c \in Slots : /\ Steady(slot[c]) /\ (Waiting(slot[c]) <=> Fails(w.rest, c) \/ Fails(deferred, c))
                          /\ client # "open" => ~slot[c].pend /\ slot[c].sock = "none"
                          /\ client = "deleted" => slot[c].state \in {"unused", "freed"}
  BY <1>1, WakeupIs
<1> HIDE DEF w
<1>3. <<>> \in Seq(Frame) /\ Nested(<<>>) /\ G = {} /\ \A c : ~Fails(<<>>, c)
  BY <1>1 DEF Nested, Frames, Fails
<1> HIDE DEF G
<1>4. Phases(slot, G) /\ Handled(slot, G) /\ Closing(slot, G, client)
  BY <1>2, <1>3 DEF Phases, PhaseOf, InFailed, Handled, HandledOf, Closing, AllShut, Shut
<1>5. Wakeups(G) = {}
  BY <1>3 DEF Wakeups
<1>6. Queues(G, deferred, client)
  BY <1>2, <1>5 DEF Queues
<1>7. Waits(slot, G, deferred)
  BY <1>1, <1>2, <1>3, <1>5 DEF Waits, Queued
<1>8. IInv'
  BY <1>1, <1>3, <1>4, <1>6, <1>7 DEF IInv, Typed, G
<1> QED BY <1>1, <1>8 DEF Advanced

\* The state of the queue when its first item has been taken.
LEMMA TakenQueues ==
  ASSUME NEW q \in Seq(Item), q # <<>>, NEW r, NEW cl, Queues({Woken(q)}, r, cl)
  PROVE  /\ Tail(q) \in Seq(Item) /\ Head(q) \in Item /\ Queues({Woken(Tail(q))}, r, cl)
         /\ \A c : Fails(q, c) <=> Fails(Tail(q), c) \/ (Head(q).do = "fail" /\ Head(q).slot = c)
         /\ Head(q).do = "fail" => ~Fails(Tail(q), Head(q).slot) /\ (Head(q).slot \in Slots => ~Fails(r, Head(q).slot))
         /\ Head(q).do = "delete" => cl \in {"closed", "deleted"} /\ \A c \in Slots : ~Fails(q, c) /\ ~Fails(r, c)
<1>1. \A p : Woken(p).fn = "wakeup" /\ Woken(p).rest = p
  BY DEF Woken
<1>2. Wakeups({Woken(q)}) = {Woken(q)} /\ Wakeups({Woken(Tail(q))}) = {Woken(Tail(q))}
  BY <1>1 DEF Wakeups
<1>3. /\ Ordered(r) /\ (Deletes(r) => cl \in {"closed", "deleted"})
      /\ Ordered(q) /\ (Deletes(q) => cl \in {"closed", "deleted"} /\ \A c \in Slots : ~Fails(r, c))
      /\ \A c \in Slots : ~(Fails(q, c) /\ Fails(r, c))
  BY <1>1, <1>2 DEF Queues
<1>4. /\ Head(q) \in Item /\ Tail(q) \in Seq(Item) /\ Ordered(Tail(q))
      /\ \A c : Fails(q, c) <=> Fails(Tail(q), c) \/ (Head(q).do = "fail" /\ Head(q).slot = c)
      /\ Deletes(q) <=> Deletes(Tail(q)) \/ Head(q).do = "delete"
      /\ Head(q).do = "fail" => ~Fails(Tail(q), Head(q).slot)
      /\ Head(q).do = "delete" => \A c : ~Fails(q, c)
  BY <1>3, TakeItem
<1>5. Queues({Woken(Tail(q))}, r, cl)
  BY <1>1, <1>2, <1>3, <1>4 DEF Queues
<1> QED BY <1>3, <1>4, <1>5

\* The slots that are done are dropped.
LEMMA SweepKeeps ==
  ASSUME IInv, RunDeferred, Head(stack).rest # <<>>, Head(Head(stack).rest).do = "sweep"
  PROVE  IInv' /\ Advanced
<1> DEFINE q == Head(stack).rest
           t == Tail(q)
<1>1. /\ stack # <<>> /\ Head(stack).fn = "wakeup" /\ q # <<>> /\ stack' = <<Woken(t)>> /\ UNCHANGED <<client, deferred>>
      /\ slot' = [c \in Slots |-> IF slot[c].state = "done" THEN FreeSlot(slot[c]) ELSE slot[c]]
  BY DEF RunDeferred, Idle, Sweep, Woken
<1>2. /\ q \in Seq(Item) /\ Queues({Woken(q)}, deferred, client) /\ client \in {"open", "closed", "deleted"}
      /\ \A c \in Slots : /\ slot[c] \in Slot /\ Steady(slot[c])
                          /\ Waiting(slot[c]) <=> Fails(q, c) \/ Fails(deferred, c)
                          /\ client # "open" => ~slot[c].pend /\ slot[c].sock = "none"
                          /\ client = "deleted" => slot[c].state \in {"unused", "freed"}
  BY <1>1, WakeupIs
<1>3. Head(q).do = "sweep"
  OBVIOUS
<1> HIDE DEF q
<1>4. t \in Seq(Item) /\ Queues({Woken(t)}, deferred, client) /\ \A c : Fails(q, c) <=> Fails(t, c)
  BY <1>1, <1>2, <1>3, TakenQueues
<1> HIDE DEF t
<1>5. ASSUME NEW c \in Slots
      PROVE  /\ slot'[c] \in Slot /\ Steady(slot'[c]) /\ (Waiting(slot'[c]) <=> Waiting(slot[c]))
             /\ Status(slot'[c]) = Status(slot[c])
             /\ slot'[c] = slot[c] \/ (slot[c].state = "done" /\ ~slot'[c].pend /\ slot'[c].sock = "none")
  <2>1. CASE slot[c].state = "done"
    <3> DEFINE m == FreeSlot(slot[c])
    <3>1. slot'[c] = m
      BY <1>1, <2>1
    <3>2. Over(slot[c])
      BY <1>2, <2>1 DEF Steady, Untouched, Waiting, Resolving, Connecting, ShakingHands, Framed, Cancelled
    <3>3. m \in Slot /\ m.told = slot[c].told /\ ~m.pend /\ m.sock = "none" /\ Over(m)
      BY <1>2, <3>2, FreedSlot
    <3> HIDE DEF m
    <3>4. Status(m) = Status(slot[c])
      BY <3>2, <3>3, StatusOf
    <3> QED BY <2>1, <3>1, <3>2, <3>3, <3>4, Phasewise DEF Steady
  <2>2. CASE slot[c].state # "done"
    BY <1>1, <1>2, <2>2
  <2> QED BY <2>1, <2>2
<1>6. slot' \in [Slots -> Slot]
  BY <1>1, <1>5
<1>7. IInv'
  <2>1. \A c \in Slots : Steady(slot'[c]) /\ (Waiting(slot'[c]) <=> Fails(t, c) \/ Fails(deferred, c))
    BY <1>2, <1>4, <1>5
  <2>2. client # "open" => \A c \in Slots : ~slot'[c].pend /\ slot'[c].sock = "none"
    BY <1>2, <1>5
  <2>3. client = "deleted" => \A c \in Slots : slot'[c].state \in {"unused", "freed"}
    BY <1>2, <1>5
  <2> QED BY <1>1, <1>2, <1>4, <1>6, <2>1, <2>2, <2>3, RunKeeps
<1> QED BY <1>1, <1>5, <1>7 DEF Advanced

\* The client is deleted with its slots.
LEMMA DeleteKeeps ==
  ASSUME IInv, RunDeferred, Head(stack).rest # <<>>, Head(Head(stack).rest).do = "delete"
  PROVE  IInv' /\ Advanced
<1> DEFINE q == Head(stack).rest
           t == Tail(q)
<1>1. /\ stack # <<>> /\ Head(stack).fn = "wakeup" /\ q # <<>> /\ stack' = <<Woken(t)>> /\ client' = "deleted" /\ UNCHANGED deferred
      /\ slot' = [c \in Slots |-> IF slot[c].state \in {"live", "done"} THEN FreeSlot(slot[c]) ELSE slot[c]]
  BY DEF RunDeferred, Idle, Delete, Woken
<1>2. /\ q \in Seq(Item) /\ Queues({Woken(q)}, deferred, client) /\ client \in {"open", "closed", "deleted"}
      /\ \A c \in Slots : /\ slot[c] \in Slot /\ Steady(slot[c])
                          /\ Waiting(slot[c]) <=> Fails(q, c) \/ Fails(deferred, c)
                          /\ client # "open" => ~slot[c].pend /\ slot[c].sock = "none"
  BY <1>1, WakeupIs
<1>3. Head(q).do = "delete"
  OBVIOUS
<1> HIDE DEF q
<1>4. /\ t \in Seq(Item) /\ Queues({Woken(t)}, deferred, client) /\ \A c : Fails(q, c) <=> Fails(t, c)
      /\ client \in {"closed", "deleted"} /\ \A c \in Slots : ~Fails(q, c) /\ ~Fails(deferred, c)
  BY <1>1, <1>2, <1>3, TakenQueues
<1> HIDE DEF t
<1>5. Queues({Woken(t)}, deferred, client')
  BY <1>1, <1>4 DEF Queues
<1>6. ASSUME NEW c \in Slots
      PROVE  /\ slot'[c] \in Slot /\ Steady(slot'[c]) /\ ~Waiting(slot'[c])
             /\ Status(slot'[c]) = Status(slot[c])
             /\ slot'[c].state \in {"unused", "freed"} /\ ~slot'[c].pend /\ slot'[c].sock = "none"
  <2>1. ~Waiting(slot[c]) /\ ~slot[c].pend /\ slot[c].sock = "none"
    BY <1>2, <1>4
  <2>2. Untouched(slot[c]) \/ Cancelled(slot[c]) \/ Over(slot[c])
    BY <1>2, <2>1 DEF Steady, Resolving, Connecting, ShakingHands, Framed, Handshaking
  <2>3. CASE slot[c].state \in {"live", "done"}
    <3> DEFINE m == FreeSlot(slot[c])
    <3>1. slot'[c] = m
      BY <1>1, <2>3
    <3>2. Over(slot[c]) \/ (Cancelled(slot[c]) /\ slot[c].state = "live")
      BY <2>2, <2>3 DEF Untouched, Cancelled
    <3>3. /\ m \in Slot /\ m.state = "freed" /\ m.told = slot[c].told /\ ~m.pend /\ m.sock = "none"
          /\ (Over(slot[c]) /\ Over(m)) \/ (Cancelled(slot[c]) /\ Cancelled(m))
      BY <1>2, <3>2, FreedSlot
    <3> HIDE DEF m
    <3>4. Status(m) = Status(slot[c])
      BY <3>3, StatusOf
    <3> QED BY <3>1, <3>3, <3>4, Phasewise DEF Steady
  <2>4. CASE slot[c].state \notin {"live", "done"}
    <3>1. slot'[c] = slot[c] /\ slot[c].state \in {"unused", "freed"}
      BY <1>1, <1>2, <2>4, SlotFields
    <3> QED BY <1>2, <2>1, <3>1
  <2> QED BY <2>3, <2>4
<1>7. slot' \in [Slots -> Slot]
  BY <1>1, <1>6
<1>8. IInv'
  <2>1. \A c \in Slots : Steady(slot'[c]) /\ (Waiting(slot'[c]) <=> Fails(t, c) \/ Fails(deferred, c))
    BY <1>4, <1>6
  <2> QED BY <1>1, <1>4, <1>5, <1>6, <1>7, <2>1, RunKeeps
<1> QED BY <1>1, <1>6, <1>8 DEF Advanced

\* A connect that could not be started is told so.
LEMMA WaitingFails ==
  ASSUME NEW k \in Slot, Waiting(k), NEW c, NEW m, m = Tell(k, "failed")
  PROVE  m \in Slot /\ Failing(m, FailedFrame(c, "none", "deferred"))
<1>1. m \in Slot
  BY HandlerTypes
<1>2. SameRest(k, m) /\ m.sock = k.sock /\ m.told = Append(k.told, "failed")
  BY ONLY k \in Slot, m = Tell(k, "failed") DEF Slot, Tell, SameRest
<1>3. m.told = <<"failed">>
  BY <1>2 DEF Waiting
<1> QED BY <1>1, <1>2, <1>3 DEF SameRest, Waiting, Failing, FailedFrame, Detached

\* The failure that was deferred is told.
LEMMA FailKeeps ==
  ASSUME IInv, RunDeferred, Head(stack).rest # <<>>, Head(Head(stack).rest).do = "fail"
  PROVE  IInv' /\ Advanced
<1> DEFINE q == Head(stack).rest
           t == Tail(q)
           c == Head(q).slot
           s == slot[c]
           m == Tell(s, "failed")
           f == FailedFrame(c, "none", "deferred")
           G == Frames(stack')
<1>1. /\ stack # <<>> /\ Head(stack).fn = "wakeup" /\ q # <<>> /\ UNCHANGED <<client, deferred>>
      /\ client # "deleted" => slot' = [slot EXCEPT ![c] = Tell(@, "failed")] /\ stack' = <<f>> \o <<Woken(t)>>
  BY DEF RunDeferred, Idle, Woken, FailedFrame
<1>2. /\ q \in Seq(Item) /\ Queues({Woken(q)}, deferred, client) /\ client \in {"open", "closed", "deleted"}
      /\ \A d \in Slots : /\ slot[d] \in Slot /\ Steady(slot[d])
                          /\ Waiting(slot[d]) <=> Fails(q, d) \/ Fails(deferred, d)
                          /\ client # "open" => ~slot[d].pend /\ slot[d].sock = "none"
                          /\ client = "deleted" => slot[d].state \in {"unused", "freed"}
  BY <1>1, WakeupIs
<1>3. Head(q).do = "fail"
  OBVIOUS
<1> HIDE DEF q
<1>4. /\ t \in Seq(Item) /\ Head(q) \in Item /\ Queues({Woken(t)}, deferred, client)
      /\ \A d : Fails(q, d) <=> Fails(t, d) \/ d = c
      /\ ~Fails(t, c) /\ (c \in Slots => ~Fails(deferred, c))
  <2>1. /\ t \in Seq(Item) /\ Head(q) \in Item /\ Queues({Woken(t)}, deferred, client)
        /\ \A d : Fails(q, d) <=> Fails(t, d) \/ (Head(q).do = "fail" /\ c = d)
        /\ Head(q).do = "fail" => ~Fails(t, c) /\ (c \in Slots => ~Fails(deferred, c))
    BY <1>1, <1>2, TakenQueues
  <2> QED BY ONLY <1>3, <2>1
<1>5. c \in Slots
  BY <1>3, <1>4 DEF Item
<1> HIDE DEF t, c
<1>6. s \in Slot /\ Waiting(s)
  BY <1>2, <1>4, <1>5
<1>7. client # "deleted"
  <2>1. s.state = "live"
    BY <1>6 DEF Waiting
  <2> QED BY <1>2, <1>5, <2>1
<1>8. slot \in [Slots -> Slot]
  BY DEF IInv, Typed
<1>9. slot' = [slot EXCEPT ![c] = m] /\ stack' = <<f>> \o <<Woken(t)>>
  BY <1>1, <1>5, <1>7, <1>8
<1>10. m \in Slot /\ Failing(m, f)
  BY <1>6, WaitingFails
<1>11. f \in Frame /\ f.fn = "failed" /\ f.slot = c /\ f.then \in Answers
  BY <1>5 DEF Frame, FailedFrame, Answers
<1> HIDE DEF m, s, f
<1>12. /\ <<Woken(t)>> \in Seq(Frame) /\ Nested(<<Woken(t)>>) /\ Frames(<<Woken(t)>>) = {Woken(t)}
       /\ Woken(t).fn = "wakeup" /\ Woken(t).rest = t
  BY <1>4, WokenIs
<1> DEFINE w == Woken(t)
           B == <<w>>
<1>13. stack' \in Seq(Frame) /\ G = {f, w} /\ Nested(stack')
  <2>1. ~InFailed(Frames(B), c)
    BY <1>12 DEF InFailed
  <2>2. <<f>> \o B \in Seq(Frame) /\ Frames(<<f>> \o B) = {f} \cup Frames(B)
    BY <1>11, <1>12, PushFrames
  <2>3. Nested(<<f>> \o B)
    BY <1>11, <1>12, <2>1, PushNested
  <2> QED BY <1>9, <1>12, <2>2, <2>3
<1>14. w.fn = "wakeup" /\ w.rest = t /\ Queues({w}, deferred, client)
  BY <1>4, <1>12
<1> HIDE DEF w, G
<1>15. \A d \in Slots : slot'[d] = IF d = c THEN m ELSE slot[d]
  BY <1>8, <1>9
<1>16. slot' \in [Slots -> Slot]
  BY <1>8, <1>9, <1>10
<1>17. Phases(slot', G)
  <2>1. ASSUME NEW d \in Slots PROVE PhaseOf(slot'[d], d, G)
    BY <1>2, <1>10, <1>11, <1>13, <1>14, <1>15, <2>1 DEF PhaseOf, InFailed
  <2> QED BY <2>1 DEF Phases
<1>18. Handled(slot', G)
  BY <1>11, <1>13, <1>14 DEF Handled, HandledOf, Handlers
<1>19. ~m.pend /\ m.sock = "none" /\ ~Waiting(m)
  <2>1. f.then = "deferred"
    BY DEF f, FailedFrame
  <2> QED BY <1>10, <1>11, <2>1, FailingIs DEF Failing, Detached
<1>20. Closing(slot', G, client)
  BY <1>2, <1>7, <1>11, <1>13, <1>14, <1>15, <1>19 DEF Closing, AllShut, Shut
<1>21. Wakeups(G) = {w} /\ Wakeups({w}) = {w}
  BY <1>11, <1>13, <1>14 DEF Wakeups
<1>22. Queues(G, deferred, client)
  BY <1>14, <1>21 DEF Queues
<1>23. Waits(slot', G, deferred)
  BY <1>2, <1>4, <1>5, <1>14, <1>15, <1>19, <1>21 DEF Waits, Queued
<1>24. deferred \in Seq(Item)
  BY DEF IInv, Typed
<1>25. IInv'
  BY <1>1, <1>2, <1>13, <1>16, <1>17, <1>18, <1>20, <1>22, <1>23, <1>24 DEF IInv, Typed, G
<1>26. Advance(Status(s), Status(m))
  <2>1. Status(s) = "pending" /\ Status(m) = "failed"
    BY <1>6, <1>10, StatusOf
  <2> QED BY <2>1 DEF Advance
<1> QED BY <1>1, <1>5, <1>9, <1>25, <1>26 DEF Advanced, s

\* The queue.
LEMMA RunDeferredKeeps ==
  ASSUME IInv, RunDeferred
  PROVE  IInv' /\ Advanced
<1> DEFINE q == Head(stack).rest
<1>1. CASE q = <<>>
  BY <1>1, RunEnds
<1>2. CASE q # <<>>
  <2>1. Head(stack).fn = "wakeup" /\ stack # <<>>
    BY DEF RunDeferred, Idle
  <2>2. q \in Seq(Item)
    BY <2>1, WakeupIs
  <2>3. Head(q) \in Item
    BY <1>2, <2>2
  <2>4. Head(q).do \in {"sweep", "delete", "fail"}
    BY <2>3 DEF Item
  <2> QED BY <1>2, <2>4, SweepKeeps, DeleteKeeps, FailKeeps
<1> QED BY <1>1, <1>2

-----------------------------------------------------------------------------
(* The theorems.                                                           *)

\* At first nothing has happened.
LEMMA InitInv == Init => IInv
<1> SUFFICES ASSUME Init PROVE IInv
  OBVIOUS
<1>1. stack = <<>> /\ deferred = <<>> /\ client = "open" /\ \A c \in Slots : slot[c] = Unused
  BY DEF Init
<1>2. Unused \in Slot /\ Untouched(Unused)
  <2>1. MaxAddresses \in Nat
    BY ClientConnectAssumption
  <2> QED BY <2>1 DEF Unused, Slot, Untouched, Detached
<1>3. Typed
  BY <1>1, <1>2 DEF Init, Typed
<1>4. Frames(stack) = {} /\ Nested(stack)
  BY <1>1 DEF Frames, Nested
<1>5. Phases(slot, Frames(stack)) /\ Handled(slot, Frames(stack)) /\ Closing(slot, Frames(stack), client)
  BY <1>1, <1>2, <1>4 DEF Phases, PhaseOf, InFailed, Steady, Handled, HandledOf, Closing
<1>6. Wakeups(Frames(stack)) = {}
  BY <1>4 DEF Wakeups
<1>7. Queues(Frames(stack), deferred, client)
  BY <1>1, <1>6 DEF Queues, Ordered, Deletes
<1>8. Waits(slot, Frames(stack), deferred)
  BY <1>1, <1>2, <1>6 DEF Waits, Queued, Fails, Waiting, Untouched
<1> QED BY <1>3, <1>4, <1>5, <1>7, <1>8 DEF IInv

\* Each step keeps the invariant, and advances at most one connect.
LEMMA StepKeeps ==
  ASSUME IInv, Next
  PROVE  IInv' /\ Advanced
<1>1. ASSUME NEW c \in Slots, Moves(c), UNCHANGED client PROVE IInv' /\ Advanced
  <2>1. PICK k : Changes(c, k, stack)
    BY <1>1 DEF Moves
  <2> QED BY <1>1, <2>1, MovesKeepInv DEF Changes, Advanced
<1>2. ASSUME NEW c \in Slots, Returns(c), UNCHANGED client PROVE IInv' /\ Advanced
  <2>1. PICK k : Changes(c, k, Tail(stack))
    BY <1>2 DEF Returns
  <2> QED BY <1>2, <2>1, ReturnsKeepInv DEF Changes, Advanced
<1>3. CASE FailedReturn
  <2>1. UNCHANGED client
    BY <1>3 DEF FailedReturn
  <2> QED BY <1>2, <1>3, <2>1, FailedReturnReturns
<1>4. CASE HandlerReturn
  <2>1. UNCHANGED client
    BY <1>4 DEF HandlerReturn
  <2> QED BY <1>2, <1>4, <2>1, HandlerReturnReturns
<1>5. CASE CloseNext
  BY <1>5, CloseEnds, CloseStepKeeps
<1>6. CASE Wakeup
  BY <1>6, WakeupKeeps
<1>7. CASE RunDeferred
  BY <1>7, RunDeferredKeeps
<1>8. CASE CloseClient
  BY <1>8, CloseClientKeeps
<1>9. ASSUME NEW c \in Slots, Connect(c) PROVE IInv' /\ Advanced
  BY <1>9, ConnectKeeps
<1>10. ASSUME NEW c \in Slots, CloseSocket(c) PROVE IInv' /\ Advanced
  <2>1. UNCHANGED client
    BY <1>10 DEF CloseSocket
  <2> QED BY <1>1, <1>10, <2>1, CloseSocketMoves
<1>11. ASSUME NEW c \in Slots, EndSocket(c) PROVE IInv' /\ Advanced
  <2>1. UNCHANGED client
    BY <1>11 DEF EndSocket
  <2> QED BY <1>1, <1>11, <2>1, EndSocketMoves
<1>12. ASSUME NEW c \in Slots, Events(c) PROVE IInv' /\ Advanced
  <2>1. UNCHANGED client
    BY <1>12 DEF Events, Resolved, Ready, Timer, ProxyData, UpgradeData, PeerCloses
  <2>2. Moves(c)
    BY <1>12, ResolvedMoves, ReadyMoves, TimerMoves, ProxyDataMoves, UpgradeDataMoves, PeerClosesMoves DEF Events
  <2> QED BY <1>1, <2>1, <2>2
<1> QED BY <1>3, <1>4, <1>5, <1>6, <1>7, <1>8, <1>9, <1>10, <1>11, <1>12 DEF Next, Library, Application

\* The inductive invariant.
THEOREM Inductive == Spec => []IInv
<1>1. IInv /\ [Next]_vars => IInv'
  <2> SUFFICES ASSUME IInv, [Next]_vars PROVE IInv'
    OBVIOUS
  <2>1. CASE Next
    BY <2>1, StepKeeps
  <2>2. CASE UNCHANGED vars
    BY <2>2 DEF vars, IInv, Typed
  <2> QED BY <2>1, <2>2
<1> QED BY <1>1, InitInv, PTL DEF Spec

\* In each phase a freed request is forgotten, and user data freed at most once.
LEMMA SteadyRequest ==
  ASSUME NEW k, Steady(k)
  PROVE  /\ k.req = "freed" => ~k.gai /\ ~k.pend /\ ~k.hd /\ k.list = "none" /\ k.timer = "none" /\ k.sock # "semi"
         /\ k.state = "freed" => /\ k.req \in {"none", "freed"} \/ (k.req = "cancelled" /\ k.gai)
                                 /\ k.sock = "none" /\ k.timer = "none" /\ (k.gai => k.req = "cancelled") /\ k.frees = 1
         /\ k.frees \in {0, 1}
BY DEF Steady, Untouched, Waiting, Resolving, Connecting, ShakingHands, Framed, Cancelled, Over, Detached, Gone

\* And while failed runs.
LEMMA FailingRequest ==
  ASSUME NEW k, NEW f, Failing(k, f), f.then \in Answers
  PROVE  /\ k.req = "freed" => /\ ~k.gai /\ ~k.pend /\ ~k.hd /\ k.list = "none" /\ k.timer = "none" /\ k.sock # "semi"
                               /\ f.then \notin {"fail", "timer"}
         /\ k.state = "live" /\ k.frees = 0
BY DEF Failing, Detached, Answers

\* What the invariant says of requests, contexts and user data.
LEMMA Invariants == IInv => NoDangling /\ UserDataFreedOnce
<1> SUFFICES ASSUME IInv PROVE NoDangling /\ UserDataFreedOnce
  OBVIOUS
<1>1. slot \in [Slots -> Slot] /\ stack \in Seq(Frame) /\ client \in {"open", "closing", "closed", "deleted"}
  BY DEF IInv, Typed
<1>2. \A i \in DOMAIN stack : stack[i] \in Frames(stack)
  BY DEF Frames
<1>3. TypeOK
  <2>1. ASSUME NEW c \in Slots PROVE slot[c] \in Slot
    BY <1>1
  <2> QED BY <1>1, <2>1, SlotFields DEF TypeOK
<1>4. ASSUME NEW c \in Slots
      PROVE  LET k == slot[c]
             IN  /\ k.req = "freed" => ~k.gai /\ ~k.pend /\ ~k.hd /\ k.list = "none" /\ k.timer = "none" /\ k.sock # "semi"
                 /\ k.state = "freed" => /\ k.req \in {"none", "freed"} \/ (k.req = "cancelled" /\ k.gai)
                                         /\ k.sock = "none" /\ k.timer = "none" /\ (k.gai => k.req = "cancelled") /\ k.frees = 1
                 /\ k.frees \in {0, 1}
  <2>1. CASE InFailed(Frames(stack), c)
    <3>1. PICK f \in Frames(stack) : f.fn = "failed" /\ f.slot = c
      BY <2>1 DEF InFailed
    <3>2. Failing(slot[c], f) /\ f.then \in Answers
      BY <3>1, FailedFrames
    <3> QED BY <3>2, FailingRequest
  <2>2. CASE ~InFailed(Frames(stack), c)
    <3>1. Steady(slot[c])
      BY <2>2 DEF IInv, Phases, PhaseOf
    <3> QED BY <3>1, SteadyRequest
  <2> QED BY <2>1, <2>2
<1>5. ASSUME NEW c \in Slots, NEW i \in DOMAIN stack, stack[i].fn = "failed", stack[i].slot = c
      PROVE  slot[c].state # "freed" /\ (slot[c].req = "freed" => stack[i].then \notin {"fail", "timer"})
  <2>1. Failing(slot[c], stack[i]) /\ stack[i].then \in Answers
    BY <1>2, <1>5, FailedFrames
  <2> QED BY <2>1, FailingRequest
<1>6. ASSUME NEW c \in Slots, NEW i \in DOMAIN stack, stack[i].fn \in {"open", "close", "ended"}, stack[i].slot = c
      PROVE  slot[c].state # "freed"
  BY <1>2, <1>6 DEF IInv, Handled, HandledOf, Handlers
<1>7. NoDanglingRequest
  BY <1>4, <1>5 DEF NoDanglingRequest
<1>8. NoDanglingContext
  BY <1>4, <1>5, <1>6 DEF NoDanglingContext
<1>9. UserDataFreedOnce
  BY <1>4 DEF UserDataFreedOnce
<1> QED BY <1>3, <1>7, <1>8, <1>9 DEF NoDangling

\* Nothing outlives what it points to: when a request is freed, the slot, the
\* handshake, the timer, the list of its context and the functions on the stack
\* have forgotten it; a context that is freed has no socket, no timer and no
\* handler running, whatever timers, answers, handlers and close() do first.
THEOREM NothingDangles == Spec => []NoDangling
BY Inductive, Invariants, PTL

\* The user data of a connect is freed once, however it ends and however often
\* it has moved between contexts.
THEOREM FreedOnce == Spec => []UserDataFreedOnce
BY Inductive, Invariants, PTL

\* A step of a connect is one of the abstract specification, or none.
LEMMA AdvancedImplements == Advanced /\ IInv => [Abstract!Next]_Abstract!vars
<1> SUFFICES ASSUME Advanced, IInv PROVE [Abstract!Next]_Abstract!vars
  OBVIOUS
<1> DEFINE S == [c \in Slots |-> Status(slot[c])]
           S2 == [c \in Slots |-> Status(slot'[c])]
           C == client # "open"
           C2 == client' # "open"
<1>1. CASE (\A c \in Slots : Status(slot'[c]) = Status(slot[c])) /\ (client # "open" => client' # "open")
  <2>1. S2 = S
    BY <1>1
  <2>2. (C2 <=> TRUE) \/ (C2 <=> C)
    BY <1>1
  <2>3. C2 <=> TRUE => Abstract!CloseClient
    BY <2>1 DEF Abstract!CloseClient
  <2>4. (C2 <=> C) => UNCHANGED Abstract!vars
    BY <2>1 DEF Abstract!vars
  <2> QED BY <2>2, <2>3, <2>4 DEF Abstract!Next
<1>2. CASE /\ \E c \in Slots : \E k : slot' = [slot EXCEPT ![c] = k] /\ Advance(Status(slot[c]), Status(k))
           /\ UNCHANGED client
  <2>0. PICK c \in Slots : \E k : slot' = [slot EXCEPT ![c] = k] /\ Advance(Status(slot[c]), Status(k))
    BY <1>2
  <2>1. PICK k : slot' = [slot EXCEPT ![c] = k] /\ Advance(Status(slot[c]), Status(k))
    BY <2>0
  <2>2. slot \in [Slots -> Slot]
    BY DEF IInv, Typed
  <2>3. S2 = [S EXCEPT ![c] = Status(k)]
    <3>1. \A d \in Slots : slot'[d] = IF d = c THEN k ELSE slot[d]
      BY <2>1, <2>2
    <3> QED BY <3>1
  <2>4. S[c] = Status(slot[c]) /\ UNCHANGED client /\ S \in [Slots -> {Status(slot[d]) : d \in Slots}]
    BY <1>2
  <2> DEFINE a == Status(slot[c])
             b == Status(k)
  <2>6. CASE a = b
    <3>1. S2 = S
      BY <2>3, <2>4, <2>6
    <3> QED BY <2>4, <3>1 DEF Abstract!vars
  <2>7. Abstract!Move(c, a, b)
    BY <2>3, <2>4 DEF Abstract!Move
  <2>8. CASE client = "open" /\ <<a, b>> \in {<<"unused", "pending">>, <<"pending", "open">>}
    BY <2>7, <2>8 DEF Abstract!Next, Abstract!Start, Abstract!Open
  <2>9. CASE <<a, b>> \in {<<"pending", "failed">>, <<"open", "closed">>}
    BY <2>7, <2>9 DEF Abstract!Next, Abstract!Fail, Abstract!Close
  <2>10. CASE client # "open" /\ <<a, b>> = <<"pending", "cancelled">>
    BY <2>7, <2>10 DEF Abstract!Next, Abstract!Cancel
  <2> QED BY <2>1, <2>6, <2>8, <2>9, <2>10 DEF Advance
<1> QED BY <1>1, <1>2 DEF Advanced

\* Connects are answered as Connects says: once, by open or by failed, closed
\* only after they opened, and none starts or opens after close().
THEOREM AnswersImplement == Spec => ImplementsConnects
<1>1. Init => Abstract!Init
  <2> SUFFICES ASSUME Init PROVE Abstract!Init
    OBVIOUS
  <2>1. \A c \in Slots : Status(slot[c]) = "unused"
    BY DEF Init, Status, Unused
  <2>2. client = "open"
    BY DEF Init
  <2> QED BY <2>1, <2>2 DEF Abstract!Init
<1>2. IInv /\ [Next]_vars => [Abstract!Next]_Abstract!vars
  <2> SUFFICES ASSUME IInv, [Next]_vars PROVE [Abstract!Next]_Abstract!vars
    OBVIOUS
  <2>1. CASE Next
    BY <2>1, StepKeeps, AdvancedImplements
  <2>2. CASE UNCHANGED vars
    BY <2>2 DEF vars, Abstract!vars
  <2> QED BY <2>1, <2>2
<1> QED BY <1>1, <1>2, Inductive, PTL DEF Spec, ImplementsConnects, Abstract!Spec

=============================================================================
