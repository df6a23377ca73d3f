----------------------------- MODULE SocketLoop -----------------------------
(***************************************************************************)
(* The socket lists of the event loop: src/native/usockets/loop.c,         *)
(* context.c, socket.c and eventing/libuv.c.                               *)
(*                                                                         *)
(* A socket is memory of its own (an element of Sockets is an address). Its *)
(* next and prev pointers thread it into the list of its context, into the *)
(* low-priority queue or into the list of closed sockets, and prev = its   *)
(* context marks it as closed. One iteration of libuv runs our prepare     *)
(* callback, poll callbacks, our check callback, setImmediate callbacks,   *)
(* close callbacks and timers, in this order; application code runs in     *)
(* poll callbacks, setImmediate callbacks and timers, and the sweep of the *)
(* timeouts is a timer that runs handlers while it walks the lists.        *)
(***************************************************************************)
EXTENDS Integers, Sequences, FiniteSets

CONSTANTS
  Sockets,      \* addresses
  NContexts,    \* contexts are 1 .. NContexts, in reverse order of the loop's list
  Secure,       \* the contexts whose sockets begin with a TLS handshake
  NULL,
  Modulus,      \* 240 in the code
  LongRatio,    \* short ticks per long tick: 15 in the code
  Budget,       \* low-priority sockets per iteration: 5 in the code
  ShortTicks,   \* timeouts that the application sets, in ticks
  LongMinutes,  \* long timeouts that the application sets, in long ticks
  MaxListen,    \* bound: listen sockets alive at a time
  MaxPaused,    \* bound: pauses between two runs of the accept timer
  Immediates    \* whether the application runs in setImmediate callbacks

Contexts == 1 .. NContexts

ASSUME SocketLoopAssumption ==
  /\ NContexts \in Nat \ {0}
  /\ IsFiniteSet(Sockets)
  /\ Sockets \cap Contexts = {} /\ NULL \notin Sockets \cup Contexts
  /\ Secure \subseteq Contexts
  /\ Modulus \in Nat \ {0}
  /\ LongRatio \in Nat \ {0}
  /\ Budget \in Nat \ {0}
  /\ ShortTicks \cup LongMinutes \subseteq Nat \ {0}
  /\ MaxListen \in Nat
  /\ MaxPaused \in Nat
  /\ Immediates \in BOOLEAN

VARIABLES
  l,       \* the memory of the sockets and the pointers to it
  phase,   \* of the iteration
  at,      \* the context and the socket where the sweep is
  closing, \* the context that us_socket_context_close is closing, or 0
  paused,  \* the paused listen sockets
  timer    \* whether the accept timer is armed

vars == <<l, phase, at, closing, paused, timer>>

None == Modulus  \* 255 in the code: no timeout

Pointer == Sockets \cup {NULL}

\* wait and longWait are history: the ticks to go until the timeout is due;
\* missed: it was due while the socket was in the low-priority queue; late: it
\* was closed between the check and the close callbacks.
Blank == [kind |-> "free", ctx |-> 1, prev |-> NULL, next |-> NULL, low |-> 0,
          shaking |-> FALSE, reads |-> FALSE, timeout |-> None, long |-> None,
          wait |-> 0, longWait |-> 0, missed |-> {}, late |-> FALSE, handle |-> "none"]

Timestamp(m, c)     == m.tick[c] % Modulus
LongTimestamp(m, c) == (m.tick[c] \div LongRatio) % Modulus

IsClosed(m, s)  == m.sock[s].prev = m.sock[s].ctx
Alive(m, s)     == m.sock[s].kind \in {"socket", "listen"} /\ ~IsClosed(m, s)
Open(s)         == l.sock[s].kind = "socket" /\ Alive(l, s)
Listening(s)    == l.sock[s].kind = "listen" /\ Alive(l, s)

-----------------------------------------------------------------------------
(* Lists. Each operator takes the memory and returns it changed.           *)

SetNext(m, p, q) == IF p = NULL THEN m ELSE [m EXCEPT !.sock[p].next = q]
SetPrev(m, p, q) == IF p = NULL THEN m ELSE [m EXCEPT !.sock[p].prev = q]

\* Where n times next leads from p, for as many n as there are sockets and one more.
Path(m, p) ==
  LET from[n \in 0 .. Cardinality(Sockets) + 1] ==
        IF n = 0 THEN p ELSE IF from[n - 1] = NULL THEN NULL ELSE m.sock[from[n - 1]].next
  IN  from

\* The sockets from p on; more of them than there are if it is a cycle.
Chain(m, p) ==
  LET from == Path(m, p)
      len  == CHOOSE n \in DOMAIN from :
                (from[n] = NULL \/ n = Cardinality(Sockets) + 1) /\ \A k \in 0 .. n - 1 : from[k] # NULL
  IN  [n \in 1 .. len |-> from[n - 1]]

\* The first of a chain at the places I.
FirstOf(chain, I) == IF I = {} THEN NULL ELSE chain[CHOOSE i \in I : \A j \in I : i <= j]

ListOf(k) == IF k.kind = "listen" THEN "listen" ELSE "head"

Link(m, c, s) ==
  LET list  == ListOf(m.sock[s])
      first == m[list][c]
  IN  SetPrev([m EXCEPT !.sock[s] = [@ EXCEPT !.ctx = c, !.next = first, !.prev = NULL],
                        ![list][c] = s], first, s)

\* Variant: the sweep is not told.
UnlinkOnly(m, s) ==
  LET k    == m.sock[s]
      list == ListOf(k)
  IN  IF k.prev = k.next THEN [m EXCEPT ![list][k.ctx] = NULL]
      ELSE SetPrev(IF k.prev = NULL THEN [m EXCEPT ![list][k.ctx] = k.next]
                   ELSE SetNext(m, k.prev, k.next), k.next, k.prev)

Unlink(m, s) ==
  LET k    == m.sock[s]
      list == ListOf(k)
      m1   == [m EXCEPT !.iterator[k.ctx] = IF @ = s THEN k.next ELSE @]
  IN  IF k.prev = k.next THEN [m1 EXCEPT ![list][k.ctx] = NULL]
      ELSE SetPrev(IF k.prev = NULL THEN [m1 EXCEPT ![list][k.ctx] = k.next]
                   ELSE SetNext(m1, k.prev, k.next), k.next, k.prev)

PushLow(m, s) ==
  SetPrev([m EXCEPT !.sock[s] = [@ EXCEPT !.prev = NULL, !.next = m.low, !.low = 1, !.reads = FALSE],
                    !.low = s], m.low, s)

UnlinkLow(m, s) ==
  LET k == m.sock[s]
      m1 == IF k.prev = NULL THEN [m EXCEPT !.low = k.next] ELSE SetNext(m, k.prev, k.next)
  IN  [SetPrev(m1, k.next, k.prev) EXCEPT !.sock[s].low = 0]

\* Variant: us_socket_close takes every socket out of the list of its context.
DetachListed(m, s) == Unlink(m, s)

Detach(m, s) == IF m.sock[s].low = 1 THEN UnlinkLow(m, s) ELSE Unlink(m, s)

\* us_poll_stop: the handle is closed at the end of the iteration.
PollStop(k) == [k EXCEPT !.handle = "stopping", !.reads = FALSE]

\* A closed socket waits in the list of closed sockets for the check callback.
ToClosed(m, s) ==
  [m EXCEPT !.sock[s] = [PollStop(@) EXCEPT !.next = m.closed, !.prev = m.sock[s].ctx,
                                            !.timeout = None, !.long = None, !.wait = 0, !.longWait = 0,
                                            !.missed = {}, !.shaking = FALSE,
                                            !.late = (phase = "immediates")],
            !.closed = s]

\* us_socket_close, up to its on_close handler.
Close(m, s) == ToClosed(Detach(m, s), s)

ListenClose(m, s) == ToClosed(Unlink(m, s), s)

\* What us_socket_context_close closes next, and then close_low_prio.
NextListed(c) == IF l.listen[c] # NULL THEN l.listen[c] ELSE l.head[c]

NextQueued(c) ==
  LET queue == Chain(l, l.low)
  IN  FirstOf(queue, {i \in DOMAIN queue : l.sock[queue[i]].ctx = c})

NextToClose(c) == IF NextListed(c) # NULL THEN NextListed(c) ELSE NextQueued(c)

-----------------------------------------------------------------------------
(* Timeouts.                                                               *)

\* Variant: one tick early.
SetTimeoutEarly(m, s, n) ==
  [m EXCEPT !.sock[s].timeout = (Timestamp(m, m.sock[s].ctx) + n - 1) % Modulus,
            !.sock[s].wait = n, !.sock[s].missed = @ \ {"short"}]

SetTimeout(m, s, n) ==
  [m EXCEPT !.sock[s].timeout = IF n = 0 THEN None ELSE (Timestamp(m, m.sock[s].ctx) + n) % Modulus,
            !.sock[s].wait = n, !.sock[s].missed = @ \ {"short"}]

SetLongTimeout(m, s, n) ==
  [m EXCEPT !.sock[s].long = IF n = 0 THEN None ELSE (LongTimestamp(m, m.sock[s].ctx) + n) % Modulus,
            !.sock[s].longWait = n * LongRatio, !.sock[s].missed = @ \ {"long"}]

Less(n) == IF n = 0 THEN 0 ELSE n - 1

\* A new tick of context c. What is due while the socket is queued is missed.
Tick(m, c) ==
  [m EXCEPT !.tick[c] = (@ + 1) % (Modulus * LongRatio),
            !.sock = [s \in Sockets |->
              LET k == @[s]
              IN  IF k.kind # "socket" \/ k.ctx # c THEN k
                  ELSE [k EXCEPT !.wait = Less(@), !.longWait = Less(@),
                          !.missed = @ \cup
                             {d \in {"short", "long"} :
                                k.low = 1 /\ IF d = "short" THEN k.timeout # None /\ k.wait <= 1
                                             ELSE k.long # None /\ k.longWait <= LongRatio}]]]

ShortDue(m, c, s) == m.sock[s].timeout = Timestamp(m, c)
LongDue(m, c, s)  == m.sock[s].long = LongTimestamp(m, c)

\* The walk goes on at p in context c: to the handler of the first socket that
\* is due, or to the next context.
Seek(m, c, p) ==
  LET walk == Chain(m, p)
      s    == FirstOf(walk, {i \in DOMAIN walk : ShortDue(m, c, walk[i]) \/ LongDue(m, c, walk[i])})
      m1   == [m EXCEPT !.iterator[c] = s]
  IN  CASE s = NULL ->
             /\ l' = [m EXCEPT !.iterator[c] = NULL]
             /\ at' = [ctx |-> c - 1, sock |-> NULL]
             /\ phase' = IF c = 1 THEN "swept" ELSE "sweep"
        [] s # NULL /\ ShortDue(m, c, s) ->
             /\ l' = [m1 EXCEPT !.sock[s].timeout = None]
             /\ at' = [ctx |-> c, sock |-> s]
             /\ phase' = "short"
        [] OTHER ->
             /\ l' = [m1 EXCEPT !.sock[s].long = None]
             /\ at' = [ctx |-> c, sock |-> s]
             /\ phase' = "long"

SweepStart ==
  /\ phase = "timers"
  /\ closing = 0
  /\ phase' = "sweep"
  /\ at' = [ctx |-> NContexts, sock |-> NULL]
  /\ UNCHANGED <<l, closing, paused, timer>>

SweepContext ==
  /\ phase = "sweep"
  /\ LET c == at.ctx
         m == Tick(l, c)
     IN  Seek(m, c, m.head[c])
  /\ UNCHANGED <<closing, paused, timer>>

\* Variant: the walk goes on from the socket whose handler ran.
ResumeAtSocket(c, s) == l.sock[s].next

ResumeAt(c, s) == IF l.iterator[c] = s THEN l.sock[s].next ELSE l.iterator[c]

\* The handler of a timeout returns.
SweepReturn ==
  /\ phase \in {"short", "long"}
  /\ closing = 0
  /\ LET c == at.ctx
         s == at.sock
     IN  IF phase = "short" /\ l.iterator[c] = s /\ LongDue(l, c, s)
         THEN /\ l' = [l EXCEPT !.sock[s].long = None]
              /\ phase' = "long"
              /\ UNCHANGED at
         ELSE Seek(l, c, ResumeAt(c, s))
  /\ UNCHANGED <<closing, paused, timer>>

-----------------------------------------------------------------------------
(* The iteration.                                                          *)

Requeue(m) ==
  LET s == m.low
      next == m.sock[s].next
      m1 == SetPrev([m EXCEPT !.low = next, !.budget = @ - 1], next, NULL)
  IN  [Link(m1, m.sock[s].ctx, s) EXCEPT !.sock[s].low = 2, !.sock[s].reads = TRUE]

\* Variant: the last of the budget is kept.
HandleLowPriorityLess(m) ==
  LET after[n \in 0 .. Budget] ==
        IF n <= 1 THEN [m EXCEPT !.budget = Budget]
        ELSE IF after[n - 1].low = NULL THEN after[n - 1] ELSE Requeue(after[n - 1])
  IN  after[Budget]

\* The first Budget sockets of the low-priority queue go back to their lists.
HandleLowPriority(m) ==
  LET after[n \in 0 .. Budget] ==
        IF n = 0 THEN [m EXCEPT !.budget = Budget]
        ELSE IF after[n - 1].low = NULL THEN after[n - 1] ELSE Requeue(after[n - 1])
  IN  after[Budget]

Prepare ==
  /\ phase \in {"timers", "swept"}
  /\ closing = 0
  /\ l' = HandleLowPriority(l)
  /\ phase' = "poll"
  /\ UNCHANGED <<at, closing, paused, timer>>

\* Variant: data is not restored.
PollFreeOnly(k) == [k EXCEPT !.kind = "dead", !.prev = NULL, !.next = NULL, !.ctx = 1,
                             !.handle = "leaked"]

\* us_poll_free: close_cb_free_poll frees what is still closing.
PollFree(k) == [k EXCEPT !.kind = "dead", !.prev = NULL, !.next = NULL, !.ctx = 1,
                         !.handle = IF @ = "stopping" THEN "freeing" ELSE "leaked"]

FreeClosed(m) ==
  LET freed == {Chain(m, m.closed)[i] : i \in DOMAIN Chain(m, m.closed)}
  IN  [m EXCEPT !.sock = [s \in Sockets |-> IF s \in freed THEN PollFree(@[s]) ELSE @[s]],
                !.closed = NULL]

Check ==
  /\ phase = "poll"
  /\ closing = 0
  /\ l' = FreeClosed(l)
  /\ phase' = "immediates"
  /\ UNCHANGED <<at, closing, paused, timer>>

\* The close callbacks of libuv.
CloseCallbacks ==
  /\ phase = "immediates"
  /\ closing = 0
  /\ l' = [l EXCEPT !.sock = [s \in Sockets |->
             CASE @[s].handle = "freeing"  -> Blank
               [] @[s].handle = "stopping" -> [@[s] EXCEPT !.handle = "stopped"]
               [] OTHER -> @[s]]]
  /\ phase' = "timers"
  /\ UNCHANGED <<at, closing, paused, timer>>

\* A socket of a secure context is readable: it waits for its turn if the budget
\* is spent, otherwise its data is processed and may complete the handshake.
Readable(s) ==
  /\ phase = "poll"
  /\ closing = 0
  /\ Open(s)
  /\ l.sock[s].reads
  /\ l.sock[s].shaking
  /\ IF l.sock[s].low # 2 /\ l.budget = 0
     THEN l' = PushLow(Unlink(l, s), s)
     ELSE \E more \in BOOLEAN :
            l' = [l EXCEPT !.sock[s].low = 0,
                           !.sock[s].shaking = more,
                           !.budget = IF l.sock[s].low = 2 THEN @ ELSE @ - 1]
  /\ UNCHANGED <<phase, at, closing, paused, timer>>

New(c, kind) == [Blank EXCEPT !.kind = kind, !.ctx = c, !.reads = TRUE, !.handle = "active",
                              !.shaking = kind = "socket" /\ c \in Secure]

\* The accept loop goes on until its listen socket is closed or has no more.
Accepts(c) == l.listen[c] # NULL => l.sock[l.listen[c]].reads

\* A connection is accepted, or an outgoing one is established.
OpenSocket(c, s) ==
  /\ phase = "poll"
  /\ closing = 0
  /\ l.sock[s].kind = "free"
  /\ Accepts(c)
  /\ l' = Link([l EXCEPT !.sock[s] = New(c, "socket")], c, s)
  /\ UNCHANGED <<phase, at, closing, paused, timer>>

\* Accepting fails for want of descriptors.
PauseListen(s) ==
  /\ phase = "poll"
  /\ closing = 0
  /\ Listening(s)
  /\ l.sock[s].reads
  /\ Len(paused) < MaxPaused
  /\ l' = [l EXCEPT !.sock[s].reads = FALSE]
  /\ paused' = <<s>> \o paused
  /\ timer' = (timer \/ paused = <<>>)
  /\ UNCHANGED <<phase, at, closing>>

IsLiveListenSocket(s) == \E c \in Contexts : \E i \in DOMAIN Chain(l, l.listen[c]) : Chain(l, l.listen[c])[i] = s

\* Variant: every paused listen socket is resumed.
ResumesAll(s) == TRUE

Resumes(s) == IsLiveListenSocket(s)

AcceptTimer ==
  /\ phase \in {"timers", "swept"}
  /\ closing = 0
  /\ timer
  /\ timer' = FALSE
  /\ paused' = <<>>
  /\ l' = [l EXCEPT !.sock = [s \in Sockets |->
             IF (\E i \in DOMAIN paused : paused[i] = s) /\ Resumes(s)
             THEN [@[s] EXCEPT !.reads = TRUE] ELSE @[s]]]
  /\ UNCHANGED <<phase, at, closing>>

-----------------------------------------------------------------------------
(* The application.                                                        *)

MayCall ==
  \/ phase \in {"poll", "timers", "short", "long", "swept"}
  \/ Immediates /\ phase = "immediates"

CloseSocket(s) ==
  /\ MayCall
  /\ \/ Open(s) /\ l' = Close(l, s)
     \/ Listening(s) /\ l' = ListenClose(l, s)
  /\ UNCHANGED <<phase, at, closing, paused, timer>>

Timeout(s) ==
  /\ MayCall
  /\ Open(s)
  /\ \/ \E n \in ShortTicks : l' = SetTimeout(l, s, n)
     \/ \E n \in LongMinutes : l' = SetLongTimeout(l, s, n)
  /\ UNCHANGED <<phase, at, closing, paused, timer>>

\* us_poll_resize: a socket moves to memory of its own size.
Moved(m, s, n) ==
  [m EXCEPT !.sock[n] = [m.sock[s] EXCEPT !.timeout = None, !.long = None, !.wait = 0,
                                          !.longWait = 0, !.missed = {}],
            !.sock[s] = [Blank EXCEPT !.kind = "dead", !.handle = "freeing"]]

\* A socket is adopted by another context. One whose handshake is incomplete has
\* received nothing yet that would upgrade it, so it is not in the queue.
Adopt(s, c, n) ==
  /\ MayCall
  /\ Open(s)
  /\ ~l.sock[s].shaking
  /\ c # l.sock[s].ctx
  /\ l.sock[n].kind = "free"
  /\ l' = Link(Moved(Unlink(l, s), s, n), c, n)
  /\ UNCHANGED <<phase, at, closing, paused, timer>>

Listen(c, s) ==
  /\ MayCall
  /\ l.sock[s].kind = "free"
  /\ Cardinality({t \in Sockets : Listening(t)}) < MaxListen
  /\ l' = Link([l EXCEPT !.sock[s] = New(c, "listen")], c, s)
  /\ UNCHANGED <<phase, at, closing, paused, timer>>

\* An App closes its contexts; on_close handlers run between any two sockets.
CloseContext(c) ==
  /\ MayCall
  /\ closing = 0
  /\ NextToClose(c) # NULL
  /\ closing' = c
  /\ UNCHANGED <<l, phase, at, paused, timer>>

CloseNext ==
  /\ closing # 0
  /\ LET s == NextToClose(closing)
     IN  IF s = NULL THEN closing' = 0 /\ UNCHANGED l
         ELSE /\ l' = IF Listening(s) THEN ListenClose(l, s) ELSE Close(l, s)
              /\ UNCHANGED closing
  /\ UNCHANGED <<phase, at, paused, timer>>

Init ==
  /\ l = [sock |-> [s \in Sockets |-> Blank],
          head |-> [c \in Contexts |-> NULL],
          listen |-> [c \in Contexts |-> NULL],
          iterator |-> [c \in Contexts |-> NULL],
          tick |-> [c \in Contexts |-> 0],
          low |-> NULL, budget |-> Budget, closed |-> NULL]
  /\ phase = "timers"
  /\ at = [ctx |-> 0, sock |-> NULL]
  /\ closing = 0
  /\ paused = <<>>
  /\ timer = FALSE

Iterate == Prepare \/ Check \/ CloseCallbacks \/ SweepStart \/ SweepContext \/ SweepReturn \/ AcceptTimer

Next ==
  \/ Iterate
  \/ CloseNext
  \/ \E s \in Sockets : \/ Readable(s) \/ PauseListen(s) \/ CloseSocket(s) \/ Timeout(s)
                        \/ \E c \in Contexts : OpenSocket(c, s) \/ Listen(c, s)
                        \/ \E c \in Contexts, n \in Sockets : Adopt(s, c, n)
  \/ \E c \in Contexts : CloseContext(c)

Spec == Init /\ [][Next]_vars

\* libuv goes on iterating, runs a timer that is due, and handlers return.
FairSpec ==
  /\ Spec
  /\ WF_vars(Prepare) /\ WF_vars(Check) /\ WF_vars(CloseCallbacks)
  /\ WF_vars(SweepContext) /\ WF_vars(SweepReturn) /\ WF_vars(CloseNext)
  /\ SF_vars(AcceptTimer)

-----------------------------------------------------------------------------
(* Properties.                                                             *)

Members(p) == {Chain(l, p)[i] : i \in DOMAIN Chain(l, p)}

Socket ==
  [kind : {"free", "socket", "listen", "dead"}, ctx : Contexts, prev : Pointer \cup Contexts,
   next : Pointer, low : 0 .. 2, shaking : BOOLEAN, reads : BOOLEAN, timeout : 0 .. Modulus,
   long : 0 .. Modulus, wait : Nat, longWait : Nat, missed : SUBSET {"short", "long"}, late : BOOLEAN,
   handle : {"none", "active", "stopping", "stopped", "freeing", "leaked"}]

Memory ==
  [sock : [Sockets -> Socket], head : [Contexts -> Pointer], listen : [Contexts -> Pointer],
   iterator : [Contexts -> Pointer], tick : [Contexts -> 0 .. Modulus * LongRatio - 1],
   low : Pointer, budget : 0 .. Budget, closed : Pointer]

\* Each variable has its type.
TypeOK ==
  /\ l \in Memory
  /\ phase \in {"poll", "immediates", "timers", "sweep", "short", "long", "swept"}
  /\ at \in [ctx : 0 .. NContexts, sock : Pointer]
  /\ closing \in 0 .. NContexts
  /\ paused \in Seq(Sockets)
  /\ timer \in BOOLEAN

\* The list that begins at first holds exactly the sockets of members, and prev
\* is the inverse of next in it.
IsList(first, members) ==
  LET chain == Chain(l, first)
  IN  /\ Members(first) = members
      /\ Len(chain) = Cardinality(members)
      /\ \A i \in DOMAIN chain : l.sock[chain[i]].prev = IF i = 1 THEN NULL ELSE chain[i - 1]

\* Whatever opens, closes, is adopted, queued or requeued, and wherever the
\* sweep is: a socket is in the list of its context, in the low-priority queue
\* or in the list of closed sockets, in one of them, and no list holds memory
\* that was freed.
ListsWellFormed ==
  /\ \A c \in Contexts :
       /\ IsList(l.head[c], {s \in Sockets : Open(s) /\ l.sock[s].ctx = c /\ l.sock[s].low # 1})
       /\ IsList(l.listen[c], {s \in Sockets : Listening(s) /\ l.sock[s].ctx = c})
  /\ IsList(l.low, {s \in Sockets : Open(s) /\ l.sock[s].low = 1})
  /\ Members(l.closed) = {s \in Sockets : l.sock[s].kind \in {"socket", "listen"} /\ ~Alive(l, s)}

\* The loop's data is what its code takes it for: types, counters modulo 240
\* and lists.
ListsSound == TypeOK /\ ListsWellFormed

\* The sweep's cursor is a socket of the context that is swept, or null; it is
\* null outside of the sweep.
SweepCursorLive ==
  \A c \in Contexts :
    l.iterator[c] # NULL =>
      /\ phase \in {"short", "long"} /\ at.ctx = c
      /\ l.iterator[c] \in Members(l.head[c])

\* Timeouts are numbers modulo 240 that are compared with a counter. A short
\* timeout fires exactly when its ticks have passed, a long one in the last of
\* its long ticks.
FiresWhenDue ==
  [][phase' \in {"short", "long"} /\ <<phase, at>>' # <<phase, at>> =>
       IF phase' = "short" THEN l'.sock[at'.sock].wait = 0
                           ELSE l'.sock[at'.sock].longWait < LongRatio]_vars

\* No timeout is passed over: outside of the sweep every timeout that is set is
\* still to come, but for sockets that were in the low-priority queue.
NoTimeoutSkipped ==
  phase \notin {"sweep", "short", "long"} =>
    \A s \in Sockets :
      Open(s) =>
        /\ l.sock[s].timeout # None /\ "short" \notin l.sock[s].missed => l.sock[s].wait > 0
        /\ l.sock[s].long # None /\ "long" \notin l.sock[s].missed => l.sock[s].longWait > 0

\* The sweep (loop.c:85) survives what its handlers do to the lists it walks,
\* and neither they nor it make it pass over a socket.
SweepSound == SweepCursorLive /\ NoTimeoutSkipped

\* A socket that is not in the queue is read from, unless it is a paused listen
\* socket, which the accept timer is going to resume.
Polled ==
  \A s \in Sockets :
    /\ Open(s) => l.sock[s].reads = (l.sock[s].low # 1)
    /\ Listening(s) /\ ~l.sock[s].reads => timer /\ \E i \in DOMAIN paused : paused[i] = s
    /\ l.sock[s].kind \in {"free", "dead"} \/ ~Alive(l, s) => ~l.sock[s].reads

\* The memory of a socket is freed, unless it was closed between our check
\* callback and the close callbacks of libuv.
LeaksOnlyLate == \A s \in Sockets : l.sock[s].handle = "leaked" => l.sock[s].late

\* A socket leaves the low-priority queue, unless others keep coming.
Delays == \E s \in Sockets : l.sock[s].low # 1 /\ l'.sock[s].low = 1
QueueServed == <>[][~Delays]_vars => \A s \in Sockets : l.sock[s].low = 1 ~> l.sock[s].low # 1

=============================================================================
