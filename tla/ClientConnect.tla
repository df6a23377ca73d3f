--------------------------- MODULE ClientConnect ---------------------------
(***************************************************************************)
(* Outbound connects: the request of src/native/usockets/connect.c, the    *)
(* opening handshake of uwebsockets/WebSocketClientContext.h, the slots of *)
(* uwebsockets/ClientApp.h and close() of addon/ClientAppWrapper.h.        *)
(*                                                                         *)
(* A connect has a slot, which owns the contexts its socket passes through *)
(* (dial, then peer if TLS starts in a proxy's tunnel, then frame), and a  *)
(* request, which owns the resolver call, the addresses, the attempt and   *)
(* the timer. Every pointer between them is a field here. The application  *)
(* runs in the handlers failed, open and close, where it may connect and   *)
(* close anything; what the library still does afterwards is the stack.    *)
(***************************************************************************)
EXTENDS Integers, Sequences, FiniteSets

CONSTANTS
  NSlots,       \* bound: connects
  MaxAddresses, \* bound: addresses of a host
  MaxFrames,    \* bound: nested handlers
  Proxies,      \* proxies in use: none, plain (ws://), tls (wss://)
  Deadlines     \* the timeouts that are set: sets of connect, handshake

Slots == 1 .. NSlots

ASSUME ClientConnectAssumption ==
  /\ NSlots \in Nat \ {0}
  /\ MaxAddresses \in Nat \ {0}
  /\ MaxFrames \in Nat \ {0}
  /\ Proxies \subseteq {"none", "plain", "tls"}
  /\ Deadlines \subseteq SUBSET {"connect", "handshake"}

VARIABLES
  slot,     \* the slots with their requests and sockets
  stack,    \* the functions that wait for a handler, newest first
  deferred, \* the defer queue that is being filled
  client    \* open, closing (in close()), closed or deleted

vars == <<slot, stack, deferred, client>>

\* gai: the resolver has been asked; list: the context whose list has the request;
\* pend and hd: pending.request_ and HandshakeData.request_ point to the request;
\* handler: the context with failedHandler; user: those with pending.user; frees
\* and told are history: userData freed, and what the application was told.
Unused == [state |-> "unused", proxy |-> "none", deadline |-> {},
           req |-> "none", list |-> "none", gai |-> FALSE, timer |-> "none", addrs |-> 0,
           sock |-> "none", tunnel |-> FALSE, ended |-> FALSE,
           pend |-> FALSE, hd |-> FALSE, opened |-> "none", notified |-> {}, handler |-> "dial",
           user |-> {}, frees |-> 0, told |-> <<>>]

Idle    == stack = <<>>
MayCall == stack # <<>> => Head(stack).fn \in {"failed", "open", "close", "ended"}
Nests   == MayCall /\ Len(stack) < MaxFrames

Handshaking(k) == k.sock \in {"dial", "peer"}

Tell(k, what) == [k EXCEPT !.told = Append(@, what)]

-----------------------------------------------------------------------------
(* The request.                                                            *)

LinkRequest(k, x)  == [k EXCEPT !.list = x]
UnlinkRequest(k)   == [k EXCEPT !.list = "none"]
RequestFree(k)     == [k EXCEPT !.req = "freed"]
DropResults(k)     == [k EXCEPT !.addrs = 0]
CloseTimer(k)      == [k EXCEPT !.timer = "none"]
CloseConnecting(k) == IF k.sock = "semi" THEN [k EXCEPT !.sock = "none"] ELSE k

\* The rest of connect_fail, after its handler.
ConnectFailed(k) == RequestFree(UnlinkRequest(DropResults(CloseTimer(k))))

\* The rest of connect_timer_cb, after its handler: an unanswered resolver call
\* is cancelled, and its callback frees the request.
TimedOut(k) ==
  LET m == UnlinkRequest(DropResults(CloseConnecting(CloseTimer(k))))
  IN  IF k.req = "resolving" THEN [m EXCEPT !.req = "cancelled"] ELSE RequestFree(m)

\* slot->cancel.
Cancel(k) ==
  LET m == [UnlinkRequest(CloseConnecting(CloseTimer(k))) EXCEPT !.pend = FALSE]
  IN  IF ~k.pend THEN k
      ELSE IF k.req = "resolving" THEN [m EXCEPT !.req = "cancelled"] ELSE RequestFree(DropResults(m))

\* Both owners forget the request that they release.
Release(k) ==
  IF ~k.pend /\ ~k.hd THEN k
  ELSE [RequestFree(UnlinkRequest(DropResults(CloseTimer(k)))) EXCEPT !.pend = FALSE, !.hd = FALSE]

\* The context of a request is freed.
Orphan(k) ==
  LET m == UnlinkRequest(CloseTimer(k))
  IN  IF k.req = "resolving" THEN [m EXCEPT !.req = "cancelled"]
      ELSE RequestFree(DropResults(IF k.req = "connecting" THEN CloseConnecting(m) ELSE m))

-----------------------------------------------------------------------------
(* Slots.                                                                  *)

Defer(item) == Append(deferred, item)

SweepScheduled ==
  \/ \E i \in DOMAIN deferred : deferred[i].do = "sweep"
  \/ \E i \in DOMAIN stack : stack[i].fn = "wakeup" /\ \E j \in DOMAIN stack[i].rest : stack[i].rest[j].do = "sweep"

Done(k) == IF k.state = "live" THEN [k EXCEPT !.state = "done"] ELSE k

\* retire, the part in the queue.
ArmSweep(k) == IF k.state = "live" /\ ~SweepScheduled THEN Defer([do |-> "sweep"]) ELSE deferred

\* The deleters of a slot: a context frees the user data it still has and
\* orphans the requests in its list.
FreeSlot(k) ==
  [IF k.list # "none" THEN Orphan(k) ELSE k EXCEPT
     !.state = "freed", !.frees = @ + Cardinality(k.user), !.user = {}]

\* emitFailed, up to its handler.
EmitFailed(c, k, x, then, below) ==
  /\ slot' = [slot EXCEPT ![c] = [IF k.handler = x THEN Tell(k, "failed") ELSE k EXCEPT !.notified = @ \cup {x}]]
  /\ stack' = <<[fn |-> "failed", slot |-> c, ctx |-> x, then |-> then]>> \o below

\* on_connect_error: the request frees itself.
ConnectError(c, k, then) == EmitFailed(c, [k EXCEPT !.pend = FALSE], "dial", then, stack)

HandshakeGone(k) == [k EXCEPT !.opened = "none"]

\* Variant: on_close does not ask whether the connect has been answered.
ClosesAgain(c, k, below) ==
  EmitFailed(c, [Release(k) EXCEPT !.sock = "none"], k.sock, "closed", below)

\* on_close of a handshake context.
Closes(c, k, below) ==
  LET m == [Release(k) EXCEPT !.sock = "none"]
  IN  IF k.sock \in k.notified
      THEN slot' = [slot EXCEPT ![c] = HandshakeGone(m)] /\ stack' = below
      ELSE EmitFailed(c, m, k.sock, "closed", below)

\* us_socket_close after emitFailed.
CloseAnswered(k) ==
  IF Handshaking(k) THEN HandshakeGone([Release(k) EXCEPT !.sock = "none"]) ELSE k

UserFreed(k, x) == IF x \in k.user THEN [k EXCEPT !.user = @ \ {x}, !.frees = @ + 1] ELSE k

\* The handler of emitFailed returns.
FailedReturn ==
  /\ ~Idle
  /\ Head(stack).fn = "failed"
  /\ LET f == Head(stack)
         k == Done(UserFreed(slot[f.slot], f.ctx))
     IN  /\ slot' = [slot EXCEPT ![f.slot] =
              CASE f.then = "fail"     -> ConnectFailed(k)
                [] f.then = "timer"    -> TimedOut(k)
                [] f.then = "close"    -> CloseAnswered(k)
                [] f.then = "closed"   -> HandshakeGone(k)
                [] f.then = "deferred" -> [k EXCEPT !.frees = @ + 1]]
         /\ deferred' = ArmSweep(slot[f.slot])
  /\ stack' = Tail(stack)
  /\ UNCHANGED client

\* on_close of a frame context, after whose handler socketClosedHandler retires
\* the slot; end() has called the handler before.
FrameCloses(c, below) ==
  IF slot[c].ended
  THEN /\ slot' = [slot EXCEPT ![c] = Done([@ EXCEPT !.sock = "none"])]
       /\ deferred' = ArmSweep(slot[c])
       /\ stack' = below
  ELSE /\ slot' = [slot EXCEPT ![c] = Tell([@ EXCEPT !.sock = "none"], "close")]
       /\ stack' = <<[fn |-> "close", slot |-> c]>> \o below
       /\ UNCHANGED deferred

\* Variant: the slot is retired when end() calls the close handler.
RetiresOn == {"close", "ended"}

Retires == {"close"}

HandlerReturn ==
  /\ ~Idle
  /\ Head(stack).fn \in {"open", "close", "ended"}
  /\ stack' = Tail(stack)
  /\ LET c == Head(stack).slot
     IN  IF Head(stack).fn \in Retires
         THEN slot' = [slot EXCEPT ![c] = Done(@)] /\ deferred' = ArmSweep(slot[c])
         ELSE UNCHANGED <<slot, deferred>>
  /\ UNCHANGED client

-----------------------------------------------------------------------------
(* Events of a request.                                                    *)

\* try_next: the first of the addresses left for which a socket can be made.
TryNext(c, k) ==
  \E left \in 0 .. k.addrs :
    IF left = 0 THEN ConnectError(c, DropResults(k), "fail")
    ELSE /\ slot' = [slot EXCEPT ![c] = [k EXCEPT !.addrs = left, !.sock = "semi"]]
         /\ UNCHANGED stack

\* The resolver answers, or reports that it was cancelled.
Resolved(c) ==
  /\ Idle
  /\ slot[c].gai
  /\ LET k == [slot[c] EXCEPT !.gai = FALSE]
     IN  IF k.req = "cancelled" THEN slot' = [slot EXCEPT ![c] = RequestFree(k)] /\ UNCHANGED stack
         ELSE \/ ConnectError(c, k, "fail")
              \/ \E n \in 1 .. MaxAddresses : TryNext(c, [k EXCEPT !.req = "connecting", !.addrs = n])
  /\ UNCHANGED <<deferred, client>>

\* Variant: the handshake has no deadline.
RearmedNever(k) == CloseTimer(k)

Rearmed(k) ==
  IF k.timer = "none" THEN k ELSE IF "handshake" \in k.deadline THEN [k EXCEPT !.timer = "armed"] ELSE CloseTimer(k)

\* on_open of the handshake context, with the first request on its way.
Opened(k) == [k EXCEPT !.sock = "dial", !.pend = FALSE, !.hd = k.pend, !.opened = "dial",
                       !.tunnel = k.proxy # "none"]

\* The attempt is connected or has failed.
Ready(c) ==
  /\ Idle
  /\ slot[c].sock = "semi"
  /\ LET k == slot[c]
     IN  \/ TryNext(c, [CloseConnecting(k) EXCEPT !.addrs = @ - 1])
         \/ /\ slot' = [slot EXCEPT ![c] = Opened(Rearmed(DropResults([k EXCEPT !.req = "handshaking"])))]
            /\ UNCHANGED stack
  /\ UNCHANGED <<deferred, client>>

Timer(c) ==
  /\ Idle
  /\ slot[c].timer = "armed"
  /\ LET k == [slot[c] EXCEPT !.timer = "idle"]
     IN  IF k.req = "handshaking"
         THEN EmitFailed(c, [k EXCEPT !.req = "done"], k.sock, "close", stack)
         ELSE ConnectError(c, k, "timer")
  /\ UNCHANGED <<deferred, client>>

-----------------------------------------------------------------------------
(* Events of a socket.                                                     *)

\* Variant: the plain context keeps its pointer to the user data.
ProxyStartTlsShares(k) ==
  LinkRequest(UnlinkRequest([k EXCEPT !.sock = "peer", !.opened = "peer", !.tunnel = FALSE,
                                      !.handler = "peer", !.user = @ \cup {"peer"}]), "peer")

\* The socket moves to the TLS context, with all that it has of the other one.
ProxyStartTls(k) ==
  LinkRequest(UnlinkRequest([k EXCEPT !.sock = "peer", !.opened = "peer", !.tunnel = FALSE,
                                      !.handler = "peer", !.user = {"peer"}]), "peer")

\* The answer to CONNECT arrives.
ProxyData(c) ==
  /\ Idle
  /\ slot[c].sock = "dial"
  /\ slot[c].tunnel
  /\ \/ EmitFailed(c, slot[c], "dial", "close", stack)
     \/ /\ slot' = [slot EXCEPT ![c] = IF @.proxy = "tls" THEN ProxyStartTls(@) ELSE [@ EXCEPT !.tunnel = FALSE]]
        /\ UNCHANGED stack
  /\ UNCHANGED <<deferred, client>>

AdoptToFrame(c, k) ==
  /\ slot' = [slot EXCEPT ![c] = Tell([Release(k) EXCEPT !.sock = "frame", !.opened = "none",
                                         !.user = @ \ {k.sock}, !.frees = @ + 1], "open")]
  /\ stack' = <<[fn |-> "open", slot |-> c]>> \o stack

\* The answer to the upgrade request arrives.
UpgradeData(c) ==
  /\ Idle
  /\ Handshaking(slot[c])
  /\ ~slot[c].tunnel
  /\ \/ EmitFailed(c, slot[c], slot[c].sock, "close", stack)
     \/ AdoptToFrame(c, slot[c])
  /\ UNCHANGED <<deferred, client>>

\* The peer ends or resets the connection, or TLS fails.
PeerCloses(c) ==
  /\ Idle
  /\ \/ Handshaking(slot[c]) /\ Closes(c, slot[c], stack) /\ UNCHANGED deferred
     \/ slot[c].sock = "frame" /\ FrameCloses(c, stack)
  /\ UNCHANGED client

-----------------------------------------------------------------------------
(* The application.                                                        *)

NewSlot(proxy, deadline) == [Unused EXCEPT !.state = "live", !.proxy = proxy, !.deadline = deadline]

\* us_socket_context_connect. One timer covers both phases.
StartRequest(k) ==
  LinkRequest([k EXCEPT !.req = "resolving", !.gai = TRUE,
                        !.timer = IF "connect" \in k.deadline THEN "armed" ELSE IF k.deadline # {} THEN "idle" ELSE "none"],
              "dial")

Pending(k) == [StartRequest(k) EXCEPT !.pend = TRUE, !.user = {"dial"}]

\* The request may fail to start, which the application is told later.
Connect(c) ==
  /\ Nests
  /\ client = "open"
  /\ slot[c].state = "unused"
  /\ \A d \in 1 .. c - 1 : slot[d].state # "unused"
  /\ \E proxy \in Proxies, deadline \in Deadlines :
       \/ /\ slot' = [slot EXCEPT ![c] = Pending(NewSlot(proxy, deadline))]
          /\ UNCHANGED deferred
       \/ /\ slot' = [slot EXCEPT ![c] = NewSlot(proxy, deadline)]
          /\ deferred' = Defer([do |-> "fail", slot |-> c])
  /\ UNCHANGED <<stack, client>>

CloseSocket(c) ==
  /\ Nests
  /\ slot[c].sock = "frame"
  /\ FrameCloses(c, stack)
  /\ UNCHANGED client

EndSocket(c) ==
  /\ Nests
  /\ slot[c].sock = "frame"
  /\ ~slot[c].ended
  /\ slot' = [slot EXCEPT ![c] = Tell([@ EXCEPT !.ended = TRUE], "close")]
  /\ stack' = <<[fn |-> "ended", slot |-> c]>> \o stack
  /\ UNCHANGED <<deferred, client>>

\* close(): its handlers may call it again.
CloseClient ==
  /\ Nests
  /\ client \in {"open", "closing"}
  /\ client' = "closing"
  /\ stack' = <<[fn |-> "closing", rest |-> {c \in Slots : slot[c].state \in {"live", "done"}}]>> \o stack
  /\ UNCHANGED <<slot, deferred>>

\* us_socket_context_close of the contexts of a slot, which have one socket.
CloseContexts(c, k, below) ==
  IF Handshaking(k) THEN Closes(c, k, below) /\ UNCHANGED deferred
  ELSE IF k.sock = "frame" THEN FrameCloses(c, below)
  ELSE /\ slot' = [slot EXCEPT ![c] = CloseConnecting(k)]
       /\ stack' = below
       /\ UNCHANGED deferred

\* The slots are closed in their order.
CloseNext ==
  /\ ~Idle
  /\ Head(stack).fn = "closing"
  /\ LET rest == Head(stack).rest
     IN  \/ /\ rest = {}
            /\ client' = "closed"
            /\ deferred' = Defer([do |-> "delete"])
            /\ stack' = Tail(stack)
            /\ UNCHANGED slot
         \/ /\ \E c \in rest :
                 /\ \A d \in rest : c <= d
                 /\ CloseContexts(c, Cancel(slot[c]), <<[fn |-> "closing", rest |-> rest \ {c}]>> \o Tail(stack))
            /\ UNCHANGED client

-----------------------------------------------------------------------------
(* The defer queue.                                                        *)

Wakeup ==
  /\ Idle
  /\ deferred # <<>>
  /\ stack' = <<[fn |-> "wakeup", rest |-> deferred]>>
  /\ deferred' = <<>>
  /\ UNCHANGED <<slot, client>>

\* Variant: the slot after one that is dropped is passed over.
SweepSkips ==
  slot' = [c \in Slots |-> IF slot[c].state = "done" /\ (c > 1 => slot[c - 1].state # "done") THEN FreeSlot(slot[c]) ELSE slot[c]]

Sweep == slot' = [c \in Slots |-> IF slot[c].state = "done" THEN FreeSlot(slot[c]) ELSE slot[c]]

Delete == slot' = [c \in Slots |-> IF slot[c].state \in {"live", "done"} THEN FreeSlot(slot[c]) ELSE slot[c]]

RunDeferred ==
  /\ ~Idle
  /\ Head(stack).fn = "wakeup"
  /\ LET rest  == Head(stack).rest
         item  == Head(rest)
         below == <<[fn |-> "wakeup", rest |-> Tail(rest)]>>
     IN  CASE rest = <<>> -> stack' = <<>> /\ UNCHANGED <<slot, client>>
           [] rest # <<>> /\ item.do = "sweep" -> Sweep /\ stack' = below /\ UNCHANGED client
           [] rest # <<>> /\ item.do = "delete" -> Delete /\ stack' = below /\ client' = "deleted"
           [] rest # <<>> /\ item.do = "fail" ->
                /\ IF client = "deleted"
                   THEN slot' = [slot EXCEPT ![item.slot].frees = @ + 1] /\ stack' = below
                   ELSE /\ slot' = [slot EXCEPT ![item.slot] = Tell(@, "failed")]
                        /\ stack' = <<[fn |-> "failed", slot |-> item.slot, ctx |-> "none", then |-> "deferred"]>> \o below
                /\ UNCHANGED client
  /\ UNCHANGED deferred

Init ==
  /\ slot = [c \in Slots |-> Unused]
  /\ stack = <<>>
  /\ deferred = <<>>
  /\ client = "open"

Library == FailedReturn \/ HandlerReturn \/ CloseNext \/ Wakeup \/ RunDeferred

Events(c) == Resolved(c) \/ Ready(c) \/ Timer(c) \/ ProxyData(c) \/ UpgradeData(c) \/ PeerCloses(c)

Application == CloseClient \/ \E c \in Slots : Connect(c) \/ CloseSocket(c) \/ EndSocket(c)

Next == Library \/ Application \/ \E c \in Slots : Events(c)

Spec == Init /\ [][Next]_vars

\* Handlers return, the defer queue is run, the resolver answers and timers fire.
FairSpec == Spec /\ WF_vars(Library) /\ \A c \in Slots : WF_vars(Resolved(c)) /\ WF_vars(Timer(c))

-----------------------------------------------------------------------------
(* Properties.                                                             *)

\* Each field has its type.
TypeOK ==
  /\ \A c \in Slots :
       LET k == slot[c]
       IN  /\ k.state \in {"unused", "live", "done", "freed"}
           /\ k.req \in {"none", "resolving", "connecting", "handshaking", "done", "cancelled", "freed"}
           /\ k.list \in {"none", "dial", "peer"} /\ k.opened \in {"none", "dial", "peer"}
           /\ k.timer \in {"none", "idle", "armed"}
           /\ k.sock \in {"none", "semi", "dial", "peer", "frame"}
           /\ k.addrs \in 0 .. MaxAddresses
           /\ k.notified \subseteq {"dial", "peer"} /\ k.user \subseteq {"dial", "peer"}
  /\ client \in {"open", "closing", "closed", "deleted"}

\* Whatever timers, resolver answers, handlers and closes meet: nothing points
\* to a request that has been freed, and none is left behind.
NoDanglingRequest ==
  \A c \in Slots :
    LET k == slot[c]
    IN  /\ k.req = "freed" =>
             /\ ~k.gai /\ ~k.pend /\ ~k.hd /\ k.list = "none" /\ k.timer = "none" /\ k.sock # "semi"
             /\ \A i \in DOMAIN stack : stack[i].fn = "failed" /\ stack[i].slot = c => stack[i].then \notin {"fail", "timer"}
        /\ k.state = "freed" => k.req \in {"none", "freed"} \/ (k.req = "cancelled" /\ k.gai)

\* A context that has been freed has no socket, no timer and no function waiting
\* for a handler, and its resolver calls are known to be cancelled.
NoDanglingContext ==
  \A c \in Slots :
    LET k == slot[c]
    IN  k.state = "freed" =>
          /\ k.sock = "none" /\ k.timer = "none" /\ (k.gai => k.req = "cancelled")
          /\ \A i \in DOMAIN stack : stack[i].fn \in {"failed", "open", "close", "ended"} => stack[i].slot # c

\* Nothing outlives what it points to, whichever of the timer, the resolver, a
\* handler or close() comes last (connect.c:244, ClientApp.h:496).
NoDangling == TypeOK /\ NoDanglingRequest /\ NoDanglingContext

\* The user data of a connect is freed once, and when its slot is gone at the
\* latest.
UserDataFreedOnce ==
  \A c \in Slots :
    /\ slot[c].frees <= 1
    /\ slot[c].state = "freed" => slot[c].frees = 1

\* Connects are answered as the abstract specification says.
Status(k) ==
  IF k.state = "unused" THEN "unused"
  ELSE CASE k.told = <<>> -> IF k.state = "freed" \/ k.req \in {"cancelled", "freed"} THEN "cancelled" ELSE "pending"
         [] k.told = <<"open">> -> "open"
         [] k.told = <<"failed">> -> "failed"
         [] k.told = <<"open", "close">> -> "closed"
         [] OTHER -> "wrong"

Abstract == INSTANCE Connects WITH
  status <- [c \in Slots |-> Status(slot[c])],
  closed <- client # "open"

ImplementsConnects == Abstract!Spec

\* With both timeouts set every connect is answered, unless the client is closed.
Answered ==
  \A c \in Slots : slot[c].state = "live" /\ slot[c].deadline = {"connect", "handshake"}
                     ~> slot[c].told # <<>> \/ client # "open"

\* What has failed or closed is freed, and a closed client is.
Freed ==
  /\ \A c \in Slots : slot[c].state = "done" ~> slot[c].state = "freed"
  /\ client # "open" ~> \A c \in Slots : slot[c].state \in {"unused", "freed"}

=============================================================================
