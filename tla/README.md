# Verification of esportsplus/uws

TLA+ models of the native part of this repository (`src/native`), the TLC
configurations that check them and the theorems TLAPS proves about them.  The
repository is a Node.js addon around a fork of µWebSockets and µSockets: an
HTTP and WebSocket server, an outbound WebSocket client, publish/subscribe and
TLS, all on one libuv loop.

## 1. Inventory

One thread runs everything except `Loop::defer` and the resolver.  The hard
behaviour is therefore seldom parallelism; it is *re-entry* (a library function
calls the application, which calls back into the structure being walked),
*partial results* (the kernel takes any prefix of a write, a read ends
anywhere), *late events* (timers, resolver answers, polls that fire after their
owner has gone), and *deferred effects* (frees and calls queued for later).

| Component (source) | State | Operations | What is hard |
|---|---|---|---|
| TopicTree (`uwebsockets/TopicTree.h`) | topics and their members, per subscriber an index array into one shared queue, linked list of drainable subscribers, deferral queues, nesting depth | subscribe, unsubscribe, publish, publishBig, drain, freeSubscriber, numSubscribers | the drain callback runs application code in the middle of every operation |
| Outgoing path (`AsyncSocket.h`, `AsyncSocketData.h`, send and end of `WebSocket.h`, `WebSocketContext.h`, `usockets/socket.c`, `loop.c`) | one cork buffer per loop, per socket a backpressure buffer, poll events, shutdown flags | write, cork, uncork, getSendBuffer, send, end, on_writable, on_data, timeouts | order of bytes over three buffers, FIN only after the last byte, polling for writable exactly while needed |
| Connect requests (`usockets/connect.c`, `context.c`) | a request with its state, the addresses left, the attempt's socket, a timer | connect, resolver answer, attempt ready, timer, cancel, rebind, orphan, release | resolver answers, timer and socket events race each other and the free of their context |
| Client (`ClientApp.h`, `WebSocketClientContext.h`, `WebSocketClientHandshake.h`) | slots of connects, handshake buffer | connect, close, handshake events | close() while anything is in progress |
| Loop (`Loop.h`, `LoopData.h`) | two defer queues and the current one, handler maps | defer, wakeup, pre/post handlers | other threads defer while a queue is being run |
| Sockets of a loop (`loop.c`, `context.c`, `socket.c`) | lists of contexts, sockets, low-priority and closed sockets, timeout ticks, paused listen sockets | link, unlink, close, adopt, sweep, pause | iterators that handlers may move |
| libuv glue (`eventing/libuv.c`, `bsd.c`) | poll and timer handles | start, change, resize, stop, free | free and libuv's close callback in either order |
| TLS (`crypto/openssl.c`, `sni_tree.cpp`) | per loop and socket handshake state | read, write, shutdown, SNI lookup | retries with the same arguments, shutdown in two halves |
| HTTP connection (`HttpContext.h`, `HttpResponse.h`, ...) | response state bits, offsets, handlers | on_data, write, end, tryEnd, upgrade, on_writable | pipelining, late answers, upgrade in the parse |
| HTTP parser (`HttpParser.h`, `ChunkedEncoding.h`, ...) | fallback buffer, remaining length | consumePostPadded, chunk decoding | any split of the input |
| HTTP router (`HttpRouter.h`) | tree of path segments | add, remove, route | priorities and wildcards |
| WebSocket receive path (`WebSocketProtocol.h`, `PerMessageDeflate.h`, ...) | frame state, fragment buffer | consume, handleFragment | control frames between fragments |
| App (`App.h`) | contexts, routes, the TopicTree | ws, publish, listen, close | order of teardown |
| Addon (`addon/*`) | JavaScript handles and their native pointers | one wrapper per call | invalidation of handles |

`PROJECT.json` lists the hazards of each at its line, with the properties that
cover them or the reason why none does yet.

## 2. Modules and plan

| Modules | Models | Abstract specification | State |
|---|---|---|---|
| `TopicTree`, `TopicTreeMC`, `TopicTreeProofs`, `TopicTreePointerProofs`, `TopicTreeOrderProofs` | publish/subscribe (section 3) | `Mailboxes` | checked, safety and refinement proved |
| `AsyncSocket`, `WebSocketSend`, `WebSocketSendMC`, `AsyncSocketProofs`, `WebSocketSendProofs` | the outgoing path of a WebSocket (4) | `ByteStreams` | checked, safety and refinement proved |
| `SocketLoop`, `SocketLoopMC`, `SocketLoopProofs` | the lists, timeouts and queues of the loop (5) | | checked, all safety properties proved |
| `ClientConnect`, `ClientConnectMC`, `ClientConnectProofs` | connect requests, opening handshake, slots and close() of the client (6) | `Connects` | checked, safety proved |
| `HttpConnection`, `HttpConnectionMC`, `HttpConnectionProofs` | the life of HTTP connections and of the handles JavaScript holds (7) | `Exchanges` | checked, all properties proved |
| `HttpParser` | request heads, bodies and collectBody, over any reads (8) | a function of the messages | checked |
| `HttpRouter`, `HttpRouterMC` | registration, removal and routing (9) | a reference definition | checked |
| `WebSocketReceive`, `WebSocketReceiveMC` | frames over any reads, as server and client (10) | a function of the frames | checked |

Where the modules meet: the drains and batches of `WebSocketSend` are what
`TopicTree` decides; `HttpConnection` takes from `AsyncSocket` what a write may
come to (sent, corked or buffered); `WebSocketReceive` ends where the handlers
of `WebSocketSend` begin; `ClientConnect` ends where the socket of an opened
connect is one of `WebSocketSend`; the listener and timeout events of all of
them are those of `SocketLoop`.

`HttpParser`, `HttpRouter` and `WebSocketReceive` are trees and sequences
defined by recursion, which the prover cannot reason about: they stay with TLC.

## 3. TopicTree

`TopicTree.tla` models `TopicTree.h` together with the three callers that give
it its re-entry: the drain callback of `App.h`, `WebSocket::send` and
`WebSocket::end`.

- **Stack.** The C++ call stack is the variable `stack`, newest frame first.  A
  frame is a record naming the function, its arguments and its local state: what
  `drainImpl` still has to send (`left`), the saved `next` of `drain()` (`cur`),
  the members a publish has not visited (`todo`), the position of `applyPending`
  (`op`).  Application code runs when the stack is empty or when a `dropped`
  frame is on top; a step is the code from one such point to the next.
- **State.** `topicsOf` is `Subscriber::topics`, `members` the `unordered_set` a
  `Topic` is, `indices` the used part of `messageIndices`; `prev`, `next` and
  `drainable` the linked list; `outgoing` is `outgoingMessages`; `pendingOps`,
  `pendingFree`, `pending`, `applying`, `drainingDepth`, `iteratingTopic` are the
  fields of those names.  `full` is the set of WebSockets over
  `maxBackpressure`: a write may put a socket into it, a writable event or the
  uncork at the end of a drain may take it out.
- **Abstractions.** Messages are the position of their call in call order.
  Freed `Subscriber`s stay `doomed` until `freePendingSubscribers`, and their
  address may be allocated again afterwards.  Undefined behaviour (a read past
  the queue, an iteration over a deleted topic) sets `fault` and ends the
  behaviour.  `end` in a socket with waiting messages drains them without a
  dropped handler, because `isShuttingDown` is set: one step.
- **Not modelled.** `iterateTopics` (no application code runs in it), the
  subscription and close handlers of `on_close` (they run application code
  before the free; the free itself is `Close`), compression, message contents.

`Mailboxes.tla` is what the TopicTree promises: one FIFO mailbox per WebSocket,
into which a publish puts a message, from which messages are taken in order, and
which can be given up as a whole.  The members of a topic are visited one by one
there too; the message under way is the variable `current`, so that a box can
only be given the message being published.  `ImplementsMailboxes` maps the shared queue,
the index arrays and the interrupted drains to it.

### Runs

`Applications` is a set of applications, each the set of calls it makes in its
dropped handlers; a behaviour picks one in `Init` (`handlerCalls`).  Outside of
handlers every application may do everything.

| Run | Handlers | Bounds | Checks |
|---|---|---|---|
| TopicTreeHandlers | subscribe, unsubscribe, close; subscribe, unsubscribe, publish; publish, close | 2 subscribers, 2 topics, 1 index, 2 calls | TypeOK, NoDanglingPointer, AtRest, Coherent, TopicPinned, ImplementsMailboxes |
| TopicTreeLive | publish; subscribe | 2 subscribers, 2 topics, 1 index, queue of 1, 2 calls | DeliveredInCallOrder, EverythingDrained |

`MaxIndices` is 32 in the code and `MaxOutgoing` 65535; a capacity of one
makes the overflow paths happen within two calls, which no test of the
repository does.  Two subscribers give a list with a head and a rest.
`MaxDeferred` and `MaxHandlers` bound the length of `pendingOps` and
the nesting of handlers; two of each lets a deferred call meet another.  Both
runs check for deadlock, so neither runs into undefined behaviour
(`fault`, after which there is no step).  `Coherent` says two things: what a
WebSocket lists as its topics and what the topics have as members agree, and
`numSubscribers` counts those who are still to be called.

### Where the code departs from what it documents

The runs leave out the handlers that lead into these.  Each shows within
a minute when the property is checked with the bounds given here (one topic,
`MaxIndices = 1` unless said otherwise):

| Property | Bounds | What happens |
|---|---|---|
| Coherent, NoDanglingPointer | 1 subscriber, 2 topics, 3 calls, handler subscribes, unsubscribes, publishes | calls that have to wait are made "in call order" (types.ts:313), but a deferred unsubscribe is applied after a later subscribe that needed no deferral (TopicTree.h:252); the topic may be gone by then |
| QueueReadInRange | 2 subscribers, 2 calls, handler ends | the index of a message is handed out before the message is in the queue (TopicTree.h:360); a drain in between reads past its end |
| ImplementsMailboxes, DeliveredInCallOrder | 2 subscribers, handlers send and close, 2 nested handlers | a send in the handler of a handler overtakes what the interrupted drain still has to send |
| ImplementsMailboxes | 1 subscriber, 1 topic, 2 indices, 4 calls, handler publishes | a send drains first; a publish deferred in that drain is applied at its end and enters the mailbox before the send that started the drain is written |
| DeliveredInCallOrder | the same, 6 calls, 3 deferred | such a WebSocket is sent 1, 4, 5 and then 3 |
| TopicOutlivesPublish | 1 subscriber, queue of 1, 2 calls, handler unsubscribes | publish drains the full queue between looking the topic up and iterating it (TopicTree.h:348); the handler of that drain empties the topic, which is deleted |
| DeliveredInCallOrder | 2 subscribers, queue of 1, 3 calls, handler publishes | a publish deferred in that same drain is applied at its end, before the publish that started the drain has queued its message |
| QueueEmptied | 1 subscriber, queue of 2, 2 calls | the last drainable subscriber closes; `drain` returns at once on an empty list (TopicTree.h:301) and the queue keeps its messages over loop iterations |
| ImplementsMailboxes | 1 subscriber, queue of 1, 2 indices, 3 calls, handler subscribes | such a queue outgrows UINT16_MAX, the index wraps, and a subscriber is sent an old message in place of the new one |
| CountsOpenSockets | 2 subscribers, 2 calls, handler closes | numSubscribers still counts a socket whose free is deferred |

### Fairness

`TopicTreeLive` assumes that library steps follow one another (one thread runs
them), that application handlers return (strong fairness: between two handlers
others may run), and that the loop reaches its pre and post handlers again and
again (strong fairness: it does so only when no handler is running).

### Proofs

`TopicTreeProofs.tla` proves for every number of subscribers, topics, indices,
calls and nested handlers:

- `TypesHold`: `Spec => []TypeOK`.  With it, `drainingDepth` never goes below
  zero, and no index array overflows.
- `RestHolds`: `Spec => []AtRest`: an empty call stack means that every deferred
  call and free has been applied and every flag is back.
- `PinHolds`: `Spec => TopicPinned`: the set a publish iterates is not changed
  while it is iterated.

`TypeOK` is not inductive: that a decrement stays in `Nat` depends on the stack.
`IInv` adds `StackInv` (`drainingDepth` is the number of frames that count in
it, `applying` holds exactly while an `apply` frame is on the stack, under which
no frame counts, and `iteratingTopic` is only set inside a publish), `DeferInv`
(something is queued only while `pending` is set, and only while a section
will apply it) and `PinnedInv` (the topic being iterated is in the tree).  The lemmas
before the invariant say how pushing and popping a frame change the counts; the
proof has one step per action.

`TopicTreePointerProofs.tla` proves the data structures sound, again for every
value of the constants, for applications that do not make all three of
subscribe, unsubscribe and publish in their dropped handlers (`KeepsOrder`; the
first row of the table above is why it is needed.  The second application of
`TopicTreeHandlers` is one of those it leaves out, and is only checked up to the two
calls of that run, one short of the failure):

- `NothingDangles`: `Spec => []NoDanglingPointer`.
- `CallsCohere`: `Spec => []Coherent`.

Their invariant is `PointerInv`, inductive together with `IInv`:

- `Grounded`: `apply`, `publishStart`, `publish`, `publishBig` and `drainAll` frames
  have no draining section under them.  So there is at most one walk over the
  list at a time, and nothing is deleted during one.
- `ListInv`: the drainable list.  While `drain()` walks it, its links are not those
  of a list: a callback unlinks what the walk has emptied but not unlinked, and
  later entries point back at elements that left.  What stays true is an order: there
  is a rank of the subscribers such that a link never leads back and never past one
  that still needs drainage, and neither does the saved cursor.  `LinkExact` and
  `UnlinkExact` prove this of the two operations.  Outside of walks the list is
  exactly the subscribers with indices.
- `FreedInv`, `VisitInv`: a closed subscriber is queued for deletion once, has no
  indices, and what a publish has still to visit is allocated.
- `MemberInv`: for each pair of subscriber and topic the deferred calls
  alternate, from what `members` says to what `topicsOf` says.  Agreement in
  every state follows; without the alternation a single application of a
  deferred call would not keep it.
- `QueueInv`, `AppliedInv`, `CallsInv`: deferred calls name subscribers and topics that
  exist, what `applyPending` has passed is applied, and a subscribe or unsubscribe
  only waits for a publish of its own topic unless the handlers also publish.  The last is
  where `KeepsOrder` enters: a call that is not deferred then finds no deferred
  one on its pair (`NotDeferred`).
- `CountsSubscribers` itself, one element at a time.

`TopicTreeOrderProofs.tla` proves what a WebSocket is sent, for every number of
subscribers, topics, indices, calls and nested handlers:

- `WrittenInOrder`: `Spec /\ []QueueFits => []DeliveredInCallOrder`.
- `MailboxesImplemented`: `Spec /\ []QueueFits => ImplementsMailboxes`: every step of
  TopicTree is a step of `Mailboxes` or changes no mailbox.
- `FewCallsInOrder`: both without `QueueFits` for an application that makes fewer calls
  than the indices can count.

Two things are assumed, and each is needed: the table above has the behaviours
that refute the theorems without it.  `SendsOutside`: handlers close, end and
subscribe, but what is published and sent comes from event handlers.
`QueueFits`: `outgoingMessages` has not outgrown its uint16_t indices.  The queue is
drained when it is full, but `drain` does nothing when the last drainable
subscriber has closed, so this is a condition on the behaviour and not on the state
of a call.  `FewCallsFit` shows that it holds of every behaviour
with `MaxCalls < MaxOutgoing`.  The application {publish, close} of
`TopicTreeHandlers` and {publish} of `TopicTreeLive` are not among those of the
theorems: these runs stay below the number of calls and indices at which order is lost.

Call order is not inductive, because neither the queue nor the indices say which message
is newer.  `OrderInv` does:

- `LeftInv`: only the newest frame has messages left to write, and to a subscriber without
  indices.  So no subscriber has two lists waiting for it.
- `CallInv`: at most one call is under way to a subscriber (`Apart`: the sets of those
  that the frames still have to reach are disjoint), it is the last one, and newer
  than all that is in the queue or was written to those it still has to reach; a
  send under way has nothing waiting in front of it.
- `BoxInv`: the indices of a subscriber increase and refer to messages newer than
  those it was given, or to the one being published, which has no place in the queue yet.
- `MessagesInv`: the queue increases, and so does what each WebSocket was sent.

Most steps begin no call, write nothing and hand out no index.  They are proved together:
`Restacked` says how such a step may change the stack, `Fewest` that indices and the queue
stay or go as a whole, and `KeptOrder` that both keep the invariant.  The same
two give most of the refinement (`QuietMail`): the mailbox of a subscriber is what
`HeldIn` finds, the indices or what the newest frame has left of them,
and a drain that begins only moves them from the one to the other.

## 4. The outgoing path

`AsyncSocket.tla` models what lies between a frame and the kernel: the cork
buffer, one per loop and lent to one socket at a time, the backpressure buffer
of each socket, and the poll events and flags of `usockets`.  Its operators map
the record `io` of this state to the set of outcomes, because the kernel takes
any prefix of what it is given.  `WebSocketSend.tla` is the machine on top:
`send`, `end`, `cork` and `close`, the drain callback of the TopicTree, and the
data, writable, timeout and close events.

- **State.** `io.wire` is what the kernel has taken (history), `io.buffer` and
  `io.removed` are `BackPressure`, `io.cork` and `io.corked` are
  `corkBuffer[0..corkOffset)` and `corkedSocket`, `io.polls` the sockets polled
  for writable, `io.shut` those with FIN sent, `io.failed` is
  `last_write_failed`; `ending` is `isShuttingDown`, `timedOut` `hasTimedOut`,
  `needsUncork` the flag the drain callback captures.  A byte is named by its
  socket and its position in what was sent there.
- **Stack.** As in TopicTree: a frame per function that waits for application
  code (`consume`, `cork`, `writable`, `dropped`) or for a drain (`send`, `end`,
  `batch`).  How many published messages wait for a socket is chosen when a
  drain starts: the TopicTree model covers which ones.  The call `drain` stands
  for a send or an end in a handler that finds such messages in front of it.
- **Timers and peers.** A timeout may fire at any moment between events; a FIN
  or an error of the peer is `Close` at any such moment.
- **Not modelled.** TLS writes; the optional and the corked branch of
  `AsyncSocket::write`, which only HTTP responses take; masks and compression
  (they change bytes, not where they go); backpressure inherited from the HTTP
  upgrade; pause and resume.  `closeOnBackpressureLimit` shuts the read side
  down, after which the FIN the loop sees is that of `Close`.

`ByteStreams.tla` is the promise: accepted bytes reach the wire in order and
once, and the stream ends after the last of them.  `ImplementsStreams` maps
buffer and cork to what is unsent.

### Runs

| Run | Bounds | Checks |
|---|---|---|
| WebSocketSendBatches | 2 subscribers, batches of 2, maxBackpressure 1, cork buffer of 3, 4 bytes each, 3 frames | BytesAccounted, CorkKept, BackpressurePolled, NothingAfterEnd |
| WebSocketSendLive | 2 subscribers, batches of 2, no limit, cork buffer of 2, 3 bytes each, 1 frame | ImplementsStreams, EndedFinishes |

`BytesAccounted` says that bytes leave in order and once and that
`getBufferedAmount` tells how many wait; `CorkKept` that the one cork buffer is
given back, and that nobody's bytes are in a cork lent to another socket.

`CorkSize` is 16384 in the code and 2 or 3 here: three lets two short frames
share the cork buffer and a third one overflow it.  `EraseShare` is 32 in the
code and 2 here, so that a part of the removed bytes is both kept and cut.
Frames are of one byte (a header) or the size of the cork buffer and a header (a
long message); three or four bytes per socket let the three places a byte can be
in be occupied at once.  `MaxFrames` bounds how deep handlers nest.
`CorkCalls`, `DrainCalls` and `DroppedCalls` say what the application calls in
its handlers; the runs leave out what leads into the departures below.

Deadlock is not checked: all sockets may have closed.

### Where the code departs from what it documents

Each shows within a minute when the property is checked with the change given:

| Property | Change | What happens |
|---|---|---|
| FinLast | WebSocketSendLive with maxBackpressure 1 | `end` takes the result of its `send` for a bool; DROPPED is 2, so the FIN goes out in front of the backpressure (WebSocket.h:224, :229) |
| FinFollowsEnd | WebSocketSendLive, the cork callback ends | a corked close frame that is uncorked into backpressure is never followed by a FIN (WebSocket.h:279) |
| BackpressurePolled | 1 socket, no subscribers, no limit, cork buffer of 2, long messages only, 6 bytes, 2 frames, the drain handler sends one | `us_socket_write2` polls after a short write but, unlike `us_socket_write`, does not set `last_write_failed` (socket.c:149); the loop stops polling when the drain handler returns, and the backpressure of types.ts:289 never drains |
| CorkHolds | WebSocketSendBatches without a limit | `needsUncork` is not reset after the last message of a batch (App.h:367), so a later drain uncorks a socket the application has corked |
| NoUseAfterClose | 1 subscriber, maxBackpressure 1, 5 bytes, the dropped handler closes | send goes on after its drain (WebSocket.h:148) with a socket whose data that drain's handler has destroyed |
| NothingAfterEnd | the same, the dropped handler ends | the message is sent behind the close frame |
| CorkReleased | WebSocketSendBatches with short messages only, dropped handlers end a socket with published messages in front (`end`, `drain`), no other calls in handlers, 5 frames | all subscribers share `needsUncork` (App.h:338); a dropped handler that ends or sends to another subscriber starts its drain (WebSocket.h:148), and if that one drops a message too it clears the flag (App.h:357), so the outer drain keeps the cork buffer and the loop terminates the process (Loop.h:62) |

### Fairness

`WebSocketSendLive` assumes that library steps follow one another, that handlers
return, and that a socket which is polled again and again is reported writable
and then takes at least one byte: the peer keeps reading.  It must be strong
fairness, because the loop reports nothing while a handler runs.  Nothing is
assumed of timeouts, of the peer's FIN or of the application; the run has one
frame because handlers nested in handlers could keep the stack busy for ever.

### Proofs

`AsyncSocketProofs.tla` has the lemmas about one call of `AsyncSocket`, for any
prefix the kernel takes and any sizes: what `Written`, `Erase`, `Buffered`,
`Write`, `Uncork` and `Place` do to the stream of the socket they are
called on, that they leave the other sockets alone, and what they leave polled.
`WebSocketSendProofs.tla` puts them together for every number of sockets, any
sizes and bounds, and any depth of handlers.  A theorem excludes only the calls
that lead to its row of the table above; all others may be made anywhere.

| Theorem | Property | Hypothesis |
|---|---|---|
| AmountsCount | TypeOK, BufferedAmountClose | |
| BytesAreAccounted | BytesAccounted | dropped handlers start no other drain (`NoNestedDrain`) |
| CorkIsKept | CorkKept | the same |
| BackpressureIsPolled | BackpressurePolled | drain handlers send no long message (`NoLongInDrain`) |
| EndIsLast | NothingAfterEnd | dropped handlers end nobody (`NoEndInDrop`) |
| StreamsImplemented | ImplementsStreams | maxBackpressure is 0 |

The hypotheses on dropped handlers hold of themselves without a limit.  A nested
drain breaks `BytesAccounted` as well, because a socket that keeps the cork
buffer has bytes there that a later ping goes past.  `ImplementsStreams`
is about FIN too, which a limit lets go in front of what waits (`FinLast`).

None of these is inductive: each depends on who is waiting below on the stack.
`IInv` has two parts.  `Good` is about the sockets:
the wire, the buffer and the cork of an open socket are together exactly what it
has sent; what a socket alone has to write is polled for; nothing is in a cork
that nobody has.  `Stacked` is about the functions on the stack.  `Nested` says which
may be above which: events at the bottom, a dropped handler right on the batch
that called it, a batch on the `send` or `end` that waits for it.  `Fits` says
what each waits with: an `end` for a socket that is ending, a batch with messages
to go for one that is not or whose `end` is below, a drain handler for a socket
whose failed write the loop will see.  `Lent` says that whoever has the cork
buffer has a frame that will give it back, where for a batch that depends on
`needsUncork`; and since that is one flag, `OneBatch` says that one drain is
under way at most, which is what the nested drain breaks.

## 5. The sockets of a loop

`SocketLoop.tla` models `loop.c`, `context.c`, `socket.c` and the part of
`eventing/libuv.c` that frees polls.  An element of `Sockets` is an address; the
record `l` holds `prev` and `next` of each, the heads of the lists, and the
counters, so that lists are walked and spliced as in the code.

- **Control.** `phase` is the position in an iteration of libuv: `Prepare`
  (with the low-priority queue), poll callbacks, `Check` (which frees closed
  sockets), setImmediate callbacks, close callbacks, timers.  The sweep is a
  timer in steps: `at` is the context and the socket it is at, and between two
  steps the timeout handler does whatever the application does.
- **Operations.** Open, readable (with the queue for sockets that begin with a
  TLS handshake), close, adopt into another context (the socket may move to a
  new address), set a short and a long timeout, listen, pause and resume a listen
  socket, close a context.
- **Addresses.** A freed address may be allocated again at once: an iterator or
  a queue that still has it is caught by `ListsWellFormed`.
- **Not modelled.** Contexts come with the program and are never freed here
  (section 6 frees them); connecting sockets are in section 6; TLS appears as the
  condition that puts a socket into the queue.

| Run | Bounds | Checks |
|---|---|---|
| SocketLoopSweep | 3 sockets, 2 contexts, timeouts of 1 and 2 ticks and 1 long tick, counters modulo 3, 2 ticks per long tick | SweepSound, FiresWhenDue |
| SocketLoopQueue | 2 sockets, 1 context, budget of 1, 1 listen socket at a time, 2 pauses, setImmediate | ListsSound, Polled, LeaksOnlyLate, QueueServed |

Counters are modulo 240 in the code with 15 ticks per long tick; modulo 3 they
wrap while timeouts are pending (SocketLoopQueue, which is not about timeouts,
has them stand still at modulo 1).  Three sockets give the sweep one before, one
at and one behind its cursor.  A budget of one (five in the code) makes sockets
wait as soon as there are two.  The queue is LIFO, so `QueueServed` only
promises progress if from some time on nobody new comes.

**Fairness.** libuv goes on iterating and handlers return: weak fairness of the
steps of an iteration.  The accept timer is only looked at in one phase, so it
needs strong fairness.

| Property | Bounds | Departure |
|---|---|---|
| FiresWhenDue | SocketLoopSweep with 1 socket, 1 context, long timeouts of 3 only | a long timeout of a whole turn (240 minutes) equals the present counter and fires at the next tick: ClientApp.h:421 caps maxLifetime at 240, where AppWrapper.h:266 caps it at 239 to avoid just that |
| FiresWhenDue | SocketLoopSweep with 2 sockets, 1 context, short timeouts of 1 and 3 only | a timeout of a whole turn (960 s), set by a timeout handler on a socket that the sweep has yet to reach, fires at once |

Two more are in the model and the properties say so: a socket that is closed in
a setImmediate callback is marked for freeing after our check callback and before
the close callbacks, and leaks (libuv.c:45 and :69; `LeaksOnlyLate`); a socket
that is in the low-priority queue when its timeout is due waits for a full turn
of the counter (`missed` in `NoTimeoutSkipped`).

### Proofs

`SocketLoopProofs` proves the four invariants of the runs and `FiresWhenDue` for
any number of sockets and contexts, any counters, budget and bounds
(`SocketLoopAssumption`: addresses, contexts and null are different things, there
are finitely many addresses, and the counters have at least one value).
`FiresWhenDue` has one hypothesis more, `LessThanATurn`: the timeouts that the
application sets are shorter than a turn of the counters, 240 in the code.  It
is the condition under which the runs check it, and the table above shows what
happens without it.

| Theorem | States |
|---|---|
| `Inductive` | `LoopInv`, the inductive invariant |
| `ListsStaySound` | `ListsSound` |
| `PolledWhenOpen` | `Polled` |
| `OnlyLateLeaks` | `LeaksOnlyLate` |
| `SweepStaysSound` | `SweepSound` |
| `FiresInTime` | `FiresWhenDue`, under `LessThanATurn` |

`ListsSound` walks a list and counts what it finds; no step can be shown to keep
that from itself alone, for a list that is spliced says nothing about where a
walk of it ends.  `LoopInv` says it locally, in three parts:

- `Threads(m, w, r)`: `w` places every socket in one list or in none, and is read
  off the record (`Placed`: kind, closed mark, `low_prio_state`, context).  `r`
  ranks the sockets: `next` leads to the next lower rank of the same list, `prev`
  is its inverse, the head has the highest.  `Link` gives the new head a rank above all
  (`ThreadsPushed`); `Unlink` leaves the ranks of the others (`ThreadsRemoved`),
  whichever of its branches is taken: `prev == next` alone decides that the list
  is now empty, which is right because both are null only in a list of one.
- `Walk`: outside of the sweep there is no cursor.  Within it the cursor is the
  socket the handler is called for, or the next one if that went away, or null,
  always in the list of `at.ctx`; the sockets from the cursor down in rank are still
  to be visited, and only they may have a timeout that is due, but for the
  one whose handler runs.  A countdown and the counter the
  timeout is compared with agree modulo the width of the counter (`TickAligns`,
  for both, across the long tick).
- `Records`: what kind, `low_prio_state`, polling, handle and the closed mark of
  one socket may be together, given the phase of the loop and what is paused.  Under
  `LessThanATurn` it also bounds what remains of a timeout that is set (`InTime`), so
  that a countdown which agrees with the counter modulo its width is over
  (`DueIsDue`).

Each operation is first shown to move one socket and leave the rest
(`Shifts`: `CloseShifts`, `RequeueShifts`, `AdoptShifts`; `Fires` and `TickTo` for the
sweep), then that much is shown to keep the three parts, so the cases of `Next` (`NextInv`)
only put pieces together.  `WholeList` leads back from ranks to `Chain`: falling
ranks are distinct sockets, so the walk ends at null after as many steps as the
list has members.

## 6. Outbound connects

`ClientConnect.tla` models a connect from `ClientApp::connect` to the end of its
slot: the request of `connect.c` (resolver, addresses, attempts, timer, cancel,
rebind, release, orphan), the opening handshake of `WebSocketClientContext.h`
with proxies (a plain or TLS tunnel, after which the socket is adopted into the
context of the next phase), the defer queue of `Loop.h` through which slots are
swept and synchronous failures reported, and `close()` and the deletion of
`ClientAppWrapper.h`.

- **Pointers** are fields: `pend` and `hd` are the two owners of a request,
  `list` the context that lists it, `gai` the resolver call that will come back.
- **Stack.** A frame per library function that waits for a handler: what
  `connect_fail`, `connect_timer_cb`, the handshake, the close walk or the
  deferred calls do after the application returns.
- **Data.** Whether a response is a valid one is a choice of outcome;
  URLs, headers and options are left out.
- **Not modelled.** Teardown of the environment without `close()`.  The orphan
  branch is modelled, though no call of `ClientApp` was seen to reach it.

`Connects.tla` is the promise: each connect is answered at most once, only what
opened closes, and nothing starts or opens once the client is closed.

| Run | Bounds | Checks |
|---|---|---|
| ClientConnect | 2 connects, 2 addresses, 3 nested handlers; no, plain and TLS proxies; with and without a handshake deadline | NoDangling, UserDataFreedOnce, ImplementsConnects, Answered, Freed |

Two connects let the handlers of one start, close or delete the other; two
addresses give a first, a next and a last attempt.  Deadlock is not checked: all
connects may be over.

**Fairness.** Handlers return and deferred calls are run (weak fairness of the
library), the resolver answers, and an armed timer fires.  Nothing is assumed of
peers: `Answered` is about connects with both deadlines.

**Departure.** A connect that fails synchronously is still told `failed` with
URL_INVALID from the defer queue, even after `close()`, where types.ts:64 rules
such a call out.  The model has it (`RunDeferred`, "fail"), and `Connects`
allows it: `Fail` does not ask whether the client is closed.

### Proofs

`ClientConnectProofs.tla` proves for every number of connects, addresses and
nested handlers, any proxies and any deadlines:

- `NothingDangles`: `Spec => []NoDangling`.  When a request or a context is
  freed, every owner, list, timer, resolver call and function on the stack has
  forgotten it.
- `FreedOnce`: `Spec => []UserDataFreedOnce`.
- `AnswersImplement`: `Spec => ImplementsConnects`, step by step.

Neither property is inductive, because each speaks of pairs of fields that
several functions take apart one by one.  `IInv` says instead what a connect may
look like as a whole.  At any moment it is in one of eight phases (`Steady`:
untouched, waiting in the defer queue, resolving, connecting, shaking hands,
framed, cancelled, over), each of which lists who owns its request, what its timer and
socket are, who holds its user data and what the application has been told;
only while its `failed` handler runs it is in what the function that
called the handler has left (`Failing`, by what that function does next).  Around
this are:

- `Nested`: `failed` runs once at a time for a connect, though the handlers of
  several connects may be nested; `wakeup` is at the bottom of the stack.
- `Handled`: a handler only runs for a slot that has not been freed, and the one
  after which the slot is retired for a connect that is over.
- `Closing`: what the walk of `close()` has passed can neither connect nor open
  any more, and the client is only deleted when every slot has been freed.
- `Queues`, `Waits`: a connect that could not be started is in the defer queue
  exactly once, in front of the deletion of the client, in the queue or in the part
  `wakeup` took out of it.

## 7. HTTP connections

`HttpConnection.tla` models `HttpContext.h`, `HttpResponse.h` and
`HttpResponseData.h` with the handles of `HttpResponseWrapper.h` and the `close`
of `App.h` and `AppWrapper.h`.

- **Stack.** `read` frames are `on_data`; `request`, `data`, `writable`,
  `aborted`, `cork` and `open` frames are handlers, in which the application makes
  any call on any response it holds, of any connection, also in nested handlers;
  `appClose` walks the sockets.
- **State.** `sock` has the poll, the timeout, the state bits, the offsets and the
  handlers of `HttpResponseData`; `handles` are the JavaScript objects that have
  not been invalidated; `loop` has the cork and the fields by which the parser
  learns what a handler did.
- **Bytes** are left out: a write fits the cork buffer, is taken, or leaves
  backpressure; a body is `BodySize` units of which tryEnd is given some and
  writes some.  `end` is given what is left of the body or nothing,
  `endWithoutBody` reports a length or none.  `AfterWrites` is the end of
  `internalEnd`, with the two conditions it has: a timeout is for a response whose
  offset is the total size (HttpResponse.h:183), done is also one that was given
  no data (HttpResponse.h:191).
- **pause and resume** save and restore the poll (`saved`).  resume does not ask
  for a pause before it (AsyncSocket.h:53): one that is not paused takes the poll
  that was saved last, which is none at first, so that nothing is read any more.
- **Not modelled.** `setYield` and the second handle it makes (section 9 takes
  the order of the handlers), filters, declarative responses, the bytes of a
  response, the FIN in front of a close (`shutdown`, then `close` in the same
  call), an upgrade from data or writable handlers, a tryEnd of an empty body (it
  completes the response like `endWithoutBody`), and calls that begin a
  response again: `end` with no data or `endWithoutBody` behind a tryEnd, and a
  write behind one.

`Exchanges.tla` is the promise: requests come one at a time, each is settled once
(answered, aborted, dropped or upgraded), nothing follows the end.

| Run | Bounds | Checks |
|---|---|---|
| HttpConnection | 2 connections of 2 requests, bodies of 2 chunks, 3 calls of 12 kinds; 1,928,056 states | Returned, NoStaleHandle, IdleTimed, BodyToOwner, DrainPolled, CloseHonoured, ImplementsExchanges |

Two requests are pipelined or follow each other; three calls are a write, an end
and one that interferes.  Deadlock is not checked: all connections may be closed.
`NoStaleHandle` allows one thing: the handler that itself called `app.close()`
holds its handle until it returns.

The run leaves out the ten `Scenarios` below.  Each breaks a property when it
is let in, within a minute:

| Scenario | Property | What happens |
|---|---|---|
| head | IdleTimed | the answer to a HEAD request ends without arming the timeout "Always starts a timeout" promises (HttpResponse.h:183, :448) |
| spoofsLength | IdleTimed | `endWithoutBody(n)` to a GET is marked done for want of data (HttpResponse.h:191) but its offset is not n, so no timeout is armed (HttpResponse.h:183) |
| answersEarly | IdleTimed | the last chunk of a body whose request has been answered takes the timeout away from an idle connection (HttpContext.h:253) |
| endsAfterTryEnd | IdleTimed | `end` that completes what tryEnd began arms none |
| registersLate | BodyToOwner | the data handler of a request is registered after its body was skipped, and gets the body of the next one (HttpContext.h:279) |
| writesPaused | DrainPolled | pausing and resuming a response with backpressure saves and restores the poll of another moment (AsyncSocket.h:46, socket.c:170) |
| resumesUnpaused | DrainPolled | a second `resume()`, or one without a pause, of a response with backpressure restores older events over the poll for writable (AsyncSocket.h:53) |
| skipsWriting | DrainPolled | an onWritable handler that writes nothing ends the polling although something is buffered (HttpContext.h:369) |
| upgradesClose | ImplementsExchanges | a request that says `Connection: close` is upgraded and closed again as an HTTP connection |
| upgradesOthers | Returned, CloseHonoured | an upgrade completed while another socket is read is noted in the loop and taken for one of that socket (HttpResponse.h:331) |

One more is in the model: a parse error behind an answered pipelined request
drops the answer that is still in the cork buffer (HttpContext.h:292).

### Proofs

`HttpConnectionProofs.tla` proves every property of the run for any number of
connections, requests, calls and nested handlers.  A theorem takes as its
hypothesis only the scenarios of the table that break its property (`Without`);
all others are let in, where the run leaves out all ten.

| Theorem | Property | Without |
|---|---|---|
| HandlesAreFresh | NoStaleHandle | |
| LentIsReturned | Returned | upgradesOthers |
| BodyReachesOwner | BodyToOwner | registersLate |
| IdleIsTimed | IdleTimed | head, answersEarly, endsAfterTryEnd, spoofsLength (`Untimed`) |
| BackpressureIsPolled | DrainPolled | writesPaused, skipsWriting, resumesUnpaused (`Unpolls`) |
| CloseIsHonoured | CloseHonoured | upgradesOthers |
| ExchangesImplemented | ImplementsExchanges | upgradesClose |

`upgradesOthers` breaks a second property (TLC shows it with the bounds of the
run): the socket that is read is taken for upgraded, so the uncork at the
end of the read goes to the other one, and a response with `Connection: close`
that was complete stays open.

The inductive invariant has a part per property and a part about the stack:

- `Nested`: the parser and the loop are at the bottom of the stack, a request or
  data handler right above the parser that called it; `Reading` and `Ending`:
  what lies below a handler that may close its connection has been told to stop.
- `Kept`: of each response which handles, abort handler and `onWritable` handler
  there may be in each state of its socket; a handle without an abort handler
  that would invalidate it exists only while its request handler runs, whose
  wrapper installs one (`NoStaleHandle`, `HandlerKept`).
- `Fed`: a data handler in place is that of the request under way and the body
  has data left, or its last chunk is being handled (`BodyToOwner`).
- `Timely`: a response that is pending has a handle, one that is not a timeout
  (`IdleTimed`).
- `Polls`: what is buffered is polled for, or `savedEvents` will restore it, and a
  paused socket has no bytes in the cork buffer (`DrainPolled`).
- `Ends`: a connection that is ready to close is the one that is corked
  (`CloseHonoured`), and `Lending`: the cork buffer is lent to the socket of the innermost
  `read` or corking `cork` frame (`Returned`).
- `Told`: a response is pending exactly while the last event told is its request
  (`ImplementsExchanges`).

## 8. HTTP parser

`HttpParser.tla` models `HttpParser.h`, `ChunkedEncoding.h` and the
`collectBody` of the addon: `consumePostPadded` with the fallback buffer,
the fields of a head, sized and chunked bodies with extensions and trailers, and
the errors.  Input is a sequence of tokens; a token is a byte wherever the parser
looks at single bytes (CR, LF, digits, colons), and a whole word where it does
not.  `messages` is what the client sends, `input` what has not been read; every
read takes any prefix.  A handler may close the connection at every call.

`Faithful` compares what is handed over with the messages themselves, so
it says that the splits do not matter; `Bounded` that the fallback stays below
the limit of a head and that no unsigned difference wraps.

| Run | Bounds | Checks |
|---|---|---|
| HttpParser | 339 conversations of 2 messages: every framing, 13 ways to be refused; numbers of base 4, sizes of 2 digits, lengths of 3, heads of 20 tokens, 4 fields | Faithful, Bounded, CollectedOnce |

The longest head and the first one that is too long, the largest number of
fields and one more are among the messages.  Deadlock is not checked: the input
ends.

One of the faults is a well-formed request: whether host, content-length or
transfer-encoding is there twice is decided by the Bloom filter alone, because
the lookup next to it finds the header itself (HttpParser.h:501), and `"collides"`
is a request one of whose other names has the bits of "host" (`MightHave`).
BloomFilter.h:4 rules collisions out for the common names only.  `Faithful`
says that it is refused, and that nothing else but what is malformed is.

**Departures.** With `"noName"` among `Faults`, `Faithful` is violated: a field with
an empty name is accepted (HttpParser.h:274), its empty key ends the header list for
every loop behind (HttpParser.h:500), and the request is dispatched without the
framing headers that follow it, here a second host.  With `"hugeSize"` among `Faults`, `Bounded` is violated: a chunk
size of 15 digits F passes the check for overflow, the two bytes the state adds
for CRLF carry into the flag bits (ChunkedEncoding.h:73), and the chunk is taken
for a trailer.  Three more were met: a request with a malformed content-length
is dispatched before it is refused; a CR without LF, or an empty line before a
request, is waited out as an incomplete head instead of being refused; and
trailers and extensions have no limit.

**Not modelled.** The in-place scan eight bytes at a time, the hash of
the Bloom filter (only which names collide matters), the query string, multipart bodies (functions of a finished head or body), the proxy
protocol (compiled out).

## 9. HTTP router

`HttpRouter.tla` models `HttpRouter.h` with the priorities `onHttp` of
`HttpContext.h` gives: registration, replacement and removal (`cullNode` with the
lowered indexes), and routing.  `Route` is the sequence of handlers a request is
offered to, were each to yield; the code stops at the first that does not.  The
reference is `Expected`: the matching routes, the most specific first.

| Run | Bounds | Checks |
|---|---|---|
| HttpRouter | 6 patterns of up to 2 segments; GET, the upgrade of ws, POST, any; 3 routes at a time; every URL of up to 2 segments and one too long | RoutesBest, TreeSound |

Three routes let a removal lower one index and keep another.  Registration
never happens inside a handler (AppWrapper.h:366), so that routing is a function
of the state.

**Departure.** `OwnMethodOnly` is violated with these bounds: removing a route
culls the empty node of the any routes (HttpRouter.h:233 promises it is there),
and the last node, which HttpRouter.h:269 then takes for it, is that of
another method (HttpRouter.h:254).  The default route of an application hides
it; the routers of server names have none.  On an empty root a URL with too many
segments reads the back of an empty vector.  Also: patterns and URLs beyond
`MAX_URL_SEGMENTS` are cut; the parameter names count colons in the middle of a
segment ("/a:b/:c"); a segment that begins with "*" is a wildcard whatever
follows.

**Not modelled.** Parameter names (offsets of a finished pattern), and the choice
of a router by server name (`removeServerName` leaves `currentRouter` at the
deleted one, App.h:112).

## 10. WebSocket receive path

`WebSocketReceive.tla` models `WebSocketProtocol.h` and the handlers of
`WebSocketContext.h` it calls, as server and as client (the template's
`isServer`): heads of three sizes, the spill of a partial head, masks, parts of
payloads, fragments in `fragmentBuffer` with control frames behind them
(`tip`), close payloads, limits, compression, and handlers that end or close the
connection.  `handlers` are those the application has set: the parser looks
whether the connection has ended only behind one that is (WebSocketContext.h:168).  `Meaning` is the reference: what the frames mean under RFC 6455 and
7692, whatever the reads.

| Run | Bounds | Checks |
|---|---|---|
| WebSocketReceive | 3 frames out of 18, all handlers or only that of messages, both roles, with and without compression, payloads up to 5 bytes, every split into reads | Faithful, Bounded, NothingAfterEnd |
| WebSocketReceiveSplitHead | 1 frame, the scenario `splitHead` | RefusesOnlyInvalid (violated) |

Three frames are a fragmented message with a control frame in it.  Head sizes and
mask length are those of the code; five payload bytes are longer than a mask.
Deadlock is not checked: the input ends.

`WebSocketReceiveSplitHead` shows a departure: the parser marks a compressed
message when it first looks at a head (WebSocketProtocol.h:477); if the head is
incomplete it looks again with the next read, finds the mark set and refuses the
connection.  With `{"message", "dropped"}` among `Behaviors`, `NothingAfterEnd` is
violated by a ping and a message in one read: the PONG may be dropped, and the
dropped handler may end or close the connection; if no ping handler is set nobody
looks, and the message is still handed over (with one set, it is itself still
called).  The runs leave such dropped handlers out.  Two more scenarios break `Faithful` when let in:

| Scenario | What happens |
|---|---|
| interleaved | a binary frame, or a data frame behind a control frame, is accepted inside an unfinished message and merged with it (WebSocketProtocol.h:351) |
| compressedControl | (with a compressed pong among the frames) RSV1 on a control frame is accepted, and the next message is inflated for it (WebSocketContext.h:30) |

The server does not look at the mask bit of its clients.

**Not modelled.** Unmasking in place may overrun the payload into the padding of
the receive buffer; inflation is its result (a `z` is two bytes); the pong that
answers a ping is part of the event "ping"; cork and timeouts are in section 4.

## 11. What is proved, what is checked, what is neither

**Proved** for every value of the constants, from the assumption named in the
module of each component only (`TopicTreeAssumption`,
`AsyncSocketAssumption`, `WebSocketSendAssumption`, `ClientConnectAssumption`,
`HttpAssumption`, `SocketLoopAssumption`: bounds are naturals, null is no
element, sets of choices are among those listed): of `TopicTree` its types, rest
and pinning and, for handlers that satisfy `KeepsOrder`, its pointers and
the agreement of subscribers, topics and deferred calls, and for handlers that neither
publish nor send, and a queue that fits its indices, the order of delivery and the
refinement (section 3), of `WebSocketSend` all safety properties of its passing
runs and the refinement, without the calls that break them (4), of `SocketLoop` its lists,
polling, leaks and sweep, and that timeouts shorter than a turn of the counters do not
fire early (5), of
`ClientConnect` all safety properties and the refinement (6), of `HttpConnection` all properties and the refinement, each without the
scenarios that break it (7).

**Only model-checked**: everything else in the tables.  Liveness (`EverythingDrained`,
`EndedFinishes`, `QueueServed`, `Answered`, `Freed`) needs `ENABLED`, and the
properties of `HttpParser`, `HttpRouter` and `WebSocketReceive` need induction
over recursive definitions; both are beyond the prover.

**Not modelled**

- *TLS* (`crypto/openssl.c`, `sni_tree.cpp`): nearly every branch is on what
  OpenSSL's own state machine answers; a model would mostly be of the library.
  Elsewhere a TLS socket is one whose writes are taken in part and whose first
  reads wait in the low-priority queue.
- *The conversion of arguments and results for V8* in `addon/*`, and the
  *TypeScript package*: no state of their own.  What is modelled of the addon is
  when a handle dies, `collectBody`, and who owns the handlers of a client.
- *Server names, listening and the SNI tree* of `App.h`.
- *libuv* beyond the order of an iteration and the close callbacks.
- *Utilities*: number formatting, a move-only function.
- *Other threads*: all they may do is append to the defer queue under its mutex,
  which is what `ClientConnect` does between events.
