--------------------------- MODULE HttpConnection ---------------------------
(***************************************************************************)
(* The life of HTTP connections on a server:                               *)
(* src/native/uwebsockets/HttpContext.h, HttpResponse.h and                *)
(* HttpResponseData.h with the handles JavaScript holds                    *)
(* (src/native/addon/HttpResponseWrapper.h, AppWrapper.h).                 *)
(*                                                                         *)
(* One thread; "stack" is what it is in the middle of: reading a socket,   *)
(* running a handler of the application, closing the app.  A handler makes *)
(* any calls on any response it holds a valid handle of, so does the       *)
(* application between the events of the loop.                             *)
(*                                                                         *)
(* Bytes are left out (AsyncSocket has them): a write fits the cork        *)
(* buffer, is taken by the kernel or leaves backpressure, and a body is    *)
(* BodySize units of which tryEnd writes some.                             *)
(***************************************************************************)
EXTENDS Integers, Sequences, FiniteSets

CONSTANTS
  Sockets,
  NoSocket,
  MaxRequests,   \* bound: requests of a connection
  MaxBody,       \* bound: calls of the data handler for a request
  BodySize,      \* units of a response body
  MaxCalls,      \* bound: calls of the application
  Calls,         \* the calls it makes
  Scenarios      \* what else happens, of AllScenarios

AllScenarios ==
  {"head",            \* HEAD requests
   "answersEarly",    \* the application answers before its data handler had the last chunk
   "registersLate",   \* it registers a data handler after the request handler returned
   "endsAfterTryEnd", \* it calls end to complete what tryEnd began
   "spoofsLength",    \* it calls endWithoutBody with a length it has not written
   "writesPaused",    \* it pauses a response it has written to, or writes to one it has paused
   "resumesUnpaused", \* it resumes a response it has not paused, of a connection with backpressure
   "skipsWriting",    \* its onWritable handler returns without having written
   "upgradesClose",   \* an upgrade of a request that says "Connection: close"
   "upgradesOthers"}  \* while one socket is read the upgrade of another is completed

ASSUME HttpAssumption ==
  /\ NoSocket \notin Sockets
  /\ MaxRequests \in Nat /\ MaxBody \in Nat \ {0} /\ BodySize \in Nat \ {0} /\ MaxCalls \in Nat
  /\ Scenarios \subseteq AllScenarios

VARIABLES
  sock,    \* of each socket: the poll, the timer and HttpResponseData
  loop,    \* what all sockets share
  stack,   \* what the thread is doing, innermost first
  calls,   \* calls made so far
  closed,  \* TemplatedApp::closed
  log      \* history: what the application is told, per connection

vars == <<sock, loop, stack, calls, closed, log>>

Placeholder == MaxCalls + 1      \* callOnWritable's stand-in for the handler

Socket == [status  : {"http", "closing", "websocket", "closed"},
           timer   : BOOLEAN,                  \* us_socket_timeout is armed
           poll    : SUBSET {"read", "write"},
           saved   : SUBSET {"read", "write"}, \* savedEvents
           paused  : BOOLEAN,                  \* history: paused by the application
           buffered: BOOLEAN,                  \* getBufferedAmount() > 0
           request : 0 .. MaxRequests,         \* history: the request being answered
           body    : 0 .. MaxBody,             \* history: data the parser has yet to deliver
           pending : BOOLEAN,                  \* HTTP_RESPONSE_PENDING
           last    : BOOLEAN,                  \* HTTP_CONNECTION_CLOSE
           head    : BOOLEAN,                  \* HTTP_METHOD_HEAD
           chunked : BOOLEAN,                  \* HTTP_WRITE_CALLED
           ended   : BOOLEAN,                  \* HTTP_END_CALLED
           offset  : 0 .. BodySize,            \* body units written
           onWritable: 0 .. Placeholder,
           wanted  : 0 .. MaxCalls,            \* history: the onWritable set last
           onAborted : 0 .. MaxRequests,       \* the request whose handle it captures
           tellsJS : BOOLEAN,                  \* onAborted is the application's own
           inStream: 0 .. MaxRequests,         \* the request whose handler it is
           handles : SUBSET (1 .. MaxRequests)] \* JavaScript objects that still point here

Frame(kind, c, mode, handler) == [kind |-> kind, socket |-> c, mode |-> mode, handler |-> handler]

-----------------------------------------------------------------------------
(* Sockets and writes.                                                     *)

Opened ==
  [status |-> "http", timer |-> TRUE, poll |-> {"read"}, saved |-> {}, paused |-> FALSE, buffered |-> FALSE,
   request |-> 0, body |-> 0, pending |-> FALSE, last |-> FALSE, head |-> FALSE, chunked |-> FALSE,
   ended |-> FALSE, offset |-> 0, onWritable |-> 0, wanted |-> 0, onAborted |-> 0, tellsJS |-> FALSE,
   inStream |-> 0, handles |-> {}]

\* us_socket_write took a part only; it polls for both events, paused or not.
Stuck(k) == [k EXCEPT !.buffered = TRUE, !.poll = {"read", "write"}]

Result(k, shared, failed) ==
  [k |-> k, loop |-> [shared EXCEPT !.failed = @ \/ failed], failed |-> failed]

Released(c) == IF loop.corked = c THEN [loop EXCEPT !.corked = NoSocket, !.bytes = FALSE] ELSE loop

\* AsyncSocket::write of the socket c: what is buffered goes first, then the
\* cork buffer if it is lent to c and has room, then the kernel.
Written(c, k) ==
  LET drained == [k EXCEPT !.buffered = FALSE]
  IN  {Result(Stuck(k), shared, TRUE) :
         shared \in {Released(c)} \cup (IF k.buffered THEN {loop} ELSE {})}
      \cup {Result(drained, Released(c), FALSE)}
      \cup {Result(drained, [loop EXCEPT !.bytes = TRUE], FALSE) : own \in {s \in {c} : loop.corked = s}}

\* The body of a tryEnd: n units that may not be buffered, or else are not
\* written as a body of known length.
TryWritten(c, k, n) ==
  IF k.chunked \/ k.head THEN {[result |-> r, written |-> 0] : r \in Written(c, k)}
  ELSE {[result |-> r, written |-> n] : r \in {w \in Written(c, k) : ~w.failed}}
  \cup {[result  |-> Result([k EXCEPT !.buffered = FALSE, !.poll = {"read", "write"}], Released(c), TRUE),
         written |-> m] : m \in 0 .. n - 1}
  \cup {[result |-> r, written |-> 0] :
          r \in {w \in Written(c, k) : w.failed /\ (~k.ended \/ k.buffered \/ loop.corked = c)}}

\* A write that failed arms the timeout.
Armed(w) == [w.k EXCEPT !.timer = @ \/ w.failed]

\* AsyncSocket::uncork: the cork buffer goes out, or what was buffered before.
Uncorked(c, k) ==
  IF loop.corked # c THEN {Result(k, loop, FALSE)}
  ELSE {Result(IF k.status \in {"http", "websocket"} THEN [k EXCEPT !.buffered = FALSE] ELSE k, Released(c), FALSE)}
       \cup {Result(Stuck(k), Released(c), TRUE) :
               open \in {s \in {k.status} : s \in {"http", "websocket"} /\ (loop.bytes \/ k.buffered)}}

\* ~HttpResponseData, and nothing that happens on the descriptor reaches it again.
Destroyed(k) ==
  [k EXCEPT !.status = "closed", !.timer = FALSE, !.poll = {}, !.buffered = FALSE, !.pending = FALSE, !.body = 0,
            !.onWritable = 0, !.wanted = 0, !.onAborted = 0, !.tellsJS = FALSE, !.inStream = 0]

\* Variant: the default abort handler leaves the JavaScript object alone.
ClosedSilently(k) ==
  CASE k.status = "http" /\ k.tellsJS ->
         [k EXCEPT !.status = "closing", !.timer = FALSE, !.poll = {}, !.handles = @ \ {k.onAborted}]
    [] k.status \in {"http", "websocket"} /\ ~k.tellsJS -> Destroyed(k)
    [] OTHER -> k

\* us_socket_close and on_close: onAborted first invalidates the handle it
\* has captured; if it is the application's own the socket is destroyed when
\* that handler returns.
Closed(k) ==
  CASE k.status = "http" /\ k.tellsJS ->
         [k EXCEPT !.status = "closing", !.timer = FALSE, !.poll = {}, !.handles = @ \ {k.onAborted}]
    [] k.status = "http" /\ ~k.tellsJS -> [Destroyed(k) EXCEPT !.handles = @ \ {k.onAborted}]
    [] k.status = "websocket" -> Destroyed(k)
    [] OTHER -> k

Aborting(c) ==
  IF sock[c].status = "http" /\ sock[c].tellsJS THEN <<Frame("aborted", c, "run", 0)>> ELSE <<>>

Losing(c) ==
  IF sock[c].status = "http" /\ sock[c].pending
  THEN [log EXCEPT ![c] = Append(@, IF sock[c].tellsJS THEN "aborted" ELSE "dropped")] ELSE log

-----------------------------------------------------------------------------
(* The end of a response.                                                  *)

MarkDone(k) ==
  [k EXCEPT !.onAborted = 0, !.tellsJS = FALSE, !.onWritable = 0, !.wanted = 0, !.pending = FALSE]

ReadyToClose(k) == k.last /\ ~k.pending /\ ~k.buffered

ClosedIfDone(k) == IF ReadyToClose(k) THEN Closed(k) ELSE k

\* Variant: a response that was written at once starts no timeout.
EndedTimes(k, all, failed) == [k EXCEPT !.timer = @ \/ failed]

\* A timeout starts when the response is complete or a write failed.
Timed(k, all, failed) == [k EXCEPT !.timer = @ \/ all \/ failed]

\* internalEnd, after its writes: n of the "given" units of data went out, the
\* body has "total" units.  The response is complete when all of it went out
\* or there was nothing to write.
Done(k, given, total) == k.chunked \/ k.offset = total \/ given = 0

Counted(w, n) == [w.k EXCEPT !.offset = @ + n, !.ended = TRUE]

AfterWrites(w, given, n, total) ==
  LET k == Counted(w, n)
      t == Timed(k, k.chunked \/ k.offset = total, w.failed /\ given > 0)
  IN  IF Done(k, given, total) THEN MarkDone(t) ELSE t

\* Variant: only the drain and the uncork close a connection that is done with.
AfterEndStaysOpen(c, w, given, n, total) == AfterWrites(w, given, n, total)

AfterEnd(c, w, given, n, total) ==
  LET k == AfterWrites(w, given, n, total)
  IN  IF Done(Counted(w, n), given, total) /\ w.loop.corked # c THEN ClosedIfDone(k) ELSE k

Answered(c, k) == IF sock[c].pending /\ ~k.pending THEN [log EXCEPT ![c] = Append(@, "answered")] ELSE log

-----------------------------------------------------------------------------
(* Calls on a response.                                                    *)

Top == Head(stack)

Below == Tail(stack)

Handlers == {"request", "data", "writable", "aborted", "cork", "open"}

\* The application runs: between events, or in a handler.
MayCall(name) ==
  /\ name \in Calls
  /\ calls < MaxCalls
  /\ stack # <<>> => Top.kind \in Handlers
  /\ calls' = calls + 1

\* getHttpResponse: the handle of a request still points to the response.
Holds(c) == sock[c].handles # {}

OnStack(c, kind) == \E i \in DOMAIN stack : stack[i].socket = c /\ stack[i].kind = kind

\* When the application writes to a response, unless a scenario says otherwise.
WritesNow(c) ==
  /\ Holds(c)
  /\ sock[c].status = "http"
  /\ sock[c].paused => "writesPaused" \in Scenarios

EndsNow(c) ==
  /\ WritesNow(c)
  /\ sock[c].inStream # 0 /\ sock[c].body > 0 => "answersEarly" \in Scenarios

Effect(c, w, k) == sock' = [sock EXCEPT ![c] = k] /\ loop' = w.loop

\* res.end(body, close), of no body or of what is left of it: the handle is
\* invalid whatever becomes of the response.
End(c) ==
  /\ MayCall("end") /\ EndsNow(c)
  /\ sock[c].offset > 0 => "endsAfterTryEnd" \in Scenarios
  /\ \E close \in BOOLEAN, size \in {BodySize - sock[c].offset} \cup {s \in {0} : ~sock[c].ended} :
       \E w \in Written(c, [sock[c] EXCEPT !.handles = {}, !.last = @ \/ close]) :
         LET given == IF sock[c].head THEN 0 ELSE size
             k     == AfterEnd(c, w, given, IF sock[c].chunked THEN 0 ELSE given, size)
         IN  Effect(c, w, k) /\ log' = Answered(c, k)
  /\ UNCHANGED <<stack, closed>>

\* res.endWithoutBody(total, close): the length that is reported is not written.
EndWithoutBody(c) ==
  /\ MayCall("endWithoutBody") /\ EndsNow(c) /\ ~sock[c].ended
  /\ \E close \in BOOLEAN, total \in {0, BodySize} :
       /\ ~sock[c].chunked /\ sock[c].offset # total => "spoofsLength" \in Scenarios
       /\ \E w \in Written(c, [sock[c] EXCEPT !.handles = {}, !.last = @ \/ close]) :
            LET k == AfterEnd(c, w, 0, 0, total) IN Effect(c, w, k) /\ log' = Answered(c, k)
  /\ UNCHANGED <<stack, closed>>

\* res.tryEnd(part of what is left of the body, BodySize).
TryEnd(c) ==
  /\ MayCall("tryEnd") /\ EndsNow(c)
  /\ \E size \in 1 .. BodySize - sock[c].offset :
       \E t \in TryWritten(c, sock[c], size) :
         LET k == AfterEnd(c, t.result, IF sock[c].head THEN 0 ELSE size, t.written, BodySize)
         IN  /\ Effect(c, t.result, IF k.pending THEN k ELSE [k EXCEPT !.handles = {}])
             /\ log' = Answered(c, k)
  /\ UNCHANGED <<stack, closed>>

\* res.write(chunk); beginWrite and the chunks of a HEAD response start no timeout.
Write(c) ==
  /\ MayCall("write") /\ WritesNow(c) /\ ~sock[c].ended
  /\ \E w \in Written(c, [sock[c] EXCEPT !.chunked = TRUE]) :
       \E k \in {w.k} \cup {a \in {Armed(w)} : ~sock[c].head} : Effect(c, w, k)
  /\ UNCHANGED <<stack, closed, log>>

OnWritable(c) ==
  /\ MayCall("onWritable") /\ Holds(c) /\ sock[c].status = "http"
  /\ sock' = [sock EXCEPT ![c] = [@ EXCEPT !.onWritable = calls + 1, !.wanted = calls + 1]]
  /\ UNCHANGED <<loop, stack, closed, log>>

OnAborted(c) ==
  /\ MayCall("onAborted") /\ Holds(c) /\ sock[c].status = "http" /\ ~sock[c].tellsJS
  /\ sock' = [sock EXCEPT ![c] = [@ EXCEPT !.onAborted = sock[c].request, !.tellsJS = TRUE]]
  /\ UNCHANGED <<loop, stack, closed, log>>

\* res.onData, onDataV2 and collectBody.
OnData(c) ==
  /\ MayCall("onData") /\ Holds(c) /\ sock[c].status = "http" /\ sock[c].inStream = 0
  /\ OnStack(c, "request") \/ "registersLate" \in Scenarios
  /\ sock' = [sock EXCEPT ![c].inStream = sock[c].request]
  /\ UNCHANGED <<loop, stack, closed, log>>

\* res.pause() and res.resume(): throttle_helper and the timer.
Pause(c) ==
  /\ MayCall("pause") /\ Holds(c) /\ sock[c].status = "http"
  /\ sock[c].chunked \/ sock[c].ended \/ (loop.corked = c /\ loop.bytes) => "writesPaused" \in Scenarios
  /\ sock' = [sock EXCEPT ![c] = [@ EXCEPT !.saved = IF sock[c].poll = {} THEN sock[c].saved ELSE sock[c].poll,
                                           !.poll = {}, !.paused = TRUE, !.timer = FALSE]]
  /\ UNCHANGED <<loop, stack, closed, log>>

Resume(c) ==
  /\ MayCall("pause") /\ Holds(c) /\ sock[c].status = "http"
  /\ ~sock[c].paused /\ sock[c].buffered => "resumesUnpaused" \in Scenarios
  /\ sock' = [sock EXCEPT ![c] = [@ EXCEPT !.poll = sock[c].saved, !.paused = FALSE, !.timer = TRUE]]
  /\ UNCHANGED <<loop, stack, closed, log>>

\* res.close().
Close(c) ==
  /\ MayCall("close") /\ Holds(c) /\ sock[c].status = "http"
  /\ sock' = [sock EXCEPT ![c] = Closed([@ EXCEPT !.handles = {}])]
  /\ stack' = Aborting(c) \o stack
  /\ log' = Losing(c)
  /\ UNCHANGED <<loop, closed>>

\* res.cork(handler): the cork buffer is taken if nobody has it.
Cork(c) ==
  /\ MayCall("cork") /\ Holds(c) /\ sock[c].status = "http"
  /\ LET takes == loop.corked = NoSocket
     IN  /\ loop' = IF takes THEN [loop EXCEPT !.corked = c] ELSE loop
         /\ stack' = <<Frame("cork", c, IF takes THEN "uncork" ELSE "run", 0)>> \o stack
  /\ UNCHANGED <<sock, closed, log>>

\* The socket leaves the HTTP context; its data, all handlers included, is destroyed.
Adopted(k) ==
  [Destroyed(k) EXCEPT !.status = "websocket", !.timer = TRUE, !.poll = k.poll, !.buffered = k.buffered]

TellsParser == loop.parsing

\* res.upgrade(...): the 101 response, adoption by the WebSocket context, the
\* parser is told if one is running, then the open handler.
Upgrade(c) ==
  /\ MayCall("upgrade") /\ EndsNow(c) /\ ~sock[c].ended /\ ~sock[c].chunked
  /\ \A i \in DOMAIN stack :
       /\ stack[i].kind \in {"read", "request", "cork"}
       /\ stack[i].socket = c \/ "upgradesOthers" \in Scenarios
  /\ sock[c].last => "upgradesClose" \in Scenarios
  /\ \E w \in Written(c, [sock[c] EXCEPT !.handles = {}]) :
       /\ Effect(c, [w EXCEPT !.loop.upgraded = IF TellsParser THEN c ELSE @], Adopted(MarkDone(w.k)))
       /\ log' = [log EXCEPT ![c] = IF w.loop.corked # c /\ ReadyToClose(MarkDone(w.k))
                                    THEN @ \o <<"answered", "upgraded">> ELSE Append(@, "upgraded")]
  /\ stack' = <<Frame("open", c, "run", 0)>> \o stack
  /\ UNCHANGED closed

\* app.close(): the sockets of all contexts, one after the other.
AppClose ==
  /\ MayCall("appClose") /\ ~closed
  /\ closed' = TRUE
  /\ stack' = <<Frame("appClose", NoSocket, "run", 0)>> \o stack
  /\ UNCHANGED <<sock, loop, log>>

Call == \/ AppClose
        \/ \E c \in Sockets : \/ End(c) \/ EndWithoutBody(c) \/ TryEnd(c) \/ Write(c)
                              \/ OnWritable(c) \/ OnAborted(c) \/ OnData(c)
                              \/ Pause(c) \/ Resume(c) \/ Close(c) \/ Cork(c) \/ Upgrade(c)

-----------------------------------------------------------------------------
(* Reading.                                                                *)

AtTop(kind, c) == stack # <<>> /\ Top.kind = kind /\ Top.socket = c

Parsing(c, mode) == AtTop("read", c) /\ Top.mode = mode

Retop(mode) == <<[Top EXCEPT !.mode = mode]>> \o Below

\* on_data corks the socket and enters the parser.
ReadBegin(c) ==
  /\ stack = <<>> /\ sock[c].status = "http" /\ "read" \in sock[c].poll
  /\ ~(loop.bytes /\ loop.corked # c)         \* or cork() terminates the process
  /\ loop' = [loop EXCEPT !.corked = c, !.parsing = TRUE]
  /\ stack' = <<Frame("read", c, "parse", 0)>>
  /\ UNCHANGED <<sock, calls, closed, log>>

\* A request resets the response and its timeout.
Reset(k, kind) ==
  [k EXCEPT !.timer = FALSE, !.offset = 0, !.pending = TRUE, !.last = kind.close, !.head = kind.head,
            !.chunked = FALSE, !.ended = FALSE]

Kinds == [close : BOOLEAN, head : {"head" \in Scenarios, FALSE}, body : 1 .. MaxBody]

\* Variant: a request may come while one is pending.
PipelinesAsync(c) == FALSE

\* A request that comes while one is pending.
TooEarly(c) == sock[c].pending

\* A parsed request is dispatched: its handler gets a handle.  One without a
\* body (body = 1) is followed by an empty last chunk at once.
Request(c) ==
  /\ Parsing(c, "parse") /\ sock[c].body = 0 /\ ~TooEarly(c) /\ sock[c].request < MaxRequests
  /\ \E kind \in Kinds :
       LET r == sock[c].request + 1
       IN  /\ sock' = [sock EXCEPT ![c] = [Reset(@, kind) EXCEPT !.request = r, !.body = kind.body,
                                                                 !.handles = sock[c].handles \cup {r}]]
           /\ stack' = <<Frame("request", c, "run", r)>> \o Retop(IF kind.body = 1 THEN "due" ELSE "parse")
  /\ log' = [log EXCEPT ![c] = Append(@, "request")]
  /\ UNCHANGED <<loop, calls, closed>>

\* That request is not served, and neither is one that no route takes: the
\* connection is closed.
Refuse(c) ==
  /\ Parsing(c, "parse") /\ sock[c].body = 0
  /\ TooEarly(c) \/ sock[c].request < MaxRequests
  /\ sock' = [sock EXCEPT ![c] = Closed(@)]
  /\ stack' = Aborting(c) \o Retop("stop")
  /\ log' = Losing(c)
  /\ UNCHANGED <<loop, calls, closed>>

\* What the handler's wrapper does when it returns: a response left open
\* without an abort handler gets a default one and a timeout; the handle of a
\* closed or upgraded socket is invalid.
Guarded(k) ==
  CASE k.status # "http" -> [k EXCEPT !.handles = {}]
    [] k.status = "http" /\ k.handles # {} /\ k.pending /\ k.onAborted = 0 ->
         [k EXCEPT !.onAborted = k.request, !.timer = TRUE]
    [] OTHER -> k

\* The handler has returned to the parser.
RequestReturn(c) ==
  /\ AtTop("request", c)
  /\ LET k == Guarded(sock[c])
         stays == k.status = "http" /\ loop.upgraded = NoSocket
         stuck == stays /\ k.pending /\ k.onAborted = 0
         after == CASE stuck -> Closed(k)
                    [] stays /\ ~stuck /\ k.pending /\ k.inStream # 0 -> [k EXCEPT !.timer = TRUE]
                    [] OTHER -> k
     IN  /\ sock' = [sock EXCEPT ![c] = after]
         /\ stack' = IF stays /\ ~stuck THEN Below ELSE <<[Head(Below) EXCEPT !.mode = "stop"]>> \o Tail(Below)
         /\ log' = IF stuck THEN Losing(c) ELSE log
  /\ UNCHANGED <<loop, calls, closed>>

\* The parser delivers data: the last of it disarms the timeout, enough of it rearms it.
Data(c) ==
  /\ Parsing(c, "parse") \/ Parsing(c, "due")
  /\ sock[c].body > 0
  /\ LET last == sock[c].body = 1
     IN  IF sock[c].inStream = 0
         THEN sock' = [sock EXCEPT ![c].body = @ - 1] /\ stack' = Retop("parse")
         ELSE /\ \E timer \in IF last THEN {FALSE} ELSE {sock[c].timer, TRUE} :
                   sock' = [sock EXCEPT ![c] = [@ EXCEPT !.body = sock[c].body - 1, !.timer = timer]]
              /\ stack' = <<Frame("data", c, IF last THEN "last" ELSE "more", sock[c].inStream)>> \o Retop("parse")
  /\ UNCHANGED <<loop, calls, closed, log>>

\* Variant: the data handler of a request is not forgotten after its last chunk.
KeepsInStream(k, mode) == k

ResetInStream(k, mode) == IF mode = "last" THEN [k EXCEPT !.inStream = 0] ELSE k

DataReturn(c) ==
  /\ AtTop("data", c)
  /\ IF sock[c].status = "http"
     THEN sock' = [sock EXCEPT ![c] = ResetInStream(@, Top.mode)] /\ stack' = Below
     ELSE stack' = <<[Head(Below) EXCEPT !.mode = "stop"]>> \o Tail(Below) /\ UNCHANGED sock
  /\ UNCHANGED <<loop, calls, closed, log>>

\* A parse error: the error response, FIN, close.
ParseError(c) ==
  /\ Parsing(c, "parse")
  /\ sock' = [sock EXCEPT ![c] = Closed(@)]
  /\ stack' = Aborting(c) \o Retop("stop")
  /\ log' = Losing(c)
  /\ UNCHANGED <<loop, calls, closed>>

\* on_data after the parser: the socket it was given, or the one that took its
\* place, is uncorked.
ReadEnd(c) ==
  /\ Parsing(c, "parse") \/ Parsing(c, "stop")
  /\ LET u == IF Top.mode = "stop" /\ loop.upgraded # NoSocket THEN loop.upgraded ELSE c
     IN  \E w \in Uncorked(u, sock[u]) :
           /\ sock' = [sock EXCEPT ![u] = IF Top.mode = "parse" THEN ClosedIfDone(Armed(w))
                                          ELSE w.k]
           /\ loop' = [w.loop EXCEPT !.parsing = FALSE, !.upgraded = IF Top.mode = "stop" THEN NoSocket ELSE @]
  /\ stack' = Below
  /\ UNCHANGED <<calls, closed, log>>

-----------------------------------------------------------------------------
(* The other events, and the returns of the other handlers.                *)

\* Variant: no more polling whatever came of the writes.
UnpolledAlways(k, failed) == [k EXCEPT !.poll = @ \ {"write"}]

\* loop.c after on_writable: no failed write, no more polling for writable.
Unpolled(k, failed) == IF failed THEN k ELSE [k EXCEPT !.poll = @ \ {"write"}]

\* on_writable drains what is buffered, if the application does not want to write itself.
Drain(c) ==
  /\ stack = <<>> /\ sock[c].status = "http" /\ "write" \in sock[c].poll /\ sock[c].onWritable = 0
  /\ \E stuck \in {FALSE, sock[c].buffered} :
       /\ sock' = [sock EXCEPT ![c] =
            LET k == ClosedIfDone([@ EXCEPT !.buffered = stuck])
            IN  IF k.status = "http" THEN Unpolled([k EXCEPT !.timer = TRUE], stuck) ELSE k]
       /\ loop' = [loop EXCEPT !.failed = stuck]
  /\ UNCHANGED <<stack, calls, closed, log>>

\* callOnWritable: the handler is borrowed, a placeholder put in its place.
Writable(c) ==
  /\ stack = <<>> /\ sock[c].status = "http" /\ "write" \in sock[c].poll /\ sock[c].onWritable # 0
  /\ sock' = [sock EXCEPT ![c] = [@ EXCEPT !.timer = FALSE, !.onWritable = Placeholder]]
  /\ loop' = [loop EXCEPT !.failed = FALSE]
  /\ stack' = <<Frame("writable", c, "run", sock[c].onWritable)>>
  /\ UNCHANGED <<calls, closed, log>>

\* Variant: the borrowed handler is put back whatever has become of the placeholder.
PutBackAlways(k, handler) == IF k.status = "http" THEN [k EXCEPT !.onWritable = handler] ELSE k

\* The borrowed handler is put back if the placeholder is still there.
PutBack(k, handler) == IF k.onWritable = Placeholder THEN [k EXCEPT !.onWritable = handler] ELSE k

WritableReturn(c) ==
  /\ AtTop("writable", c)
  /\ sock[c].buffered /\ ~loop.failed => "skipsWriting" \in Scenarios
  /\ sock' = [sock EXCEPT ![c] = IF @.status = "http" THEN Unpolled(PutBack(@, Top.handler), loop.failed) ELSE @]
  /\ stack' = Below
  /\ UNCHANGED <<loop, calls, closed, log>>

AbortedReturn(c) ==
  /\ AtTop("aborted", c)
  /\ sock' = [sock EXCEPT ![c] = Destroyed(@)]
  /\ stack' = Below
  /\ UNCHANGED <<loop, calls, closed, log>>

OpenReturn(c) == AtTop("open", c) /\ stack' = Below /\ UNCHANGED <<sock, loop, calls, closed, log>>

\* The end of cork(): whoever holds the cork by then is uncorked.
CorkReturn(c) ==
  /\ AtTop("cork", c)
  /\ IF Top.mode = "run" \/ loop.corked = NoSocket THEN UNCHANGED <<sock, loop>>
     ELSE \E w \in Uncorked(loop.corked, sock[loop.corked]) :
            /\ sock' = [sock EXCEPT ![loop.corked] =
                 IF loop.corked = c /\ sock[c].status = "http" THEN ClosedIfDone(Armed(w))
                 ELSE w.k]
            /\ loop' = w.loop
  /\ stack' = Below
  /\ UNCHANGED <<calls, closed, log>>

\* FIN from the client, a timeout, an error of the descriptor.
Lost(c) ==
  /\ stack = <<>> /\ sock[c].status \in {"http", "websocket"}
  /\ sock[c].timer \/ "read" \in sock[c].poll
  /\ sock' = [sock EXCEPT ![c] = Closed(@)]
  /\ stack' = Aborting(c)
  /\ log' = Losing(c)
  /\ UNCHANGED <<loop, calls, closed>>

AppCloseStep(c) ==
  /\ AtTop("appClose", NoSocket) /\ sock[c].status \in {"http", "websocket"}
  /\ sock' = [sock EXCEPT ![c] = Closed(@)]
  /\ stack' = Aborting(c) \o stack
  /\ log' = Losing(c)
  /\ UNCHANGED <<loop, calls, closed>>

AppCloseReturn ==
  /\ AtTop("appClose", NoSocket) /\ \A c \in Sockets : sock[c].status \notin {"http", "websocket"}
  /\ stack' = Below
  /\ UNCHANGED <<sock, loop, calls, closed, log>>

-----------------------------------------------------------------------------

Init ==
  /\ sock = [c \in Sockets |-> Opened]
  /\ loop = [corked |-> NoSocket, bytes |-> FALSE, parsing |-> FALSE, upgraded |-> NoSocket, failed |-> FALSE]
  /\ stack = <<>> /\ calls = 0 /\ closed = FALSE
  /\ log = [c \in Sockets |-> <<>>]

Next ==
  \/ Call \/ AppCloseReturn
  \/ \E c \in Sockets :
       \/ ReadBegin(c) \/ Request(c) \/ Refuse(c) \/ RequestReturn(c) \/ Data(c) \/ DataReturn(c)
       \/ ParseError(c) \/ ReadEnd(c) \/ Drain(c) \/ Writable(c) \/ WritableReturn(c)
       \/ AbortedReturn(c) \/ OpenReturn(c) \/ CorkReturn(c) \/ Lost(c) \/ AppCloseStep(c)

Spec == Init /\ [][Next]_vars

-----------------------------------------------------------------------------
(* Properties.                                                             *)

\* Every variable has its type: no offset runs past the body, no counter past its bound.
TypeOK ==
  /\ sock \in [Sockets -> Socket]
  /\ loop \in [corked : Sockets \cup {NoSocket}, bytes : BOOLEAN, parsing : BOOLEAN,
               upgraded : Sockets \cup {NoSocket}, failed : BOOLEAN]
  /\ calls \in 0 .. MaxCalls /\ closed \in BOOLEAN
  /\ stack \in Seq([kind : Handlers \cup {"read", "appClose"}, socket : Sockets \cup {NoSocket},
                    mode : {"run", "parse", "due", "stop", "last", "more", "uncork"},
                    handler : 0 .. Placeholder \cup 1 .. MaxRequests])

\* A handle that JavaScript may still use belongs to the request under way on
\* an open HTTP connection (only the handler that was running when app.close()
\* closed its connection holds one a moment longer): invalidateResObject
\* and the captures of onAborted reach every object in time.
NoStaleHandle ==
  \A c \in Sockets : sock[c].handles # {} =>
    /\ sock[c].handles = {sock[c].request}
    /\ \/ sock[c].status = "http" /\ sock[c].pending
       \/ closed /\ OnStack(c, "request")

\* The onWritable handler in place is the one the application set last for
\* this response, or none if it is over; the placeholder is only there while
\* that handler runs (HttpResponseData::callOnWritable).
HandlerKept ==
  \A c \in Sockets :
    /\ sock[c].onWritable \in {Placeholder, sock[c].wanted}
    /\ sock[c].onWritable = Placeholder => OnStack(c, "writable")

\* Between events, an open connection whose timeout is not armed waits for the
\* application: it has a response to complete and the handle to do it with.
\* "End the response [...] Always starts a timeout." (HttpResponse.h:448)
IdleTimed ==
  stack = <<>> => \A c \in Sockets :
    sock[c].status = "http" /\ ~sock[c].timer => sock[c].pending /\ Holds(c)

\* Body data only goes to the handler of the request it belongs to
\* (the reset of inStream after the last chunk, HttpContext.h:272).
BodyToOwner ==
  stack # <<>> /\ Top.kind = "data" => Top.handler = sock[Top.socket].request

\* What a connection has buffered is polled for, or the application has paused it.
DrainPolled ==
  \A c \in Sockets : sock[c].status = "http" /\ sock[c].buffered => "write" \in sock[c].poll \/ sock[c].paused

\* Between events nobody holds the cork buffer and no upgrade is left to be
\* noticed by the parser of another socket.
AtRest == stack = <<>> => loop.corked = NoSocket /\ loop.upgraded = NoSocket /\ ~loop.parsing

\* What is lent is given back: the handler that runs, the cork buffer and the
\* note of an upgrade.
Returned == TypeOK /\ HandlerKept /\ AtRest

\* Between events, a connection that is to close after its response closes
\* once that is complete and sent.
CloseHonoured ==
  stack = <<>> => \A c \in Sockets : sock[c].status = "http" /\ sock[c].last /\ ~sock[c].pending => sock[c].buffered

\* Requests are handed over one at a time and each is settled once.
Abstract == INSTANCE Exchanges

ImplementsExchanges == Abstract!Spec

=============================================================================
