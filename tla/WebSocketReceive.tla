-------------------------- MODULE WebSocketReceive --------------------------
(***************************************************************************)
(* The receiving side of a WebSocket: the frame parser of                  *)
(* src/native/uwebsockets/WebSocketProtocol.h and what it calls in         *)
(* WebSocketContext.h, as a server and as a client.                        *)
(*                                                                         *)
(* The peer sends "frames"; their bytes arrive in reads of any size.  Head *)
(* sizes and the mask are those of the code.  A payload byte is its value  *)
(* and the byte of the mask it was masked with: unmasked with another one  *)
(* it is noise.  The length of a medium or long head is in its first       *)
(* length byte; "z" is a byte of a compressed payload, "bad" one that no   *)
(* UTF-8 text has, "code" one of a valid close code.  "reserved" stands    *)
(* for the reserved bits as well as for the reserved opcodes.              *)
(***************************************************************************)
EXTENDS Integers, Sequences, FiniteSets, SequencesExt

CONSTANTS
  Frames,       \* what the peer's frames are taken from
  MaxFrames,    \* bound: frames of a conversation
  MaxPayload,   \* maxPayloadLength
  Behaviors,    \* the sets of handlers an application may have set, of AllHandlers
  Scenarios     \* conversations beyond those the parser is right about, of AllScenarios

AllScenarios == {"splitHead", "interleaved", "compressedControl"}

\* "dropped" is one that ends or closes the connection of the PONG it gets.
AllHandlers == {"message", "ping", "pong", "dropped"}

ASSUME ReceiveAssumption ==
  /\ {MaxFrames, MaxPayload} \subseteq Nat \ {0}
  /\ Scenarios \subseteq AllScenarios /\ Behaviors \subseteq SUBSET AllHandlers

VARIABLES
  role,     \* "server" or "client": isServer
  handlers, \* messageHandler, pingHandler, pongHandler and droppedHandler, those set
  frames,   \* history: what the peer sends
  input,    \* what of it has not been read
  ws,       \* WebSocketState and WebSocketData
  conn,     \* "open", "ending" (isShuttingDown) or "closed"
  run,      \* where consume is, and the data it has not consumed
  log       \* history: what the handlers were called with, or would be if set

vars == <<role, handlers, frames, input, ws, conn, run, log>>

-----------------------------------------------------------------------------
(* What the peer sends.                                                    *)

Control == {"close", "ping", "pong"}

Data == {"text", "binary"}

Masking == IF role = "server" THEN 4 ELSE 0

LengthSize(kind) == CASE kind = "short" -> 0 [] kind = "medium" -> 2 [] kind = "long" -> 8

\* SHORT_MESSAGE_HEADER, MEDIUM_MESSAGE_HEADER and LONG_MESSAGE_HEADER.
HeadSize(kind) == 2 + LengthSize(kind) + Masking

Encoded(f) ==
  <<[op |-> f.op, fin |-> f.fin, rsv1 |-> f.rsv1]>>
  \o <<[kind |-> f.kind, size |-> f.size, masked |-> role = "server"]>>
  \o [i \in 1 .. LengthSize(f.kind) |-> [size |-> f.size]]
  \o [i \in 1 .. Masking |-> [mask |-> i - 1]]
  \o [i \in 1 .. Len(f.payload) |-> [value |-> f.payload[i], by |-> IF role = "server" THEN (i - 1) % 4 ELSE 0]]

\* The message before frame i has not had its last frame.
Unfinished(fs, i) ==
  LET before == {j \in 1 .. i - 1 : fs[j].op \notin Control}
  IN  before # {} /\ ~fs[Max(before)].fin

InScenario(fs) ==
  {s \in AllScenarios :
     \E i \in DOMAIN fs :
       CASE s = "splitHead" -> fs[i].rsv1 /\ fs[i].kind # "short"
         [] s = "interleaved" -> /\ fs[i].op \in Data /\ Unfinished(fs, i)
                                 /\ fs[i].op = "binary" \/ fs[i - 1].op \in Control
         [] s = "compressedControl" -> fs[i].rsv1 /\ fs[i].op \notin Data}

Conversations == {fs \in [1 .. MaxFrames -> Frames] : InScenario(fs) \subseteq Scenarios}

-----------------------------------------------------------------------------
(* What handleFragment does with a part of a payload.                      *)

\* Every byte of a compressed payload inflates to two; nothing else inflates.
Inflates(data) == {data[i] : i \in DOMAIN data} \subseteq {"z"} /\ 2 * Len(data) <= MaxPayload

Inflated(data) == [i \in 1 .. 2 * Len(data) |-> "a"]

Event(type, data) == [type |-> type, data |-> data]

Refused == Event("refused", <<>>)

\* parseClosePayload.
ParseClosePayload(data) ==
  IF Len(data) < 2 THEN <<"1005">>
  ELSE IF SubSeq(data, 1, 2) # <<"code", "code">> \/ \E i \in 3 .. Len(data) : data[i] = "bad" THEN <<"1006">>
  ELSE data

Outcome(state, events) == [ws |-> state, events |-> events]

\* A whole message: inflated, checked and handed over.
WholeMessage(state, op, data) ==
  LET frame == state.compression = "frame"
      text  == IF frame THEN Inflated(data) ELSE data
  IN  CASE frame /\ ~Inflates(data) -> Outcome(state, <<Refused>>)
        [] (~frame \/ Inflates(data)) /\ op = "text" /\ \E i \in DOMAIN text : text[i] \in {"bad", "noise"} ->
             Outcome(state, <<Refused>>)
        [] OTHER -> Outcome([state EXCEPT !.compression = IF frame THEN "enabled" ELSE @], <<Event(op, text)>>)

WholeControl(state, op, data) ==
  Outcome(state, <<Event(op, IF op = "close" THEN ParseClosePayload(data) ELSE data)>>)

\* Variant: only single frames are measured.
AcceptsAny(length) == TRUE

\* refusePayloadLength, of what the fragments add up to.
Accepts(length) == length <= MaxPayload

DataFragment(state, op, data, remaining, fin) ==
  LET all == state.buffer \o data
  IN  CASE remaining = 0 /\ fin /\ state.buffer = <<>> -> WholeMessage(state, op, data)
        [] (remaining > 0 \/ ~fin \/ state.buffer # <<>>) /\ ~Accepts(Len(all)) -> Outcome(state, <<Refused>>)
        [] OTHER -> IF remaining = 0 /\ fin THEN WholeMessage([state EXCEPT !.buffer = <<>>], op, all)
                    ELSE Outcome([state EXCEPT !.buffer = all], <<>>)

\* A control frame in parts is collected behind the message it interrupts.
ControlFragment(state, op, data, remaining, fin) ==
  LET all == state.buffer \o data
      tip == state.tip + Len(data)
      kept == Len(all) - tip
  IN  CASE remaining = 0 /\ fin /\ state.tip = 0 -> WholeControl(state, op, data)
        [] remaining = 0 /\ fin /\ state.tip # 0 ->
             WholeControl([state EXCEPT !.buffer = SubSeq(all, 1, kept), !.tip = 0], op, SubSeq(all, kept + 1, Len(all)))
        [] OTHER -> Outcome([state EXCEPT !.buffer = all, !.tip = tip], <<>>)

HandleFragment(state, data, remaining, fin) ==
  LET op == state.opCode[state.opStack]
  IN  IF op \in Data THEN DataFragment(state, op, data, remaining, fin)
      ELSE ControlFragment(state, op, data, remaining, fin)

-----------------------------------------------------------------------------
(* consume.                                                                *)

At(pc, data) == [pc |-> pc, data |-> data]

\* Variant: only a closed connection stops the parser.
StopsWhenClosed(state) == state = "closed"

\* Whether handleFragment returns true: "check if we are closed or shut down".
Stops(state) == state # "open"

\* What application code may leave of a connection.
Left(state) ==
  CASE state = "open" -> {"open", "ending", "closed"} [] state = "ending" -> {"ending", "closed"} [] state = "closed" -> {"closed"}

Handler(type) == IF type \in Data THEN "message" ELSE type

\* The handler of a message, a ping or a pong may end or close the connection,
\* which is looked at only where one is set; without one it can only be the
\* dropped handler of the PONG that answers a ping.  A close frame is answered
\* with end().
Called(events, next) ==
  /\ log' = log \o events
  /\ IF events = <<>> THEN conn' = conn /\ run' = next
     ELSE LET type == events[1].type
              set  == Handler(type) \in handlers
          IN  /\ conn' \in (CASE type = "refused" -> {"closed"}
                              [] type = "close" -> {IF conn = "open" THEN "ending" ELSE conn}
                              [] OTHER -> IF set \/ (type = "ping" /\ "dropped" \in handlers) THEN Left(conn) ELSE {conn})
              /\ run' = IF (type \in {"refused", "close"} \/ set) /\ Stops(conn') THEN At("idle", <<>>) ELSE next
  /\ UNCHANGED <<role, handlers, frames, input>>

Refuse == Called(<<Refused>>, At("idle", <<>>)) /\ UNCHANGED ws

\* The payload bytes, from the one that the first byte of the mask is for.
Unmasked(data, mask) ==
  [i \in DOMAIN data |-> IF role = "client" \/ data[i].by = (mask + i - 1) % 4 THEN data[i].value ELSE "noise"]

\* "When in websocket shutdown mode, we do not care for ANY message".
Heeds(state) == state = "open"

Read ==
  /\ run.pc = "idle" /\ conn # "closed"
  /\ \E n \in 1 .. Len(input) :
       /\ input' = SubSeq(input, n + 1, Len(input))
       /\ run' = IF Heeds(conn) THEN At(IF ws.wantsHead THEN "head" ELSE "continue", ws.spill \o SubSeq(input, 1, n))
                 ELSE run
  /\ UNCHANGED <<role, handlers, frames, ws, conn, log>>

\* The checks of consume on the first two bytes of a head.
Invalid(first, second) ==
  \/ first.rsv1 /\ ws.compression # "enabled"
  \/ first.op \notin Control \cup Data \cup {"continuation"}
  \/ first.op \in Control /\ (~first.fin \/ second.kind # "short")
  \/ role = "client" /\ second.masked

\* setCompressed.
Marked(first) == IF first.rsv1 THEN [ws EXCEPT !.compression = "frame"] ELSE ws

OutOfPlace(first) ==
  IF first.op = "continuation" THEN ws.opStack = -1
  ELSE ws.opStack = 1 \/ (~ws.lastFin /\ first.op = "text")

\* consumeMessage, with "pushed" the opcode on the stack.
ConsumeMessage(first, size, kind) ==
  LET head   == HeadSize(kind)
      top    == IF first.op = "continuation" THEN ws.opStack ELSE ws.opStack + 1
      pushed == [Marked(first) EXCEPT !.opStack = top, !.lastFin = first.fin, !.spill = <<>>,
                                      !.opCode = IF first.op = "continuation" THEN @ ELSE [@ EXCEPT ![top] = first.op]]
      whole  == size + head <= Len(run.data)
      here   == SubSeq(run.data, head + 1, IF whole THEN head + size ELSE Len(run.data))
      part   == [pushed EXCEPT !.wantsHead = FALSE, !.remaining = size - Len(here), !.mask = Len(here) % 4]
      does   == HandleFragment(IF whole THEN pushed ELSE part, Unmasked(here, 0), size - Len(here), first.fin)
  IN  /\ ws' = [does.ws EXCEPT !.opStack = IF whole /\ first.fin THEN @ - 1 ELSE @]
      /\ Called(does.events, IF whole THEN At("head", SubSeq(run.data, head + size + 1, Len(run.data))) ELSE At("idle", <<>>))

\* What is left is no whole head and is kept for the next read.
Keep(state) ==
  /\ ws' = IF run.data = <<>> THEN state ELSE [state EXCEPT !.spill = run.data]
  /\ Called(<<>>, At("idle", <<>>))

ReadHead ==
  /\ run.pc = "head"
  /\ IF Len(run.data) < HeadSize("short") THEN Keep(ws)
     ELSE LET first == run.data[1]
              kind  == run.data[2].kind
              size  == IF kind = "short" THEN run.data[2].size ELSE run.data[3].size
          IN  CASE Invalid(first, run.data[2]) -> Refuse
                [] ~Invalid(first, run.data[2]) /\ Len(run.data) < HeadSize(kind) -> Keep(Marked(first))
                [] OTHER -> IF OutOfPlace(first) \/ size > MaxPayload THEN Refuse
                            ELSE ConsumeMessage(first, size, kind)

\* Variant: the mask begins anew with every read.
RotatesNever(mask, n) == mask

\* rotateMask.
Rotated(mask, n) == (mask + n) % 4

\* consumeContinuation.
Continue ==
  /\ run.pc = "continue"
  /\ LET whole == ws.remaining <= Len(run.data)
         n     == IF whole THEN ws.remaining ELSE Len(run.data)
         part  == [ws EXCEPT !.remaining = @ - n]
         does  == HandleFragment(part, Unmasked(SubSeq(run.data, 1, n), ws.mask), ws.remaining - n, ws.lastFin)
     IN  /\ ws' = [does.ws EXCEPT !.opStack = IF whole /\ ws.lastFin THEN @ - 1 ELSE @,
                                  !.wantsHead = whole, !.mask = IF whole THEN 0 ELSE Rotated(@, n)]
         /\ Called(does.events, IF whole THEN At("head", SubSeq(run.data, n + 1, Len(run.data))) ELSE At("idle", <<>>))

RECURSIVE Stream(_)
Stream(fs) == IF fs = <<>> THEN <<>> ELSE Encoded(Head(fs)) \o Stream(Tail(fs))

Init ==
  /\ role \in {"server", "client"}
  /\ handlers \in Behaviors
  /\ frames \in Conversations
  /\ input = Stream(frames)
  /\ \E compression \in {"disabled"} \cup {c \in {"enabled"} : \E i \in DOMAIN frames : frames[i].rsv1} :
       ws = [wantsHead |-> TRUE, spill |-> <<>>, opStack |-> -1, lastFin |-> TRUE, opCode |-> [i \in 0 .. 1 |-> "none"],
             remaining |-> 0, mask |-> 0, buffer |-> <<>>, tip |-> 0, compression |-> compression]
  /\ conn = "open"
  /\ run = At("idle", <<>>)
  /\ log = <<>>

Next == Read \/ ReadHead \/ Continue

Spec == Init /\ [][Next]_vars

-----------------------------------------------------------------------------
(* Properties.                                                             *)

None == [op |-> "none", data |-> <<>>, zipped |-> FALSE]

Acceptable(f, part) ==
  /\ f.rsv1 => ws.compression # "disabled" /\ f.op \in Data
  /\ f.op \in Control \cup Data \cup {"continuation"}
  /\ f.op \in Control => f.fin /\ f.kind = "short"
  /\ f.op \in Data => part = None
  /\ f.op = "continuation" => part # None
  /\ f.op \in Control \/ Len(part.data) + f.size <= MaxPayload

\* What frames mean, whatever reads they come in: RFC 6455 and 7692.
RECURSIVE Meaning(_, _)
Meaning(fs, part) ==
  IF fs = <<>> THEN <<>>
  ELSE LET f   == Head(fs)
           now == [op     |-> IF f.op \in Data THEN f.op ELSE part.op,
                   data   |-> part.data \o f.payload,
                   zipped |-> IF f.op \in Data THEN f.rsv1 ELSE part.zipped]
           text == IF now.zipped THEN Inflated(now.data) ELSE now.data
       IN  CASE ~Acceptable(f, part) -> <<Refused>>
             [] Acceptable(f, part) /\ f.op = "close" -> <<Event("close", ParseClosePayload(f.payload))>>
             [] Acceptable(f, part) /\ f.op \in {"ping", "pong"} -> <<Event(f.op, f.payload)>> \o Meaning(Tail(fs), part)
             [] OTHER ->
                  CASE ~f.fin -> Meaning(Tail(fs), now)
                    [] f.fin /\ ((now.zipped /\ ~Inflates(now.data)) \/ (now.op = "text" /\ \E i \in DOMAIN text : text[i] = "bad")) ->
                         <<Refused>>
                    [] OTHER -> <<Event(now.op, text)>> \o Meaning(Tail(fs), None)

\* However the bytes are split into reads, the handlers are called with what
\* the frames mean, unmasked, put together and in order, and the connection is
\* refused exactly for what may not be sent; nothing is left out when all of
\* it has been read ("reassembles a control frame split across TCP segments",
\* test/websocket/index.test.ts:1276).
Faithful ==
  /\ IsPrefix(log, Meaning(frames, None))
  /\ input = <<>> /\ run.pc = "idle" /\ conn = "open" => log = Meaning(frames, None)

\* A connection is refused only for frames that may not be sent: a head that is
\* looked at again when more of it has arrived, "set compressed frame" and all
\* (WebSocketProtocol.h:477), is the same head.
RefusesOnlyInvalid == Refused \in Range(log) => Refused \in Range(Meaning(frames, None))

\* "not emitting any message after closing is key" (WebSocketContext.h:412): no
\* handler is called once a handler, or the peer, has ended the connection.  The
\* exception is the dropped handler of a PONG: the parser goes on behind a ping
\* that no ping handler is set for.
NothingAfterEnd == [][conn # "open" => log' = log]_vars

\* What a connection holds between reads is bounded: a message up to the limit
\* and a control frame behind it, a part of a head that fits "spill", and the
\* opcodes of one message and one control frame, the only one left when all is
\* finished.
Bounded ==
  /\ Len(ws.buffer) - ws.tip <= MaxPayload /\ ws.tip <= 125
  /\ Len(ws.spill) < HeadSize("long")
  /\ ws.opStack \in -1 .. 1
  /\ run.pc = "idle" /\ conn = "open" /\ ws.wantsHead /\ ws.opStack = -1 => ws.buffer = <<>> /\ ws.tip = 0

=============================================================================
