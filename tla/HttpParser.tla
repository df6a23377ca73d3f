----------------------------- MODULE HttpParser -----------------------------
(***************************************************************************)
(* The HTTP request parser: src/native/uwebsockets/HttpParser.h and        *)
(* ChunkedEncoding.h, with the collector of whole bodies of                *)
(* src/native/addon/HttpResponseWrapper.h behind it.                       *)
(*                                                                         *)
(* A client sends "messages"; the bytes arrive in reads of any size, and   *)
(* the parser must make the same requests and bodies of them.  A byte, or  *)
(* a few that the parser treats as one, is a token: "GET" is a method and  *)
(* a target, "HTTP" the version and the end of the request line, a field   *)
(* name is one token, digits stand for decimal and hexadecimal ones, "CTL" *)
(* is a byte no field may have.                                            *)
(*                                                                         *)
(* consumePostPadded is a machine: "run" is where it is and the data of    *)
(* the read it has not consumed.                                           *)
(***************************************************************************)
EXTENDS Integers, Sequences, FiniteSetsExt

CONSTANTS
  Base,          \* of numbers (10 and 16 in the code)
  SizeDigits,    \* hexadecimal digits a chunk size has room for (15)
  LengthDigits,  \* digits a content length may have (18)
  MaxHead,       \* maxHeaderSize
  MaxFields,     \* UWS_HTTP_MAX_HEADERS_COUNT - 2
  MaxCollect,    \* maxSize of collectBody
  Faults         \* the ways a message may be malformed, or be taken for it

InHead == {"noHost", "twoHosts", "both", "control", "version", "fields", "long",
           "collides",  \* well formed, but the Bloom filter takes one of its names for "host"
           "noName"}    \* a second host behind a field whose name is empty

InBody == {"length", "longLength", "size", "bigSize", "hugeSize", "terminator"}

ASSUME ParserAssumption ==
  /\ Base \in 2 .. 4 /\ {SizeDigits, LengthDigits, MaxFields} \subseteq Nat \ {0}
  /\ MaxHead \in 19 .. 99 /\ MaxCollect \in Nat
  /\ Faults \subseteq InHead \cup InBody

VARIABLES
  messages,   \* history: what the client sends
  input,      \* what of it has not been read
  parser,     \* fallback, remainingStreamingBytes and trailerTail
  run,        \* where consumePostPadded is
  served      \* history: the requests handed over, and their bodies

vars == <<messages, input, parser, run, served>>

-----------------------------------------------------------------------------
(* What a client sends.                                                    *)

Digits == <<"0", "1", "2", "3">>

IsDigit(t) == \E i \in 1 .. Base : Digits[i] = t

Value(t) == (CHOOSE i \in 1 .. Base : Digits[i] = t) - 1

Number(n) == IF n < Base THEN <<Digits[n + 1]>> ELSE <<Digits[(n \div Base) + 1], Digits[(n % Base) + 1]>>

CRLF == <<"CR", "LF">>

Field(name, value) == <<name, ":">> \o value \o CRLF

Bodies == {<<"x">>, <<"0", "CR", "LF">>, <<"GET", "HTTP", "x", "CR">>}

Plain == [framing |-> "none", chunks |-> <<>>, extension |-> FALSE, trailer |-> FALSE, bad |-> "no"]

\* A request whose head is as long as a head may be.
Longest == [Plain EXCEPT !.framing = "longest"]

Sized == {[Plain EXCEPT !.framing = "length", !.chunks = <<b>>] : b \in Bodies \cup {<<>>}}

Chunkings == {<<>>} \cup {<<b>> : b \in Bodies} \cup {<<b, <<"x">>>> : b \in Bodies}

Chunked == {[framing |-> "chunked", chunks |-> chunks, extension |-> e, trailer |-> t, bad |-> "no"] :
              chunks \in Chunkings, e \in BOOLEAN, t \in BOOLEAN}

Malformed ==
  {[Plain EXCEPT !.bad = fault] : fault \in Faults \cap InHead}
  \cup {[Plain EXCEPT !.framing = "length", !.chunks = <<<<"x">>>>, !.bad = fault] :
          fault \in Faults \cap {"length", "longLength"}}
  \cup {[Plain EXCEPT !.framing = "chunked", !.chunks = <<<<"x">>>>, !.bad = fault] :
          fault \in Faults \cap {"size", "bigSize", "hugeSize", "terminator"}}

\* One message and a plain or a sized one behind it, or one malformed message
\* behind a good one.
Conversations ==
  {<<m, n>> : m \in {Plain, Longest} \cup Sized \cup Chunked, n \in {Plain} \cup Sized}
  \cup {<<m, n>> : m \in {Plain} \cup {c \in Chunked : Len(c.chunks) = 2}, n \in Malformed}

Repeat(n, s) == [i \in 1 .. n * Len(s) |-> s[((i - 1) % Len(s)) + 1]]

Body(m) == IF m.chunks = <<>> THEN <<>> ELSE IF Len(m.chunks) = 1 THEN m.chunks[1] ELSE m.chunks[1] \o m.chunks[2]

Chunk(m, body) ==
  (CASE m.bad = "bigSize" -> Repeat(SizeDigits, <<"1">>) \o <<"0">>
     [] m.bad = "hugeSize" -> Repeat(SizeDigits, <<Digits[Base]>>)
     [] m.bad = "size" -> <<"x">>
     [] OTHER -> Number(Len(body)))
  \o (IF m.extension THEN <<";", "x">> ELSE <<>>) \o CRLF
  \o (IF m.bad = "hugeSize" THEN <<"GET", "HTTP">> \o Field("host", <<"x">>) \o CRLF ELSE body)
  \o (IF m.bad = "terminator" THEN <<"x", "x">> ELSE CRLF)

RequestHead(m) ==
  (IF m.bad = "version" THEN <<"GET", "LF">> ELSE <<"GET", "HTTP">>)
  \o (IF m.bad = "collides" THEN Field("twin", <<>>) ELSE <<>>)
  \o (IF m.bad = "noHost" THEN Field("other", <<"x">>) ELSE Field("host", <<"x">>))
  \o (IF m.bad = "noName" THEN <<":", "x">> \o CRLF \o Field("host", <<"x">>) ELSE <<>>)
  \o (IF m.bad = "twoHosts" THEN Field("host", <<"x">>) ELSE <<>>)
  \o (IF m.bad = "control" THEN Field("other", <<"CTL">>) ELSE <<>>)
  \o (IF m.bad = "fields" THEN Repeat(MaxFields, Field("other", <<>>)) ELSE <<>>)
  \o (IF m.bad = "long" THEN Field("other", Repeat(MaxHead - 12, <<"x">>)) ELSE <<>>)
  \o (IF m.framing = "longest" THEN Field("other", Repeat(MaxHead - 13, <<"x">>)) ELSE <<>>)
  \o (CASE m.bad = "longLength" -> Field("length", Repeat(LengthDigits + 1, <<"0">>))
        [] m.bad = "length" -> Field("length", <<"x">>)
        [] m.framing = "length" /\ m.bad = "no" -> Field("length", Number(Len(Body(m))))
        [] m.bad = "both" -> Field("length", <<"0">>) \o Field("encoding", <<"x">>)
        [] m.framing = "chunked" -> Field("encoding", <<"x">>)
        [] OTHER -> <<>>)
  \o CRLF

Encoded(m) ==
  RequestHead(m)
  \o (CASE m.framing = "length" -> Body(m)
        [] m.framing = "chunked" ->
             (IF m.chunks = <<>> THEN <<>> ELSE Chunk(m, m.chunks[1]))
             \o (IF Len(m.chunks) = 2 THEN Chunk(m, m.chunks[2]) ELSE <<>>)
             \o <<"0">> \o CRLF \o (IF m.trailer THEN Field("other", <<"x">>) ELSE <<>>) \o CRLF
        [] OTHER -> <<>>)

-----------------------------------------------------------------------------
(* A request head.                                                         *)

More == [is |-> "more"]

Error == [is |-> "error"]

Find(data, from, tokens) ==
  LET hits == {i \in from .. Len(data) : data[i] \in tokens}
  IN  IF hits = {} THEN Len(data) + 1 ELSE Min(hits)

Token(data, i) == IF i <= Len(data) THEN data[i] ELSE "end"

Names == {"host", "length", "encoding", "other", "twin", "x", "GET"}

\* What the loops over the headers see: an empty name ends the list.
Listed(fields) == SubSeq(fields, 1, Min({i \in DOMAIN fields : fields[i].name = ""} \cup {Len(fields) + 1}) - 1)

\* getHeaders from a field on; its name may be empty.  What ends at the fence
\* that is put behind the data is tried again with more of it.
RECURSIVE Fields(_, _, _)
Fields(data, at, fields) ==
  LET name  == IF Token(data, at) = ":" THEN "" ELSE Token(data, at)
      colon == IF name = "" THEN at ELSE at + 1
      stop  == Find(data, colon + 1, {"CR", "LF", "CTL"})
      next  == stop + 2
      all   == Append(fields, [name |-> name, value |-> SubSeq(data, colon + 1, stop - 1)])
      ends  == Token(data, next) = "CR"
  IN  IF at > Len(data) \/ (at = Len(data) /\ name \in Names) THEN More
      ELSE IF name \notin Names \cup {""} \/ data[colon] # ":" \/ Token(data, stop) \in {"LF", "CTL"} THEN Error
      ELSE CASE Token(data, stop) = "end" \/ Token(data, stop + 1) # "LF" \/ Token(data, next) = "end" -> More
             [] ends /\ Token(data, next + 1) = "LF" -> [is |-> "head", consumed |-> next + 1, fields |-> Listed(all)]
             [] ends /\ Token(data, next + 1) = "end" -> More
             [] ends /\ Token(data, next + 1) \notin {"LF", "end"} -> Error
             [] OTHER -> IF Len(all) = MaxFields THEN Error ELSE Fields(data, next, all)

\* consumeRequestLine: a CR may be the fence, so it is no error.
GetHeaders(data) ==
  CASE data[1] = "CR" \/ data = <<"GET">> \/ (data[1] = "GET" /\ Token(data, 2) = "CR") -> More
    [] data[1] = "GET" /\ Token(data, 2) = "HTTP" -> IF Len(data) = 2 THEN More ELSE Fields(data, 3, <<>>)
    [] OTHER -> Error

ValueOf(fields, name) ==
  LET at == {i \in DOMAIN fields : fields[i].name = name} IN IF at = {} THEN <<>> ELSE fields[Min(at)].value

\* The bits of a name in the Bloom filter: the common names share none, some
\* other ones have those of a common name.
Bits(name) == CASE name = "host" -> {1, 2} [] name = "length" -> {3, 4} [] name = "encoding" -> {5, 6}
                [] name = "twin" -> {1, 2, 7} [] OTHER -> {8}

MightHave(fields, name) == Bits(name) \subseteq UNION {Bits(fields[i].name) : i \in DOMAIN fields}

\* The checks of fenceAndConsumePostPadded before a request is dispatched.  Of
\* a name that may be there twice only the filter is asked: getHeader always
\* finds the field itself.
WellFormed(head) ==
  /\ head.consumed <= MaxHead
  /\ \A i \in DOMAIN head.fields :
       head.fields[i].name \in {"host", "length", "encoding"} =>
         ~MightHave(SubSeq(head.fields, 1, i - 1), head.fields[i].name)
  /\ \E i \in DOMAIN head.fields : head.fields[i].name = "host"
  /\ ValueOf(head.fields, "length") = <<>> \/ ValueOf(head.fields, "encoding") = <<>>

RECURSIVE Unsigned(_, _)
Unsigned(digits, n) == IF digits = <<>> THEN n ELSE Unsigned(Tail(digits), n * Base + Value(Head(digits)))

\* toUnsignedInteger, or -1.
ToUnsignedInteger(value) ==
  IF Len(value) > LengthDigits \/ \E i \in DOMAIN value : ~IsDigit(value[i]) THEN -1 ELSE Unsigned(value, 0)

-----------------------------------------------------------------------------
(* Chunked encoding: remainingStreamingBytes is a size and four flags.     *)

RECURSIVE Power(_, _)
Power(b, n) == IF n = 0 THEN 1 ELSE b * Power(b, n - 1)

State(size, flags) == [size |-> size, flags |-> flags]

Nothing == State(0, {})

IsError == State(Power(Base, SizeDigits) - 1, {"size", "chunked", "extension", "trailer"})

IsTrailer == State(0, {"trailer"})

RECURSIVE SizeOf(_, _)
SizeOf(data, st) ==
  IF data = <<>> \/ "extension" \in st.flags \/ Head(data) \in {"CR", "LF"} THEN [data |-> data, state |-> st]
  ELSE IF Head(data) = ";"
  THEN [data |-> Tail(data), state |-> [st EXCEPT !.flags = @ \cup {"extension"}]]
  ELSE IF ~IsDigit(Head(data)) \/ st.size >= Power(Base, SizeDigits - 1) THEN [data |-> data, state |-> IsError]
  ELSE SizeOf(Tail(data), State(st.size * Base + Value(Head(data)), {"chunked"}))

\* consumeHexNumber: the size, and everything to the end of its line.  The
\* size includes the CR LF after the chunk; it carries into the next flag.
ConsumeHexNumber(data, st) ==
  LET s    == SizeOf(data, st)
      lf   == Find(s.data, 1, {"LF"})
      room == Power(Base, SizeDigits)
  IN  IF s.state = IsError THEN s
      ELSE IF lf > Len(s.data) THEN [s EXCEPT !.data = <<>>]
      ELSE [data  |-> SubSeq(s.data, lf + 1, Len(s.data)),
            state |-> State((s.state.size + 2) % room,
                            {"size", "chunked"} \cup {f \in {"trailer"} : s.state.size + 2 >= room})]

NoChunk(data, st) == [data |-> data, state |-> st, emits |-> FALSE, chunk |-> <<>>]

\* getNextChunk.
RECURSIVE NextChunk(_, _)
NextChunk(data, st) ==
  LET hex  == ConsumeHexNumber(data, st)
      rest == SubSeq(data, st.size + 1, Len(data))
      part == IF st.size > 2 THEN SubSeq(data, 1, Min({Len(data), st.size - 2})) ELSE <<>>
      whole == Len(data) >= st.size
  IN  CASE data = <<>> \/ "trailer" \in st.flags -> NoChunk(data, st)
        [] data # <<>> /\ st.flags \cap {"trailer", "size"} = {} ->
             CASE hex.state = IsError -> NoChunk(hex.data, hex.state)
               [] hex.state = State(2, {"size", "chunked"}) ->
                    [data |-> hex.data, state |-> IsTrailer, emits |-> TRUE, chunk |-> <<>>]
               [] OTHER -> NextChunk(hex.data, hex.state)
        [] OTHER ->
             CASE whole /\ ((st.size >= 2 /\ data[st.size - 1] # "CR") \/ data[st.size] # "LF") -> NoChunk(data, IsError)
               [] ~whole /\ Len(data) = st.size - 1 /\ data[Len(data)] # "CR" -> NoChunk(data, IsError)
               [] OTHER ->
                    IF whole /\ part = <<>> THEN NextChunk(rest, State(0, {"chunked"}))
                    ELSE [data |-> IF whole THEN rest ELSE <<>>, emits |-> part # <<>>, chunk |-> part,
                          state |-> IF whole THEN State(0, {"chunked"}) ELSE [st EXCEPT !.size = @ - Len(data)]]

\* The states of trailerTail: nothing yet, after CR, CR LF, CR LF CR, a first
\* CR, within a trailer.
TailAfter(tail, token) ==
  CASE tail = 0 -> IF token = "CR" THEN 4 ELSE 5
    [] tail = 4 -> IF token = "CR" THEN 1 ELSE 5
    [] OTHER -> CASE token = "CR" -> IF tail = 2 THEN 3 ELSE 1
                  [] token = "LF" -> IF tail = 1 THEN 2 ELSE 5
                  [] OTHER -> 5

\* consumeChunkedTrailer.
RECURSIVE ConsumeTrailer(_, _, _)
ConsumeTrailer(data, st, tail) ==
  IF data = <<>> \/ st # IsTrailer THEN [data |-> data, state |-> st, tail |-> tail]
  ELSE IF Head(data) = "LF" /\ tail \in {3, 4} THEN [data |-> Tail(data), state |-> Nothing, tail |-> 0]
  ELSE ConsumeTrailer(Tail(data), st, TailAfter(tail, Head(data)))

-----------------------------------------------------------------------------
(* What receives a body.                                                   *)

NewRequest == [body |-> <<>>, lasts |-> 0, buffer |-> <<>>, started |-> FALSE, overflow |-> FALSE, calls |-> <<>>]

\* Variant: a body is only measured when a second part of it arrives.
CollectedLate(r, chunk, left) ==
  CASE r.overflow -> r
    [] ~r.overflow /\ r.started /\ Len(chunk) > MaxCollect - Len(r.buffer) ->
         [r EXCEPT !.buffer = <<>>, !.overflow = TRUE, !.calls = Append(@, <<"null">>)]
    [] OTHER -> [r EXCEPT !.buffer = @ \o chunk, !.started = TRUE,
                          !.calls = IF left = 0 THEN Append(@, r.buffer \o chunk) ELSE @]

\* The data handler of collectBody: the whole body once, or null.
Collected(r, chunk, left) ==
  CASE r.overflow -> r
    [] ~r.overflow /\ Len(chunk) > MaxCollect - Len(r.buffer) ->
         [r EXCEPT !.buffer = <<>>, !.overflow = TRUE, !.calls = Append(@, <<"null">>)]
    [] OTHER -> [r EXCEPT !.buffer = @ \o chunk, !.started = TRUE,
                          !.calls = IF left = 0 THEN Append(@, r.buffer \o chunk) ELSE @]

\* The data handler of the last request is called: "left" is 0 with the last
\* of the data, -1 if it is not known.
Delivered(requests, chunk, left) ==
  LET n == Len(requests)
  IN  [requests EXCEPT ![n] = [Collected(@, chunk, left) EXCEPT !.body = requests[n].body \o chunk,
                                                                !.lasts = IF left = 0 THEN @ + 1 ELSE @]]

-----------------------------------------------------------------------------
(* consumePostPadded.                                                      *)

At(pc, data) == [pc |-> pc, data |-> data, had |-> 0, consumed |-> 0]

\* A read: the rest of a body, the rest of a head, or a new head.
Read ==
  /\ run.pc = "idle" /\ input # <<>>
  /\ \E n \in 1 .. Len(input) :
       /\ input' = SubSeq(input, n + 1, Len(input))
       /\ run' = At(CASE parser.remaining # Nothing -> "stream"
                      [] parser.remaining = Nothing /\ parser.fallback # <<>> -> "fallback"
                      [] OTHER -> "head", SubSeq(input, 1, n))
  /\ UNCHANGED <<messages, parser, served>>

Stop == run' = At("refused", <<>>) /\ UNCHANGED <<messages, input, parser, served>>

\* Variant: no empty chunk for an empty body whose head came in parts.
DueAfterHead(length, minimally) == length = 0 /\ ~minimally

\* A sized body with nothing in it is over with its head.
DueAtOnce(length, minimally) == length = 0

\* A head was found: the request is dispatched, and its body announced.  The
\* handler may close or upgrade the connection.
Dispatch(head, minimally, rest, kept) ==
  LET length  == ValueOf(head.fields, "length")
      number  == ToUnsignedInteger(length)
      chunked == ValueOf(head.fields, "encoding") # <<>>
      with    == Append(served, NewRequest)
      empty   == length = <<>> \/ DueAtOnce(number, minimally)
  IN  \/ served' = with /\ run' = At("stopped", <<>>) /\ UNCHANGED parser
      \/ /\ chunked
         /\ parser' = [fallback |-> kept, remaining |-> State(0, {"chunked"}), tail |-> 0]
         /\ served' = with
         /\ run' = [rest EXCEPT !.pc = "stream"]
      \/ /\ ~chunked /\ length # <<>> /\ number = -1
         /\ served' = with
         /\ run' = At("refused", <<>>) /\ UNCHANGED parser
      \/ /\ ~chunked /\ (length = <<>> \/ number >= 0)
         /\ parser' = [parser EXCEPT !.fallback = kept, !.remaining = IF empty \/ number < 0 THEN Nothing ELSE State(number, {})]
         /\ served' = IF empty THEN Delivered(with, <<>>, 0) ELSE with
         /\ run' = [rest EXCEPT !.pc = IF parser'.remaining # Nothing THEN "stream" ELSE "head"]

ClearsFallback(all) == <<>>

\* The head that began in earlier reads: as much of this read as it may take.
Fallback ==
  /\ run.pc = "fallback"
  /\ LET had  == Len(parser.fallback)
         all  == parser.fallback \o SubSeq(run.data, 1, Min({MaxHead - had, Len(run.data)}))
         head == GetHeaders(all)
     IN  CASE head.is = "error" \/ (head.is = "head" /\ ~WellFormed(head)) -> Stop
           [] head.is = "head" /\ WellFormed(head) ->
                /\ Dispatch(head, TRUE, [At("head", SubSeq(run.data, Max({head.consumed - had, 0}) + 1, Len(run.data)))
                                           EXCEPT !.had = had, !.consumed = head.consumed], ClearsFallback(all))
                /\ UNCHANGED <<messages, input>>
           [] OTHER ->
                IF Len(all) = MaxHead THEN Stop
                ELSE /\ parser' = [parser EXCEPT !.fallback = all]
                     /\ run' = At("idle", <<>>)
                     /\ UNCHANGED <<messages, input, served>>

\* Variant: one byte more is kept than the limit allows.
TooLongLoose(data) == Len(data) > MaxHead + 1

\* What is left of a read may not be as long as the longest head.
TooLong(data) == Len(data) >= MaxHead

\* A head at the front of the data, or what is left is kept for the next read.
NewHead ==
  /\ run.pc = "head"
  /\ IF run.data = <<>> THEN run' = At("idle", <<>>) /\ UNCHANGED <<messages, input, parser, served>>
     ELSE LET head == GetHeaders(run.data)
          IN  CASE head.is = "error" \/ (head.is = "head" /\ ~WellFormed(head)) -> Stop
                [] head.is = "head" /\ WellFormed(head) ->
                     /\ Dispatch(head, FALSE, At("head", SubSeq(run.data, head.consumed + 1, Len(run.data))), parser.fallback)
                     /\ UNCHANGED <<messages, input>>
                [] OTHER ->
                     IF TooLong(run.data) THEN Stop
                     ELSE /\ parser' = [parser EXCEPT !.fallback = @ \o run.data]
                          /\ run' = At("idle", <<>>)
                          /\ UNCHANGED <<messages, input, served>>

\* Chunks one by one, then the trailer.  The data handler may close the connection.
StreamChunked ==
  /\ run.pc = "stream" /\ parser.remaining.flags # {}
  /\ LET next  == NextChunk(run.data, parser.remaining)
         after == ConsumeTrailer(next.data, next.state, parser.tail)
     IN  IF next.emits
         THEN /\ parser' = [parser EXCEPT !.remaining = next.state]
              /\ served' = Delivered(served, next.chunk, IF next.chunk = <<>> THEN 0 ELSE -1)
              /\ run' \in {[run EXCEPT !.data = next.data], At("stopped", <<>>)}
         ELSE /\ parser' = [parser EXCEPT !.remaining = after.state, !.tail = after.tail]
              /\ run' = IF after.state = IsError THEN At("refused", <<>>) ELSE At("head", after.data)
              /\ UNCHANGED served
  /\ UNCHANGED <<messages, input>>

\* A body of known length.
StreamSized ==
  /\ run.pc = "stream" /\ parser.remaining.flags = {}
  /\ LET left == parser.remaining.size
         all  == left >= Len(run.data)
         n    == IF all THEN Len(run.data) ELSE left
     IN  /\ served' = Delivered(served, SubSeq(run.data, 1, n), left - n)
         /\ parser' = [parser EXCEPT !.remaining = State(left - n, {})]
         /\ run' \in {IF all THEN At("idle", <<>>) ELSE At("head", SubSeq(run.data, n + 1, Len(run.data))),
                      At("stopped", <<>>)}
  /\ UNCHANGED <<messages, input>>

Init ==
  /\ messages \in Conversations
  /\ input = Encoded(messages[1]) \o Encoded(messages[2])
  /\ parser = [fallback |-> <<>>, remaining |-> Nothing, tail |-> 0]
  /\ run = At("idle", <<>>)
  /\ served = <<>>

Next == Read \/ Fallback \/ NewHead \/ StreamChunked \/ StreamSized

Spec == Init /\ [][Next]_vars

-----------------------------------------------------------------------------
(* Properties.                                                             *)

Good(i) == i <= Len(messages) /\ messages[i].bad = "no"

Begins(s, t) == Len(s) <= Len(t) /\ s = SubSeq(t, 1, Len(s))

\* The requests handed over are those the client sent, in order: every one
\* before the last with its whole body and one last chunk, the last with a part
\* of its body; a request refused for its head is not handed over, and none
\* comes after a malformed one.
InOrder ==
  \A i \in DOMAIN served :
    /\ i <= Len(messages) /\ messages[i].bad \notin InHead
    /\ Begins(served[i].body, Body(messages[i]))
    /\ served[i].lasts <= 1
    /\ i < Len(served) \/ served[i].lasts = 1 => Good(i) /\ served[i].body = Body(messages[i]) /\ served[i].lasts = 1

\* Once everything is read, every request has been handed over with its last
\* chunk, or the connection refused because of a malformed one.
Complete ==
  /\ run.pc = "refused" => \E i \in DOMAIN messages : ~Good(i)
  /\ input = <<>> /\ run.pc = "idle" =>
       /\ \A i \in DOMAIN messages : Good(i)
       /\ Len(served) = Len(messages) /\ \A i \in DOMAIN served : served[i].lasts = 1

\* However the bytes are split into reads, the parser hands over what was sent
\* and all of it, and refuses what has one of the Faults and nothing else
\* (among them a request the Bloom filter takes for one with two hosts:
\* HttpParser.h:501; not among those of the run a head with an empty name).
Faithful == InOrder /\ Complete

\* The head made of a fallback ends in the read that completed it: "in case of
\* had being larger than what we consumed" an unsigned difference would wrap
\* (HttpParser.h:703).
FallbackConsumed == run.consumed >= run.had

\* Between reads the parser holds less than the longest head, and a head only
\* when no body is being read.
Bounded ==
  /\ FallbackConsumed
  /\ Len(parser.fallback) <= MaxHead
  /\ run.pc = "idle" => Len(parser.fallback) < MaxHead
  /\ run.pc = "idle" /\ parser.remaining # Nothing => parser.fallback = <<>>

\* collectBody calls its handler once: with the body when it is complete, or
\* with null as soon as it is too long.
CollectedOnce ==
  \A i \in DOMAIN served :
    /\ served[i].calls \in {<<>>, IF Len(served[i].body) > MaxCollect THEN <<<<"null">>>> ELSE <<served[i].body>>}
    /\ served[i].lasts = 1 \/ Len(served[i].body) > MaxCollect => served[i].calls # <<>>

=============================================================================
