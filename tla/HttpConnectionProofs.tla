------------------------ MODULE HttpConnectionProofs ------------------------
(***************************************************************************)
(* Theorems about HttpConnection, for any number of connections, requests, *)
(* calls and nested handlers.  What a scenario breaks is proved of the     *)
(* applications and clients that stay out of it.                           *)
(***************************************************************************)
EXTENDS HttpConnection, SequenceTheorems, TLAPS

Without(scenarios) == scenarios \cap Scenarios = {}

\* The scenarios that leave a connection without its timeout, or without its
\* poll for writable events.
Untimed == {"head", "answersEarly", "endsAfterTryEnd", "spoofsLength"}

Unpolls == {"writesPaused", "skipsWriting", "resumesUnpaused"}

-----------------------------------------------------------------------------
(* The inductive invariant.                                                *)

Frames(st) == {st[i] : i \in DOMAIN st}

Has(F, c, kind) == \E f \in F : f.socket = c /\ f.kind = kind

\* A socket is read, or told that it is writable, by the loop only; the parser
\* calls the handlers of requests and data, nobody else does.
Nested(st) ==
  \A i \in DOMAIN st :
    /\ st[i].kind \in {"read", "writable"} => i = Len(st)
    /\ st[i].kind # "appClose" => st[i].socket \in Sockets
    /\ st[i].kind \in {"request", "data"} =>
         i # Len(st) /\ st[i + 1].kind = "read" /\ st[i + 1].socket = st[i].socket
    /\ i # Len(st) /\ st[i + 1].kind = "read" =>
         st[i].kind \in {"request", "data"} \/ (st[i].kind = "aborted" /\ st[i + 1].mode = "stop")

\* The parser goes on only while its connection is there.
Reading == stack # <<>> /\ Top.kind = "read" /\ Top.mode # "stop" => sock[Top.socket].status = "http"

\* app.close() is only ever in progress once it has been called.
Closing == closed \/ \A f \in Frames(stack) : f.kind # "appClose"

\* The handles to, and the handlers of, a response.
Kept(k, c, F, cl) ==
  /\ k.handles \subseteq {k.request}
  /\ k.status = "http" =>
       /\ k.onAborted \in {0, k.request} /\ (k.onAborted = 0 => ~k.tellsJS)
       /\ ~k.pending => k.onAborted = 0 /\ k.handles = {}
       /\ k.handles # {} => k.onAborted = k.request \/ Has(F, c, "request")
  /\ k.status # "http" /\ k.handles # {} => cl /\ Has(F, c, "request")
  /\ k.status = "closing" => Has(F, c, "aborted")
  /\ k.status \in {"websocket", "closed"} => k.onWritable = 0
  /\ k.onWritable \in {Placeholder, k.wanted}
  /\ k.onWritable = Placeholder =>
       /\ Has(F, c, "writable")
       /\ \A f \in F : f.socket = c /\ f.kind = "writable" => f.handler = k.wanted

\* The data handler of a request is there until its last chunk.
Fed(k, c, F) ==
  /\ \A f \in F : f.socket = c /\ f.kind = "request" /\ k.status = "http" => k.body > 0
  /\ \A f \in F : f.socket = c /\ f.kind = "data" => f.handler = k.request
  /\ k.status = "http" /\ k.inStream # 0 =>
       /\ k.inStream = k.request
       /\ k.body > 0 \/ \E f \in F : f.socket = c /\ f.kind = "data" /\ f.mode = "last"

\* A response is open as long as the application has the handle, and the
\* timeout is armed when it is complete.
Timely(k) ==
  k.status = "http" =>
    /\ ~k.head
    /\ k.pending => k.handles # {}
    /\ ~k.pending => k.timer /\ k.onWritable = 0
    /\ k.inStream # 0 /\ k.body > 0 => k.pending

\* What is buffered is polled for, now or when the application resumes.
Polls(k, c, shared) ==
  k.status = "http" =>
    /\ k.buffered => "write" \in k.poll \/ (k.paused /\ k.poll = {})
    /\ k.buffered /\ k.paused => "write" \in k.saved
    /\ k.paused /\ shared.corked = c => ~shared.bytes

\* The frame at whose end the cork buffer is taken back.
Holder(f) == f.kind = "read" \/ (f.kind = "cork" /\ f.mode = "uncork")

Lent(st, c) ==
  \E i \in DOMAIN st : Holder(st[i]) /\ st[i].socket = c /\ \A j \in 1 .. i - 1 : ~Holder(st[j])

Lending ==
  /\ loop.corked # NoSocket => Lent(stack, loop.corked)
  /\ loop.upgraded # NoSocket => Has(Frames(stack), loop.upgraded, "read") /\ sock[loop.upgraded].status # "http"
  /\ \A f \in Frames(stack) : f.kind = "read" /\ f.mode = "stop" => sock[f.socket].status # "http"

\* A connection that is done with stays open only until it is uncorked or drained.
Ends(k, c, shared) == k.status = "http" /\ ReadyToClose(k) => shared.corked = c

\* What the application was told last.
Told(k, events) ==
  LET begun == events # <<>> /\ events[Len(events)] = "request"
      over  == events # <<>> /\ events[Len(events)] \in {"aborted", "dropped", "upgraded"}
  IN  k.status = "http" => IF k.pending THEN begun ELSE ~begun /\ ~over

Events == {"request", "answered", "aborted", "dropped", "upgraded"}

\* All that holds of the socket c, whose record is k, on a thread with the
\* frames F; what some scenarios break is claimed without them.
Sound(k, c, F, cl, shared, events) ==
  /\ Kept(k, c, F, cl)
  /\ Without({"registersLate"}) => Fed(k, c, F)
  /\ Without(Untimed) => Timely(k)
  /\ Without(Unpolls) => Polls(k, c, shared)
  /\ Without({"upgradesClose"}) => Told(k, events)
  /\ Without({"upgradesOthers"}) => Ends(k, c, shared)

\* Whoever has its abort handler running is closed.
Ending == \A f \in Frames(stack) : f.kind = "aborted" => sock[f.socket].status # "http"

\* A cork() either gives the cork buffer back at its end or does not have it.
Corking == \A f \in Frames(stack) : f.kind = "cork" => f.mode \in {"run", "uncork"}

Global ==
  /\ Nested(stack) /\ Reading /\ Closing /\ Ending /\ Corking
  /\ loop.bytes => loop.corked # NoSocket
  /\ loop.parsing => \E f \in Frames(stack) : f.kind = "read"
  /\ Without({"upgradesOthers"}) => Lending

Typed == TypeOK /\ log \in [Sockets -> Seq(Events)]

IInv ==
  /\ Typed /\ Global
  /\ \A c \in Sockets : Sound(sock[c], c, Frames(stack), closed, loop, log[c])

-----------------------------------------------------------------------------
(* What there is.                                                          *)

Shared == [corked : Sockets \cup {NoSocket}, bytes : BOOLEAN, parsing : BOOLEAN,
           upgraded : Sockets \cup {NoSocket}, failed : BOOLEAN]

AnyFrame == [kind : Handlers \cup {"read", "appClose"}, socket : Sockets \cup {NoSocket},
             mode : {"run", "parse", "due", "stop", "last", "more", "uncork"},
             handler : 0 .. Placeholder \cup 1 .. MaxRequests]

\* The type invariant in these terms.
LEMMA TypedIs ==
  Typed <=> /\ sock \in [Sockets -> Socket] /\ loop \in Shared /\ calls \in 0 .. MaxCalls /\ closed \in BOOLEAN
            /\ stack \in Seq(AnyFrame) /\ log \in [Sockets -> Seq(Events)]
BY DEF Typed, TypeOK, Shared, AnyFrame

-----------------------------------------------------------------------------
(* Stacks.                                                                 *)

\* A frame is pushed.
LEMMA PushFrames ==
  ASSUME NEW f \in AnyFrame, NEW st \in Seq(AnyFrame)
  PROVE  /\ <<f>> \o st \in Seq(AnyFrame) /\ <<f>> \o st # <<>>
         /\ Head(<<f>> \o st) = f /\ Tail(<<f>> \o st) = st
         /\ Len(<<f>> \o st) = Len(st) + 1
         /\ (<<f>> \o st)[1] = f /\ \A i \in DOMAIN st : (<<f>> \o st)[i + 1] = st[i]
         /\ Frames(<<f>> \o st) = {f} \cup Frames(st)
<1> DEFINE r == <<f>> \o st
<1>1. r \in Seq(AnyFrame) /\ Len(r) = Len(st) + 1 /\ r[1] = f /\ r # <<>>
  OBVIOUS
<1>2. \A i \in DOMAIN st : r[i + 1] = st[i]
  OBVIOUS
<1>3. Head(r) = f /\ Tail(r) = st
  OBVIOUS
<1>4. Frames(r) = {f} \cup Frames(st)
  <2>1. \A i \in DOMAIN r : i = 1 \/ (i - 1 \in DOMAIN st /\ r[i] = st[i - 1])
    OBVIOUS
  <2>2. \A i \in DOMAIN st : i + 1 \in DOMAIN r /\ r[i + 1] = st[i]
    BY <1>1, <1>2
  <2>3. 1 \in DOMAIN r
    BY <1>1
  <2> HIDE DEF r
  <2>4. \A g : g \in Frames(r) => g \in {f} \cup Frames(st)
    BY <1>1, <2>1 DEF Frames
  <2>5. \A g : g \in {f} \cup Frames(st) => g \in Frames(r)
    BY <1>1, <2>2, <2>3 DEF Frames
  <2> QED BY <2>4, <2>5
<1> QED BY <1>1, <1>2, <1>3, <1>4

\* A frame is popped.
LEMMA PopFrames ==
  ASSUME NEW st \in Seq(AnyFrame), st # <<>>
  PROVE  /\ Head(st) \in AnyFrame /\ Tail(st) \in Seq(AnyFrame) /\ Head(st) = st[1]
         /\ Len(Tail(st)) = Len(st) - 1 /\ \A i \in DOMAIN Tail(st) : Tail(st)[i] = st[i + 1]
         /\ st = <<Head(st)>> \o Tail(st) /\ Frames(st) = {Head(st)} \cup Frames(Tail(st))
<1>1. Head(st) \in AnyFrame /\ Tail(st) \in Seq(AnyFrame) /\ Head(st) = st[1]
  OBVIOUS
<1>2. Len(Tail(st)) = Len(st) - 1 /\ \A i \in DOMAIN Tail(st) : Tail(st)[i] = st[i + 1]
  OBVIOUS
<1>3. st = <<Head(st)>> \o Tail(st)
  OBVIOUS
<1>4. Frames(<<Head(st)>> \o Tail(st)) = {Head(st)} \cup Frames(Tail(st))
  BY <1>1, PushFrames
<1> QED BY <1>1, <1>2, <1>3, <1>4

\* A stack without frames, and one of a single frame.
LEMMA FewFrames ==
  /\ Frames(<<>>) = {} /\ <<>> \in Seq(AnyFrame) /\ Nested(<<>>)
  /\ \A f \in AnyFrame : /\ Frames(<<f>>) = {f} /\ <<f>> \in Seq(AnyFrame)
                         /\ <<f>> = <<f>> \o <<>> /\ Head(<<f>>) = f /\ Tail(<<f>>) = <<>> /\ <<f>> # <<>>
BY DEF Frames, Nested

\* What rests on a frame that is not the parser's may be pushed onto it.
LEMMA PushNested ==
  ASSUME NEW st \in Seq(AnyFrame), Nested(st), NEW f \in AnyFrame,
         f.kind \notin {"read", "writable", "request", "data"}, f.kind # "appClose" => f.socket \in Sockets,
         st # <<>> => Head(st).kind # "read"
  PROVE  Nested(<<f>> \o st)
<1> DEFINE r == <<f>> \o st
<1>1. r[1] = f /\ Len(r) = Len(st) + 1 /\ \A i \in DOMAIN st : r[i + 1] = st[i]
  BY PushFrames
<1>2. \A i \in DOMAIN r : i = 1 \/ (i - 1 \in DOMAIN st /\ r[i] = st[i - 1])
  BY <1>1
<1>3. st # <<>> => Head(st) = st[1] /\ 1 \in DOMAIN st /\ r[2] = st[1]
  BY <1>1
<1>4. st = <<>> => Len(r) = 1
  BY <1>1
<1>5. Len(st) \in Nat /\ DOMAIN st = 1 .. Len(st) /\ DOMAIN r = 1 .. Len(r)
  OBVIOUS
<1> HIDE DEF r
<1> SUFFICES ASSUME NEW i \in DOMAIN r
             PROVE  /\ r[i].kind \in {"read", "writable"} => i = Len(r)
                    /\ r[i].kind # "appClose" => r[i].socket \in Sockets
                    /\ r[i].kind \in {"request", "data"} =>
                         i # Len(r) /\ r[i + 1].kind = "read" /\ r[i + 1].socket = r[i].socket
                    /\ i # Len(r) /\ r[i + 1].kind = "read" =>
                         r[i].kind \in {"request", "data"} \/ (r[i].kind = "aborted" /\ r[i + 1].mode = "stop")
  BY DEF Nested, r
<1>6. CASE i = 1
  BY <1>1, <1>3, <1>4, <1>5, <1>6
<1>7. CASE i # 1
  <2>1. i - 1 \in DOMAIN st /\ r[i] = st[i - 1]
    BY <1>2, <1>7
  <2>2. i # Len(r) => i \in DOMAIN st /\ r[i + 1] = st[i]
    BY <1>1, <1>5, <2>1
  <2>3. i # Len(r) <=> i - 1 # Len(st)
    BY <1>1, <1>5
  <2> DEFINE j == i - 1
  <2>4. /\ st[j].kind \in {"read", "writable"} => j = Len(st)
        /\ st[j].kind # "appClose" => st[j].socket \in Sockets
        /\ st[j].kind \in {"request", "data"} =>
             j # Len(st) /\ st[j + 1].kind = "read" /\ st[j + 1].socket = st[j].socket
        /\ j # Len(st) /\ st[j + 1].kind = "read" =>
             st[j].kind \in {"request", "data"} \/ (st[j].kind = "aborted" /\ st[j + 1].mode = "stop")
    BY <2>1 DEF Nested
  <2>5. j + 1 = i
    BY <1>5
  <2> QED BY <2>1, <2>2, <2>3, <2>4, <2>5, <1>5
<1> QED BY <1>6, <1>7

\* Below a frame the same rules hold.
LEMMA PopNested ==
  ASSUME NEW st \in Seq(AnyFrame), Nested(st), st # <<>>
  PROVE  Nested(Tail(st))
<1> DEFINE r == Tail(st)
<1>1. Len(r) = Len(st) - 1 /\ Len(r) \in Nat /\ DOMAIN r = 1 .. Len(r) /\ DOMAIN st = 1 .. Len(st)
  OBVIOUS
<1>2. \A i \in DOMAIN r : r[i] = st[i + 1]
  BY PopFrames
<1> HIDE DEF r
<1> SUFFICES ASSUME NEW i \in DOMAIN r
             PROVE  /\ r[i].kind \in {"read", "writable"} => i = Len(r)
                    /\ r[i].kind # "appClose" => r[i].socket \in Sockets
                    /\ r[i].kind \in {"request", "data"} =>
                         i # Len(r) /\ r[i + 1].kind = "read" /\ r[i + 1].socket = r[i].socket
                    /\ i # Len(r) /\ r[i + 1].kind = "read" =>
                         r[i].kind \in {"request", "data"} \/ (r[i].kind = "aborted" /\ r[i + 1].mode = "stop")
  BY DEF Nested, r
<1> DEFINE j == i + 1
<1>3. j \in DOMAIN st /\ r[i] = st[j] /\ (i # Len(r) <=> j # Len(st)) /\ (i # Len(r) => r[i + 1] = st[j + 1])
  BY <1>1, <1>2
<1>4. /\ st[j].kind \in {"read", "writable"} => j = Len(st)
      /\ st[j].kind # "appClose" => st[j].socket \in Sockets
      /\ st[j].kind \in {"request", "data"} =>
           j # Len(st) /\ st[j + 1].kind = "read" /\ st[j + 1].socket = st[j].socket
      /\ j # Len(st) /\ st[j + 1].kind = "read" =>
           st[j].kind \in {"request", "data"} \/ (st[j].kind = "aborted" /\ st[j + 1].mode = "stop")
  BY <1>3 DEF Nested
<1> HIDE DEF j
<1> QED BY <1>3, <1>4

\* A stack of one frame, and of more.
LEMMA Single ==
  ASSUME NEW s \in Seq(AnyFrame)
  PROVE  /\ Len(s) = 1 => s # <<>> /\ s = <<Head(s)>> /\ Tail(s) = <<>> /\ Head(s) = s[1]
         /\ s # <<>> => Len(s) \in Nat \ {0} /\ DOMAIN s = 1 .. Len(s) /\ Head(s) = s[1]
         /\ Len(s) # 0 => s # <<>>
<1>1. s # <<>> => Len(s) \in Nat \ {0}
  BY ONLY s \in Seq(AnyFrame), EmptySeq
<1>2. Len(s) \in Nat /\ DOMAIN s = 1 .. Len(s)
  BY ONLY s \in Seq(AnyFrame), LenProperties
<1>3. Len(s) # 0 => s # <<>>
  BY ONLY EmptySeq
<1>4. Head(s) = s[1]
  BY ONLY s \in Seq(AnyFrame)
<1>5. ASSUME Len(s) = 1 PROVE s = <<Head(s)>> /\ Tail(s) = <<>>
  <2>1. s # <<>>
    BY <1>3, <1>5
  <2>2. Head(s) \in AnyFrame /\ Tail(s) \in Seq(AnyFrame) /\ Len(Tail(s)) = 0
    BY ONLY s \in Seq(AnyFrame), <2>1, <1>5, HeadTailProperties
  <2>3. Tail(s) = <<>>
    BY ONLY <2>2, EmptySeq
  <2> DEFINE t == <<Head(s)>>
  <2>4. t \in Seq(AnyFrame) /\ Len(t) = 1 /\ t[1] = Head(s)
    BY <2>2
  <2>5. \A i \in 1 .. Len(s) : s[i] = t[i]
    BY <2>4, <1>4, <1>5
  <2>6. s = t
    BY ONLY s \in Seq(AnyFrame), <2>4, <2>5, <1>5, SeqEqual
  <2> QED BY <2>3, <2>6
<1> QED BY <1>1, <1>2, <1>3, <1>4, <1>5

\* The parser is at the bottom of the stack, what it called right above it.
LEMMA Bottom ==
  ASSUME NEW st \in Seq(AnyFrame), Nested(st), st # <<>>
  PROVE  /\ Head(st).kind \in {"read", "writable"} => Tail(st) = <<>> /\ st = <<Head(st)>>
         /\ Head(st).kind \in {"request", "data"} =>
              /\ Tail(st) # <<>> /\ Tail(st) = <<Head(Tail(st))>> /\ Tail(Tail(st)) = <<>>
              /\ Head(Tail(st)).kind = "read" /\ Head(Tail(st)).socket = Head(st).socket
         /\ Tail(st) # <<>> /\ Head(Tail(st)).kind = "read" =>
              Head(st).kind \in {"request", "data"} \/ (Head(st).kind = "aborted" /\ Head(Tail(st)).mode = "stop")
<1>0. Tail(st) \in Seq(AnyFrame) /\ Len(Tail(st)) = Len(st) - 1 /\ \A i \in DOMAIN Tail(st) : Tail(st)[i] = st[i + 1]
  BY PopFrames
<1>1. Head(st) = st[1] /\ Len(st) \in Nat \ {0} /\ DOMAIN st = 1 .. Len(st) /\ 1 \in DOMAIN st
  BY Single
<1>2. Len(st) = 1 => Tail(st) = <<>> /\ st = <<Head(st)>>
  BY Single
<1>3. Len(st) # 1 => Tail(st) # <<>> /\ Head(Tail(st)) = st[2] /\ 2 \in DOMAIN st
  <2>1. Len(st) # 1 => Len(Tail(st)) # 0 /\ 2 \in DOMAIN st
    BY <1>0, <1>1
  <2>2. Len(Tail(st)) # 0 => Tail(st) # <<>> /\ Head(Tail(st)) = Tail(st)[1] /\ 1 \in DOMAIN Tail(st)
    <3> DEFINE r == Tail(st)
    <3>1. r \in Seq(AnyFrame)
      BY <1>0
    <3> HIDE DEF r
    <3>2. Len(r) # 0 => r # <<>> /\ Head(r) = r[1] /\ 1 \in DOMAIN r
      BY ONLY <3>1, Single
    <3> QED BY <3>2 DEF r
  <2> QED BY <2>1, <2>2, <1>0
<1>4. Len(st) = 2 => Tail(st) = <<Head(Tail(st))>> /\ Tail(Tail(st)) = <<>>
  <2> DEFINE r == Tail(st)
  <2>1. r \in Seq(AnyFrame) /\ Len(r) = Len(st) - 1
    BY <1>0
  <2> HIDE DEF r
  <2>2. Len(r) = 1 => r = <<Head(r)>> /\ Tail(r) = <<>>
    BY ONLY <2>1, Single
  <2>3. Len(st) = 2 => Len(r) = 1
    BY <2>1
  <2> QED BY <2>2, <2>3 DEF r
<1>5. Tail(st) # <<>> => Len(st) # 1
  BY <1>2
<1>6. /\ st[1].kind \in {"read", "writable"} => 1 = Len(st)
      /\ st[1].kind \in {"request", "data"} =>
           1 # Len(st) /\ st[1 + 1].kind = "read" /\ st[1 + 1].socket = st[1].socket
      /\ 1 # Len(st) /\ st[1 + 1].kind = "read" =>
           st[1].kind \in {"request", "data"} \/ (st[1].kind = "aborted" /\ st[1 + 1].mode = "stop")
  BY <1>1 DEF Nested
<1>7. 1 # Len(st) /\ st[2].kind = "read" => Len(st) = 2
  BY <1>3 DEF Nested
<1> QED BY <1>1, <1>2, <1>3, <1>4, <1>5, <1>6, <1>7

\* The stacks of the parser, and of the loop when it calls a handler.
LEMMA BaseNested ==
  ASSUME NEW f \in AnyFrame, f.socket \in Sockets, f.kind \in {"read", "writable", "aborted"}
  PROVE  Nested(<<f>>)
BY DEF Nested

-----------------------------------------------------------------------------
(* Sockets and writes.                                                     *)

\* Two records of a socket that differ in what lies between it and the kernel.
Alike(k, m) ==
  /\ m.status = k.status /\ m.timer = k.timer /\ m.saved = k.saved /\ m.paused = k.paused
  /\ m.request = k.request /\ m.body = k.body /\ m.pending = k.pending /\ m.last = k.last /\ m.head = k.head
  /\ m.chunked = k.chunked /\ m.ended = k.ended /\ m.offset = k.offset
  /\ m.onWritable = k.onWritable /\ m.wanted = k.wanted /\ m.onAborted = k.onAborted /\ m.tellsJS = k.tellsJS
  /\ m.inStream = k.inStream /\ m.handles = k.handles

Both == {"read", "write"}

\* What a write may leave of a socket.
Sent(k) == {k, Stuck(k), [k EXCEPT !.buffered = FALSE], [k EXCEPT !.buffered = FALSE, !.poll = Both]}

\* The fields of a socket and their types.
LEMMA SocketFields ==
  ASSUME NEW k \in Socket
  PROVE  /\ k.status \in {"http", "closing", "websocket", "closed"} /\ k.timer \in BOOLEAN
         /\ k.poll \in SUBSET Both /\ k.saved \in SUBSET Both /\ k.paused \in BOOLEAN /\ k.buffered \in BOOLEAN
         /\ k.request \in 0 .. MaxRequests /\ k.body \in 0 .. MaxBody /\ k.pending \in BOOLEAN
         /\ k.last \in BOOLEAN /\ k.head \in BOOLEAN /\ k.chunked \in BOOLEAN /\ k.ended \in BOOLEAN
         /\ k.offset \in 0 .. BodySize /\ k.onWritable \in 0 .. Placeholder /\ k.wanted \in 0 .. MaxCalls
         /\ k.onAborted \in 0 .. MaxRequests /\ k.tellsJS \in BOOLEAN /\ k.inStream \in 0 .. MaxRequests
         /\ k.handles \in SUBSET (1 .. MaxRequests)
BY DEF Socket, Both

\* A write that the kernel does not take whole leaves a socket to poll for.
LEMMA StuckIs ==
  ASSUME NEW k \in Socket
  PROVE  Stuck(k) \in Socket /\ Alike(k, Stuck(k)) /\ Stuck(k).buffered /\ Stuck(k).poll = Both
BY DEF Socket, Stuck, Alike, Both

\* A socket without backpressure.
LEMMA DrainedIs ==
  ASSUME NEW k \in Socket
  PROVE  /\ [k EXCEPT !.buffered = FALSE] \in Socket /\ Alike(k, [k EXCEPT !.buffered = FALSE])
         /\ ~[k EXCEPT !.buffered = FALSE].buffered /\ [k EXCEPT !.buffered = FALSE].poll = k.poll
BY DEF Socket, Alike

\* An optional write that is taken in part.
LEMMA PartlyIs ==
  ASSUME NEW k \in Socket
  PROVE  LET m == [k EXCEPT !.buffered = FALSE, !.poll = Both]
         IN  m \in Socket /\ Alike(k, m) /\ ~m.buffered /\ m.poll = Both
BY DEF Socket, Alike, Both

\* Whatever becomes of a write, what is left in the buffer is polled for.
LEMMA SentIs ==
  ASSUME NEW k \in Socket, NEW m \in Sent(k)
  PROVE  /\ m \in Socket /\ Alike(k, m) /\ m.poll \in {k.poll, Both}
         /\ m = k \/ ~m.buffered \/ (m.buffered /\ m.poll = Both)
<1>1. CASE m = k
  BY <1>1 DEF Alike
<1>2. CASE m = Stuck(k)
  BY <1>2, StuckIs
<1>3. CASE m = [k EXCEPT !.buffered = FALSE]
  BY <1>3, DrainedIs
<1>4. CASE m = [k EXCEPT !.buffered = FALSE, !.poll = Both]
  BY <1>4, PartlyIs
<1> QED BY <1>1, <1>2, <1>3, <1>4 DEF Sent

\* What a write through the socket c may change in the loop: the cork buffer
\* it was lent goes back, or is filled.
Passes(c, l, shared) ==
  /\ shared \in Shared /\ shared.parsing = l.parsing /\ shared.upgraded = l.upgraded
  /\ shared.corked = l.corked \/ (l.corked = c /\ shared.corked = NoSocket)
  /\ shared.bytes => shared.corked = l.corked /\ (l.bytes \/ l.corked = c)

Outcome(c, w) == w.failed \in BOOLEAN /\ DOMAIN w = {"k", "loop", "failed"} /\ Passes(c, loop, w.loop)

\* The cork buffer goes back.
LEMMA ReleasedIs ==
  ASSUME loop \in Shared, NEW c \in Sockets
  PROVE  /\ Passes(c, loop, Released(c)) /\ Released(c).corked # c
         /\ loop.corked # c => Released(c) = loop
<1>1. c # NoSocket
  BY HttpAssumption
<1> QED BY <1>1 DEF Shared, Released, Passes

Corked(w) == w.loop.corked

\* A write w left the socket as k and the loop as shared, but for its failure.
Wrote(w, k, shared) == w.k = k /\ Corked(w) = shared.corked

\* The loop after a write that failed.
LEMMA FailedIs ==
  ASSUME loop \in Shared, NEW c \in Sockets, NEW shared, Passes(c, loop, shared), NEW k, NEW w,
         w = Result(k, shared, TRUE)
  PROVE  Wrote(w, k, shared) /\ Outcome(c, w)
<1> DEFINE l == [shared EXCEPT !.failed = @ \/ TRUE]
<1>1. shared \in Shared
  BY DEF Passes
<1>2. l \in Shared
  BY <1>1 DEF Shared
<1>3. l.corked = shared.corked /\ l.bytes = shared.bytes /\ l.parsing = shared.parsing /\ l.upgraded = shared.upgraded
  BY <1>1 DEF Shared
<1>4. w.k = k /\ w.loop = l /\ w.failed = TRUE /\ DOMAIN w = {"k", "loop", "failed"}
  BY DEF Result
<1> HIDE DEF l
<1>5. Passes(c, loop, l)
  BY <1>2, <1>3 DEF Passes
<1>6. Outcome(c, w)
  BY <1>4, <1>5 DEF Outcome
<1> QED BY <1>3, <1>4, <1>6 DEF Corked, Wrote

\* The loop after a write that did not fail.
LEMMA WentIs ==
  ASSUME loop \in Shared, NEW c \in Sockets, NEW shared, Passes(c, loop, shared), NEW k, NEW w,
         w = Result(k, shared, FALSE)
  PROVE  Wrote(w, k, shared) /\ Outcome(c, w)
<1> DEFINE l == [shared EXCEPT !.failed = @ \/ FALSE]
<1>1. shared \in Shared
  BY DEF Passes
<1>2. l \in Shared
  BY <1>1 DEF Shared
<1>3. l.corked = shared.corked /\ l.bytes = shared.bytes /\ l.parsing = shared.parsing /\ l.upgraded = shared.upgraded
  BY <1>1 DEF Shared
<1>4. w.k = k /\ w.loop = l /\ w.failed = FALSE /\ DOMAIN w = {"k", "loop", "failed"}
  BY DEF Result
<1> HIDE DEF l
<1>5. Passes(c, loop, l)
  BY <1>2, <1>3 DEF Passes
<1>6. Outcome(c, w)
  BY <1>4, <1>5 DEF Outcome
<1> QED BY <1>3, <1>4, <1>6 DEF Corked, Wrote

\* A write of the socket c.
LEMMA WrittenIs ==
  ASSUME loop \in Shared, NEW c \in Sockets, NEW k \in Socket, NEW w \in Written(c, k)
  PROVE  /\ w.k \in Sent(k) /\ (w.k.buffered => w.k.poll = Both)
         /\ Outcome(c, w)
<1> DEFINE drained == [k EXCEPT !.buffered = FALSE]
<1>1. Passes(c, loop, loop) /\ Passes(c, loop, Released(c))
  BY ReleasedIs DEF Passes
<1>2. loop.corked = c => Passes(c, loop, [loop EXCEPT !.bytes = TRUE])
  BY DEF Shared, Passes
<1>3. \/ \E shared : shared \in {Released(c), loop} /\ w = Result(Stuck(k), shared, TRUE)
      \/ w = Result(drained, Released(c), FALSE)
      \/ loop.corked = c /\ w = Result(drained, [loop EXCEPT !.bytes = TRUE], FALSE)
  BY DEF Written
<1>4. Stuck(k).buffered /\ Stuck(k).poll = Both /\ ~drained.buffered /\ Stuck(k) \in Sent(k) /\ drained \in Sent(k)
  BY StuckIs, DrainedIs DEF Sent
<1> HIDE DEF drained
<1>5. CASE \E shared : shared \in {Released(c), loop} /\ w = Result(Stuck(k), shared, TRUE)
  <2>0. PICK shared : shared \in {Released(c), loop} /\ w = Result(Stuck(k), shared, TRUE)
    BY <1>5
  <2>1. Passes(c, loop, shared)
    BY <1>1, <2>0
  <2>2. Wrote(w, Stuck(k), shared)
    BY ONLY <2>0, <2>1, FailedIs, loop \in Shared, c \in Sockets, Zenon
  <2>3. Outcome(c, w)
    BY ONLY <2>0, <2>1, FailedIs, loop \in Shared, c \in Sockets, Zenon
  <2> QED BY <1>4, <2>2, <2>3 DEF Wrote
<1>6. CASE w = Result(drained, Released(c), FALSE)
  <2>1. Passes(c, loop, Released(c))
    BY <1>1
  <2>2. Wrote(w, drained, Released(c))
    BY ONLY <1>6, <2>1, WentIs, loop \in Shared, c \in Sockets, Zenon
  <2>3. Outcome(c, w)
    BY ONLY <1>6, <2>1, WentIs, loop \in Shared, c \in Sockets, Zenon
  <2> QED BY <1>4, <2>2, <2>3 DEF Wrote
<1>7. CASE loop.corked = c /\ w = Result(drained, [loop EXCEPT !.bytes = TRUE], FALSE)
  <2>1. Passes(c, loop, [loop EXCEPT !.bytes = TRUE])
    BY <1>2, <1>7
  <2>2. Wrote(w, drained, [loop EXCEPT !.bytes = TRUE])
    BY ONLY <1>7, <2>1, WentIs, loop \in Shared, c \in Sockets, Zenon
  <2>3. Outcome(c, w)
    BY ONLY <1>7, <2>1, WentIs, loop \in Shared, c \in Sockets, Zenon
  <2> QED BY <1>4, <2>2, <2>3 DEF Wrote
<1> QED BY <1>3, <1>5, <1>6, <1>7

\* The body of a tryEnd.
LEMMA TryWrittenIs ==
  ASSUME loop \in Shared, NEW c \in Sockets, NEW k \in Socket, NEW n \in Nat, NEW t \in TryWritten(c, k, n)
  PROVE  /\ t.result.k \in Sent(k) /\ (t.result.k.buffered => t.result.k.poll = Both)
         /\ Outcome(c, t.result)
         /\ t.written \in 0 .. n
<1> DEFINE p == [k EXCEPT !.buffered = FALSE, !.poll = Both]
<1>1. \/ \E w \in Written(c, k) : t.result = w /\ t.written \in {0, n}
      \/ t.result = Result(p, Released(c), TRUE) /\ t.written \in 0 .. n - 1
  <2> DEFINE q == Result(p, Released(c), TRUE)
  <2>1. \/ \E w \in Written(c, k) : t = [result |-> w, written |-> n]
        \/ \E m \in 0 .. n - 1 : t = [result |-> q, written |-> m]
        \/ \E w \in Written(c, k) : t = [result |-> w, written |-> 0]
    <3>1. CASE k.chunked \/ k.head
      BY <3>1, Zenon DEF TryWritten
    <3>2. CASE ~(k.chunked \/ k.head)
      BY <3>2, Zenon DEF TryWritten, Both
    <3> QED BY <3>1, <3>2
  <2> HIDE DEF q
  <2>2. CASE \E w \in Written(c, k) : t = [result |-> w, written |-> n]
    <3>1. PICK w \in Written(c, k) : t = [result |-> w, written |-> n]
      BY <2>2
    <3>2. t.result = w /\ t.written = n
      BY <3>1
    <3> QED BY <3>2
  <2>3. CASE \E m \in 0 .. n - 1 : t = [result |-> q, written |-> m]
    <3>1. PICK m \in 0 .. n - 1 : t = [result |-> q, written |-> m]
      BY <2>3
    <3>2. t.result = q /\ t.written = m
      BY <3>1
    <3> QED BY <3>2 DEF q
  <2>4. CASE \E w \in Written(c, k) : t = [result |-> w, written |-> 0]
    <3>1. PICK w \in Written(c, k) : t = [result |-> w, written |-> 0]
      BY <2>4
    <3>2. t.result = w /\ t.written = 0
      BY <3>1
    <3> QED BY <3>2
  <2> QED BY <2>1, <2>2, <2>3, <2>4
<1>2. CASE \E w \in Written(c, k) : t.result = w /\ t.written \in {0, n}
  BY <1>2, WrittenIs
<1>3. CASE t.result = Result(p, Released(c), TRUE) /\ t.written \in 0 .. n - 1
  <2>4. p \in Sent(k) /\ ~p.buffered
    BY PartlyIs DEF Sent
  <2> HIDE DEF p
  <2>5. t.result = Result(p, Released(c), TRUE)
    BY <1>3
  <2>1. Passes(c, loop, Released(c))
    BY ReleasedIs
  <2>2. Wrote(t.result, p, Released(c))
    BY ONLY <2>5, <2>1, FailedIs, loop \in Shared, c \in Sockets, Zenon
  <2>3. Outcome(c, t.result)
    BY ONLY <2>5, <2>1, FailedIs, loop \in Shared, c \in Sockets, Zenon
  <2>6. t.written \in 0 .. n
    BY <1>3
  <2>7. t.result.k \in Sent(k) /\ ~t.result.k.buffered
    BY <2>4, <2>2 DEF Wrote
  <2> QED BY <2>6, <2>7, <2>3
<1> QED BY <1>1, <1>2, <1>3

\* The uncork of the socket c: nothing if it has not got the cork buffer.
LEMMA UncorkedIs ==
  ASSUME loop \in Shared, NEW c \in Sockets, NEW k \in Socket, NEW w \in Uncorked(c, k)
  PROVE  /\ w.k \in Sent(k) /\ Outcome(c, w)
         /\ Corked(w) # c
         /\ loop.corked # c => w.k = k /\ Corked(w) = loop.corked
         /\ w.k.buffered => w.k = k \/ (w.k.poll = Both /\ (loop.bytes \/ k.buffered))
         /\ w.k.status = "http" /\ w.k.buffered /\ loop.corked = c => w.k.poll = Both
<1> DEFINE drained == [k EXCEPT !.buffered = FALSE]
<1>1. Passes(c, loop, loop) /\ Passes(c, loop, Released(c)) /\ Released(c).corked # c
      /\ (loop.corked = c => Released(c).corked # c)
  BY ReleasedIs DEF Passes
<1>2. \/ loop.corked # c /\ w = Result(k, loop, FALSE)
      \/ loop.corked = c /\ k.status \in {"http", "websocket"} /\ w = Result(drained, Released(c), FALSE)
      \/ loop.corked = c /\ k.status \notin {"http", "websocket"} /\ w = Result(k, Released(c), FALSE)
      \/ loop.corked = c /\ (loop.bytes \/ k.buffered) /\ w = Result(Stuck(k), Released(c), TRUE)
  BY DEF Uncorked
<1>3. Stuck(k).buffered /\ Stuck(k).poll = Both /\ ~drained.buffered
      /\ Stuck(k) \in Sent(k) /\ drained \in Sent(k) /\ k \in Sent(k)
  BY StuckIs, DrainedIs DEF Sent
<1> HIDE DEF drained
<1>4. CASE loop.corked # c /\ w = Result(k, loop, FALSE)
  <2>1. Passes(c, loop, loop)
    BY <1>1
  <2>2. Wrote(w, k, loop)
    BY ONLY <1>4, <2>1, WentIs, loop \in Shared, c \in Sockets, Zenon
  <2>3. Outcome(c, w)
    BY ONLY <1>4, <2>1, WentIs, loop \in Shared, c \in Sockets, Zenon
  <2> QED BY <1>4, <1>3, <2>2, <2>3 DEF Wrote
<1>5. CASE loop.corked = c /\ k.status \in {"http", "websocket"} /\ w = Result(drained, Released(c), FALSE)
  <2>1. Passes(c, loop, Released(c))
    BY <1>1
  <2>2. Wrote(w, drained, Released(c))
    BY ONLY <1>5, <2>1, WentIs, loop \in Shared, c \in Sockets, Zenon
  <2>3. Outcome(c, w)
    BY ONLY <1>5, <2>1, WentIs, loop \in Shared, c \in Sockets, Zenon
  <2> QED BY <1>5, <1>3, <1>1, <2>2, <2>3 DEF Wrote
<1>6. CASE loop.corked = c /\ k.status \notin {"http", "websocket"} /\ w = Result(k, Released(c), FALSE)
  <2>1. Passes(c, loop, Released(c))
    BY <1>1
  <2>2. Wrote(w, k, Released(c))
    BY ONLY <1>6, <2>1, WentIs, loop \in Shared, c \in Sockets, Zenon
  <2>3. Outcome(c, w)
    BY ONLY <1>6, <2>1, WentIs, loop \in Shared, c \in Sockets, Zenon
  <2> QED BY <1>6, <1>3, <1>1, <2>2, <2>3 DEF Wrote
<1>7. CASE loop.corked = c /\ (loop.bytes \/ k.buffered) /\ w = Result(Stuck(k), Released(c), TRUE)
  <2>1. Passes(c, loop, Released(c))
    BY <1>1
  <2>2. Wrote(w, Stuck(k), Released(c))
    BY ONLY <1>7, <2>1, FailedIs, loop \in Shared, c \in Sockets, Zenon
  <2>3. Outcome(c, w)
    BY ONLY <1>7, <2>1, FailedIs, loop \in Shared, c \in Sockets, Zenon
  <2> QED BY <1>7, <1>3, <1>1, <2>2, <2>3 DEF Wrote
<1> QED BY <1>2, <1>4, <1>5, <1>6, <1>7

\* The data of a socket is destroyed.
LEMMA DestroyedIs ==
  ASSUME NEW k \in Socket
  PROVE  /\ Destroyed(k) \in Socket /\ Destroyed(k).status = "closed"
         /\ Destroyed(k).request = k.request /\ Destroyed(k).handles = k.handles
         /\ Destroyed(k).onWritable = 0 /\ Destroyed(k).wanted = 0 /\ ~Destroyed(k).pending
<1> 0 \in 0 .. MaxBody /\ 0 \in 0 .. MaxRequests /\ 0 \in 0 .. MaxCalls /\ 0 \in 0 .. Placeholder
  BY HttpAssumption DEF Placeholder
<1> QED BY DEF Socket, Destroyed

\* A close takes the handle the abort handler knows; the rest of the data goes
\* now, or when the handler of the application has returned.
LEMMA ClosedIs ==
  ASSUME NEW k \in Socket, k.status \in {"http", "websocket"}
  PROVE  /\ Closed(k) \in Socket /\ Closed(k).status \in {"closing", "closed"} /\ Closed(k).request = k.request
         /\ Closed(k).handles = IF k.status = "http" THEN k.handles \ {k.onAborted} ELSE k.handles
         /\ \/ Closed(k).status = "closing" /\ k.status = "http" /\ k.tellsJS
               /\ Closed(k).onWritable = k.onWritable /\ Closed(k).wanted = k.wanted
            \/ Closed(k).status = "closed" /\ ~(k.status = "http" /\ k.tellsJS)
               /\ Closed(k).onWritable = 0 /\ Closed(k).wanted = 0
<1> DEFINE a == [k EXCEPT !.status = "closing", !.timer = FALSE, !.poll = {}, !.handles = @ \ {k.onAborted}]
           b == [Destroyed(k) EXCEPT !.handles = @ \ {k.onAborted}]
<1>1. /\ a \in Socket /\ a.status = "closing" /\ a.request = k.request /\ a.handles = k.handles \ {k.onAborted}
      /\ a.onWritable = k.onWritable /\ a.wanted = k.wanted
  BY DEF Socket
<1>2. /\ b \in Socket /\ b.status = "closed" /\ b.request = k.request /\ b.handles = k.handles \ {k.onAborted}
      /\ b.onWritable = 0 /\ b.wanted = 0
  <2> DEFINE d == Destroyed(k)
  <2>1. /\ d \in Socket /\ d.status = "closed" /\ d.request = k.request /\ d.handles = k.handles
        /\ d.onWritable = 0 /\ d.wanted = 0
    BY DestroyedIs
  <2> HIDE DEF d
  <2>2. /\ [d EXCEPT !.handles = @ \ {k.onAborted}] \in Socket
        /\ [d EXCEPT !.handles = @ \ {k.onAborted}].handles = d.handles \ {k.onAborted}
        /\ [d EXCEPT !.handles = @ \ {k.onAborted}].status = d.status
        /\ [d EXCEPT !.handles = @ \ {k.onAborted}].request = d.request
        /\ [d EXCEPT !.handles = @ \ {k.onAborted}].onWritable = d.onWritable
        /\ [d EXCEPT !.handles = @ \ {k.onAborted}].wanted = d.wanted
    BY <2>1 DEF Socket
  <2> QED BY <2>1, <2>2 DEF d
<1>3. k.status = "http" /\ k.tellsJS => Closed(k) = a
  BY DEF Closed
<1>4. k.status = "http" /\ ~k.tellsJS => Closed(k) = b
  BY DEF Closed
<1>5. k.status = "websocket" => Closed(k) = Destroyed(k)
  BY DEF Closed
<1> HIDE DEF a, b
<1>6. CASE k.status = "http" /\ k.tellsJS
  BY <1>6, <1>1, <1>3
<1>7. CASE k.status = "http" /\ ~k.tellsJS
  BY <1>7, <1>2, <1>4
<1>8. CASE k.status = "websocket"
  BY <1>8, <1>5, DestroyedIs
<1> QED BY <1>6, <1>7, <1>8

\* The end of a response: its handlers are gone.
LEMMA MarkDoneIs ==
  ASSUME NEW k \in Socket
  PROVE  LET m == MarkDone(k)
         IN  /\ m \in Socket /\ m.status = k.status /\ m.timer = k.timer /\ m.saved = k.saved /\ m.paused = k.paused
             /\ m.request = k.request /\ m.body = k.body /\ ~m.pending /\ m.last = k.last /\ m.head = k.head
             /\ m.onWritable = 0 /\ m.wanted = 0 /\ m.onAborted = 0 /\ ~m.tellsJS
             /\ m.inStream = k.inStream /\ m.handles = k.handles /\ m.poll = k.poll /\ m.buffered = k.buffered
<1> 0 \in 0 .. MaxBody /\ 0 \in 0 .. MaxRequests /\ 0 \in 0 .. MaxCalls /\ 0 \in 0 .. Placeholder
  BY HttpAssumption DEF Placeholder
<1> QED BY DEF Socket, MarkDone

\* The response k goes on as m, when not all of its body went out.
GoesOn(k, m, failed) ==
  /\ m \in Socket /\ m.status = k.status /\ m.timer = (k.timer \/ failed) /\ m.saved = k.saved /\ m.paused = k.paused
  /\ m.request = k.request /\ m.body = k.body /\ m.pending = k.pending /\ m.last = k.last /\ m.head = k.head
  /\ m.onWritable = k.onWritable /\ m.wanted = k.wanted /\ m.onAborted = k.onAborted /\ m.tellsJS = k.tellsJS
  /\ m.inStream = k.inStream /\ m.handles = k.handles /\ m.poll = k.poll /\ m.buffered = k.buffered

\* The response k is complete, its connection stays open; the timeout is armed
\* if all of its body went out.
Completes(k, m, all) ==
  /\ m \in Socket /\ m.status = k.status /\ (all => m.timer) /\ m.saved = k.saved /\ m.paused = k.paused
  /\ m.request = k.request /\ m.body = k.body /\ ~m.pending /\ m.last = k.last /\ m.head = k.head
  /\ m.onWritable = 0 /\ m.wanted = 0 /\ m.onAborted = 0 /\ ~m.tellsJS
  /\ m.inStream = k.inStream /\ m.handles = k.handles /\ m.poll = k.poll /\ m.buffered = k.buffered

\* The response k is complete and so is its connection.
Finishes(k, m) ==
  /\ m \in Socket /\ m.status = "closed" /\ m.request = k.request /\ ~m.pending /\ m.onWritable = 0 /\ m.wanted = 0
  /\ m.handles = k.handles

\* A connection that is done with is closed.
LEMMA FinishedIs ==
  ASSUME NEW k \in Socket, k.status = "http", ~k.tellsJS, k.onAborted = 0
  PROVE  /\ ReadyToClose(k) => ClosedIfDone(k) = Closed(k) /\ Finishes(k, Closed(k))
         /\ ~ReadyToClose(k) => ClosedIfDone(k) = k
<1>1. /\ Closed(k) \in Socket /\ Closed(k).request = k.request /\ Closed(k).handles = k.handles \ {0}
      /\ Closed(k).status = "closed" /\ Closed(k).onWritable = 0 /\ Closed(k).wanted = 0
  BY ClosedIs
<1>2. k.handles \ {0} = k.handles
  BY SocketFields
<1>3. ~Closed(k).pending
  <2> DEFINE d == Destroyed(k)
  <2>1. d \in Socket /\ ~d.pending
    BY DestroyedIs
  <2> HIDE DEF d
  <2>2. ~[d EXCEPT !.handles = @ \ {k.onAborted}].pending
    BY <2>1 DEF Socket
  <2>3. Closed(k) = [d EXCEPT !.handles = @ \ {k.onAborted}]
    BY DEF Closed, d
  <2> QED BY <2>2, <2>3
<1> QED BY <1>1, <1>2, <1>3 DEF Finishes, ClosedIfDone

\* internalEnd, after its writes.
LEMMA AfterEndIs ==
  ASSUME NEW c, NEW w, w.k \in Socket, w.failed \in BOOLEAN, w.k.status = "http",
         NEW given, NEW n \in Nat, NEW total, w.k.offset + n \in 0 .. BodySize
  PROVE  LET k    == w.k
             m    == AfterEnd(c, w, given, n, total)
             all  == k.chunked \/ k.offset + n = total
             done == all \/ given = 0
         IN  /\ ~done => \E failed : GoesOn(k, m, failed)
             /\ done => \/ Completes(k, m, all) /\ (Corked(w) = c \/ ~ReadyToClose(m))
                        \/ Finishes(k, m)
<1> DEFINE k == w.k
           a == Counted(w, n)
           all == k.chunked \/ k.offset + n = total
           failed == w.failed /\ given > 0
           t == Timed(a, a.chunked \/ a.offset = total, failed)
           done == all \/ given = 0
           d == AfterWrites(w, given, n, total)
           m == AfterEnd(c, w, given, n, total)
<1>1. k \in Socket
  OBVIOUS
<1>2. a \in Socket
  BY <1>1 DEF Socket, Counted
<1>3. /\ a.status = k.status /\ a.timer = k.timer /\ a.saved = k.saved /\ a.paused = k.paused
      /\ a.request = k.request /\ a.body = k.body /\ a.pending = k.pending /\ a.last = k.last /\ a.head = k.head
      /\ a.onWritable = k.onWritable /\ a.wanted = k.wanted /\ a.onAborted = k.onAborted /\ a.tellsJS = k.tellsJS
      /\ a.inStream = k.inStream /\ a.handles = k.handles /\ a.poll = k.poll /\ a.buffered = k.buffered
      /\ a.chunked = k.chunked /\ a.offset = k.offset + n
  BY <1>1 DEF Socket, Counted
<1>4. /\ m = IF Done(a, given, total) /\ Corked(w) # c THEN ClosedIfDone(d) ELSE d
      /\ d = IF Done(a, given, total) THEN MarkDone(t) ELSE t
  BY DEF AfterEnd, AfterWrites, Corked
<1> HIDE DEF a, m, d
<1>9. Done(a, given, total) <=> done
  BY <1>3 DEF Done
<1>5. /\ t \in Socket /\ t.status = a.status /\ t.timer = (a.timer \/ all \/ failed)
      /\ t.saved = a.saved /\ t.paused = a.paused
      /\ t.request = a.request /\ t.body = a.body /\ t.pending = a.pending /\ t.last = a.last /\ t.head = a.head
      /\ t.onWritable = a.onWritable /\ t.wanted = a.wanted /\ t.onAborted = a.onAborted /\ t.tellsJS = a.tellsJS
      /\ t.inStream = a.inStream /\ t.handles = a.handles /\ t.poll = a.poll /\ t.buffered = a.buffered
  <2>1. (a.chunked \/ a.offset = total) = all
    BY <1>3
  <2>2. t = [a EXCEPT !.timer = @ \/ all \/ failed]
    BY <2>1 DEF Timed
  <2> HIDE DEF t, all, failed
  <2>3. [a EXCEPT !.timer = @ \/ all \/ failed] \in Socket
    BY <1>2 DEF Socket
  <2> QED BY <1>2, <2>2, <2>3 DEF Socket
<1> HIDE DEF t, k, failed, all
<1>6. ~done => GoesOn(k, m, all \/ failed)
  BY <1>3, <1>4, <1>5, <1>9 DEF GoesOn
<1>7. ASSUME done PROVE Completes(k, MarkDone(t), all)
  BY <1>3, <1>5, <1>7, MarkDoneIs DEF Completes
<1>8. ASSUME done
      PROVE  \/ Completes(k, m, all) /\ (Corked(w) = c \/ ~ReadyToClose(m))
             \/ Finishes(k, m)
  <2>0. d = MarkDone(t)
    BY <1>4, <1>8, <1>9
  <2>3. Completes(k, d, all)
    BY <1>7, <1>8, <2>0
  <2>1. d \in Socket /\ d.status = "http" /\ ~d.tellsJS /\ d.onAborted = 0 /\ d.handles = k.handles /\ d.request = k.request
    BY <2>3 DEF Completes, k
  <2>2. m = IF Corked(w) # c THEN ClosedIfDone(d) ELSE d
    BY <1>4, <1>8, <1>9
  <2>4. /\ ReadyToClose(d) => ClosedIfDone(d) = Closed(d) /\ Finishes(d, Closed(d))
        /\ ~ReadyToClose(d) => ClosedIfDone(d) = d
    BY <2>1, FinishedIs
  <2>5. Finishes(d, Closed(d)) => Finishes(k, Closed(d))
    BY <2>1 DEF Finishes
  <2> QED BY <2>2, <2>3, <2>4, <2>5
<1> QED BY <1>6, <1>8 DEF k, m, all

\* The socket of an upgrade goes to the WebSocket context.
LEMMA AdoptedIs ==
  ASSUME NEW k \in Socket
  PROVE  /\ Adopted(k) \in Socket /\ Adopted(k).status = "websocket" /\ Adopted(k).request = k.request
         /\ Adopted(k).handles = k.handles /\ Adopted(k).onWritable = 0 /\ Adopted(k).wanted = 0
<1> DEFINE d == Destroyed(k)
           m == [d EXCEPT !.status = "websocket", !.timer = TRUE, !.poll = k.poll, !.buffered = k.buffered]
<1>1. /\ d \in Socket /\ d.request = k.request /\ d.handles = k.handles /\ d.onWritable = 0 /\ d.wanted = 0
  BY DestroyedIs
<1>2. k.poll \in SUBSET Both /\ k.buffered \in BOOLEAN
  BY SocketFields
<1> HIDE DEF d
<1>3. /\ m \in Socket /\ m.status = "websocket" /\ m.request = d.request /\ m.handles = d.handles
      /\ m.onWritable = d.onWritable /\ m.wanted = d.wanted
  BY <1>1, <1>2 DEF Socket, Both
<1>4. Adopted(k) = m
  BY DEF Adopted, d
<1> QED BY <1>1, <1>3, <1>4

-----------------------------------------------------------------------------
(* What holds of a socket, kept.                                           *)

\* The calls under way for the socket c are the same in F and F2.
SameCalls(c, F, F2) ==
  /\ \A f \in F \cup F2 : f.socket = c /\ f.kind \in {"request", "data", "writable"} => (f \in F <=> f \in F2)
  /\ Has(F, c, "aborted") => Has(F2, c, "aborted")

\* The cork buffer was not taken from the socket c, or filled for it.
SameCork(c, l, l2) ==
  /\ l2.corked = c /\ l2.bytes => l.corked = c /\ l.bytes
  /\ Without({"upgradesOthers"}) /\ l.corked = c => l2.corked = c

\* The same calls are the same handlers.
LEMMA SameHas ==
  ASSUME NEW c, NEW F, NEW F2, SameCalls(c, F, F2)
  PROVE  /\ \A kind \in {"request", "data", "writable"} : Has(F, c, kind) => Has(F2, c, kind)
         /\ \A f \in F2 : f.socket = c /\ f.kind \in {"request", "data", "writable"} => f \in F
         /\ \A f \in F : f.socket = c /\ f.kind \in {"request", "data", "writable"} => f \in F2
BY DEF SameCalls, Has

\* What happens to others changes nothing.
LEMMA OthersKept ==
  ASSUME NEW k, NEW c, NEW F, NEW F2, SameCalls(c, F, F2), NEW cl, NEW cl2, cl => cl2, Kept(k, c, F, cl)
  PROVE  Kept(k, c, F2, cl2)
<1>1. Has(F, c, "request") => Has(F2, c, "request")
  BY SameHas
<1>2. Has(F, c, "aborted") => Has(F2, c, "aborted")
  BY DEF SameCalls
<1>3. Has(F, c, "writable") => Has(F2, c, "writable")
  BY SameHas
<1>4. \A f \in F2 : f.socket = c /\ f.kind = "writable" => f \in F
  BY SameHas
<1> QED BY <1>1, <1>2, <1>3, <1>4 DEF Kept

\* What happens to others changes nothing for its data handler.
LEMMA OthersFed ==
  ASSUME NEW k, NEW c, NEW F, NEW F2, SameCalls(c, F, F2), Fed(k, c, F)
  PROVE  Fed(k, c, F2)
<1>1. \A f \in F2 : f.socket = c /\ f.kind \in {"request", "data"} => f \in F
  BY SameHas
<1>2. \A f \in F : f.socket = c /\ f.kind = "data" => f \in F2
  BY SameHas
<1> QED BY <1>1, <1>2 DEF Fed

\* What happens to others changes nothing at all.
LEMMA OthersSound ==
  ASSUME NEW k, NEW c, NEW F, NEW F2, SameCalls(c, F, F2), NEW cl, NEW cl2, cl => cl2,
         NEW l, NEW l2, SameCork(c, l, l2), NEW events, Sound(k, c, F, cl, l, events)
  PROVE  Sound(k, c, F2, cl2, l2, events)
<1>1. Kept(k, c, F2, cl2)
  BY OthersKept DEF Sound
<1>2. Without({"registersLate"}) => Fed(k, c, F2)
  BY OthersFed DEF Sound
<1>3. Without(Unpolls) => Polls(k, c, l2)
  BY DEF Sound, Polls, SameCork
<1>4. Without({"upgradesOthers"}) => Ends(k, c, l2)
  BY DEF Sound, Ends, SameCork
<1> QED BY <1>1, <1>2, <1>3, <1>4 DEF Sound

\* A socket that has left HTTP promises no more than to lose its handles.
LEMMA LeftSound ==
  ASSUME NEW k, NEW m, NEW c, NEW F, NEW F2, SameCalls(c, F, F2), NEW cl, NEW cl2, cl => cl2,
         NEW l, NEW l2, NEW events, NEW events2, Sound(k, c, F, cl, l, events),
         m.status \in {"closing", "websocket", "closed"}, m.request = k.request, m.handles \subseteq k.handles,
         m.handles # {} => cl2 /\ Has(F, c, "request"),
         m.status = "closing" => Has(F2, c, "aborted") /\ m.onWritable = k.onWritable /\ m.wanted = k.wanted,
         m.status # "closing" => m.onWritable = 0 /\ m.wanted = 0
  PROVE  Sound(m, c, F2, cl2, l2, events2)
<1>1. Kept(m, c, F2, cl2)
  <2>1. Kept(k, c, F2, cl2)
    BY OthersKept DEF Sound
  <2>2. Has(F, c, "request") => Has(F2, c, "request")
    BY SameHas
  <2>3. 0 # Placeholder
    BY HttpAssumption DEF Placeholder
  <2> QED BY <2>1, <2>2, <2>3 DEF Kept
<1>2. Without({"registersLate"}) => Fed(m, c, F2)
  <2>1. Fed(k, c, F) => Fed(k, c, F2)
    BY OthersFed
  <2> QED BY <2>1 DEF Fed, Sound
<1> QED BY <1>1, <1>2 DEF Sound, Timely, Polls, Told, Ends

\* A socket that is closed: only the handler that runs keeps a handle.
LEMMA ClosedSound ==
  ASSUME NEW k \in Socket, k.status \in {"http", "websocket"},
         NEW c, NEW F, NEW F2, SameCalls(c, F, F2), NEW cl, NEW cl2, cl => cl2,
         NEW l, NEW l2, NEW events, NEW events2, Sound(k, c, F, cl, l, events),
         k.handles = {} \/ cl2 \/ ~Has(F, c, "request"),
         k.status = "http" /\ k.tellsJS => Has(F2, c, "aborted")
  PROVE  Sound(Closed(k), c, F2, cl2, l2, events2)
<1> DEFINE m == Closed(k)
<1>1. /\ m.status \in {"closing", "closed"} /\ m.request = k.request
      /\ m.handles = IF k.status = "http" THEN k.handles \ {k.onAborted} ELSE k.handles
      /\ m.status = "closing" =>
           k.status = "http" /\ k.tellsJS /\ m.onWritable = k.onWritable /\ m.wanted = k.wanted
      /\ m.status # "closing" => m.onWritable = 0 /\ m.wanted = 0
  BY ClosedIs
<1> HIDE DEF m
<1>2. Kept(k, c, F, cl)
  BY DEF Sound
<1>3. m.handles \subseteq k.handles
  BY <1>1
<1>4. m.handles # {} => cl2 /\ Has(F, c, "request")
  <2>1. CASE k.status = "http"
    <3>1. k.handles \subseteq {k.request} /\ (k.handles # {} => k.onAborted = k.request \/ Has(F, c, "request"))
      BY <1>2, <2>1 DEF Kept
    <3>2. k.onAborted = k.request => m.handles = {}
      BY <3>1, <1>1, <2>1
    <3> QED BY <3>1, <3>2, <1>3
  <2>2. CASE k.status = "websocket"
    BY <1>1, <1>2, <2>2 DEF Kept
  <2> QED BY <2>1, <2>2
<1>5. m.status \in {"closing", "websocket", "closed"}
  BY <1>1
<1>6. m.status = "closing" => Has(F2, c, "aborted") /\ m.onWritable = k.onWritable /\ m.wanted = k.wanted
  BY <1>1
<1>7. Sound(m, c, F2, cl2, l2, events2)
  BY <1>1, <1>3, <1>4, <1>5, <1>6, LeftSound
<1> QED BY <1>7 DEF m

-----------------------------------------------------------------------------
(* The holder of the cork buffer.                                          *)

\* A frame that does not hold the cork buffer may come on top.
LEMMA LentPush ==
  ASSUME NEW st \in Seq(AnyFrame), NEW f \in AnyFrame, ~Holder(f), NEW c, Lent(st, c)
  PROVE  Lent(<<f>> \o st, c)
<1> DEFINE r == <<f>> \o st
<1>1. PICK i \in DOMAIN st : Holder(st[i]) /\ st[i].socket = c /\ \A j \in 1 .. i - 1 : ~Holder(st[j])
  BY DEF Lent
<1>2. r[1] = f /\ Len(r) = Len(st) + 1 /\ (\A j \in DOMAIN st : r[j + 1] = st[j]) /\ r \in Seq(AnyFrame)
  BY PushFrames
<1>3. Len(st) \in Nat /\ DOMAIN st = 1 .. Len(st) /\ DOMAIN r = 1 .. Len(r)
  BY <1>2
<1> HIDE DEF r
<1>4. i + 1 \in DOMAIN r /\ r[i + 1] = st[i]
  BY <1>2, <1>3
<1>5. ASSUME NEW j \in 1 .. (i + 1) - 1 PROVE ~Holder(r[j])
  <2>1. CASE j = 1
    BY <1>2, <2>1
  <2>2. CASE j # 1
    <3>1. j - 1 \in DOMAIN st /\ j - 1 \in 1 .. i - 1 /\ (j - 1) + 1 = j
      BY <1>3, <2>2
    <3>2. r[j] = st[j - 1]
      BY <1>2, <3>1
    <3> QED BY <1>1, <3>1, <3>2
  <2> QED BY <2>1, <2>2
<1>6. Lent(r, c)
  BY <1>1, <1>4, <1>5 DEF Lent
<1> QED BY <1>6 DEF r

\* The topmost holder has it, and nobody if there is none.
LEMMA LentTop ==
  ASSUME NEW st \in Seq(AnyFrame), st # <<>>, NEW c
  PROVE  /\ Holder(Head(st)) => (Lent(st, c) <=> Head(st).socket = c)
         /\ ~Holder(Head(st)) /\ Lent(st, c) => Lent(Tail(st), c)
<1>1. Head(st) = st[1] /\ Len(st) \in Nat \ {0} /\ DOMAIN st = 1 .. Len(st)
  BY Single
<1>2. ASSUME Holder(st[1]), st[1].socket = c PROVE Lent(st, c)
  <2>1. 1 \in DOMAIN st /\ \A j \in 1 .. 1 - 1 : ~Holder(st[j])
    BY <1>1
  <2> QED BY <1>2, <2>1 DEF Lent
<1>3. ASSUME Lent(st, c) PROVE (Holder(st[1]) => st[1].socket = c) /\ (~Holder(st[1]) => Lent(Tail(st), c))
  <2>1. PICK i \in DOMAIN st : Holder(st[i]) /\ st[i].socket = c /\ \A j \in 1 .. i - 1 : ~Holder(st[j])
    BY <1>3 DEF Lent
  <2>2. Holder(st[1]) => i = 1
    BY <1>1, <2>1
  <2>3. ASSUME ~Holder(st[1]) PROVE Lent(Tail(st), c)
    <3> DEFINE r == Tail(st)
    <3>1. r \in Seq(AnyFrame) /\ Len(r) = Len(st) - 1 /\ \A j \in DOMAIN r : r[j] = st[j + 1]
      BY PopFrames
    <3>2. DOMAIN r = 1 .. Len(r)
      BY <3>1
    <3> HIDE DEF r
    <3>3. i # 1
      BY <2>1, <2>3
    <3>4. i - 1 \in DOMAIN r /\ r[i - 1] = st[i]
      BY <1>1, <3>1, <3>2, <3>3
    <3>5. ASSUME NEW j \in 1 .. (i - 1) - 1 PROVE ~Holder(r[j])
      <4>1. j \in DOMAIN r /\ j + 1 \in 1 .. i - 1
        BY <1>1, <3>1, <3>2
      <4> QED BY <2>1, <3>1, <4>1
    <3>6. Lent(r, c)
      BY <2>1, <3>4, <3>5 DEF Lent
    <3> QED BY <3>6 DEF r
  <2> QED BY <2>1, <2>2, <2>3
<1> QED BY <1>1, <1>2, <1>3

\* Nobody has it when nothing runs.
LEMMA LentNever == \A c : ~Lent(<<>>, c)
BY DEF Lent

-----------------------------------------------------------------------------
(* A step, put together.                                                   *)

\* What the invariant says of the variables.
LEMMA Pieces ==
  ASSUME IInv
  PROVE  /\ sock \in [Sockets -> Socket] /\ loop \in Shared /\ calls \in 0 .. MaxCalls /\ closed \in BOOLEAN
         /\ stack \in Seq(AnyFrame) /\ log \in [Sockets -> Seq(Events)]
         /\ Global /\ Nested(stack) /\ Reading /\ Closing /\ Ending /\ Corking
         /\ \A c \in Sockets : Sound(sock[c], c, Frames(stack), closed, loop, log[c])
         /\ \A c \in Sockets : Kept(sock[c], c, Frames(stack), closed)
BY TypedIs DEF IInv, Global, Sound

\* One socket has changed; what holds of it, and of all together, is left to show.
LEMMA Changes ==
  ASSUME IInv, NEW c \in Sockets, NEW m \in Socket, sock' = [sock EXCEPT ![c] = m],
         loop' \in Shared, calls' \in 0 .. MaxCalls, closed' \in BOOLEAN, closed => closed',
         stack' \in Seq(AnyFrame), log' \in [Sockets -> Seq(Events)],
         \A d \in Sockets \ {c} : /\ SameCalls(d, Frames(stack), Frames(stack'))
                                  /\ SameCork(d, loop, loop') /\ log'[d] = log[d],
         Sound(m, c, Frames(stack'), closed', loop', log'[c]),
         Global'
  PROVE  IInv'
<1>1. sock \in [Sockets -> Socket]
  BY Pieces
<1>2. sock' \in [Sockets -> Socket] /\ sock'[c] = m /\ \A d \in Sockets \ {c} : sock'[d] = sock[d]
  BY <1>1
<1>3. Typed'
  BY <1>2 DEF Typed, TypeOK, Shared, AnyFrame
<1>4. ASSUME NEW d \in Sockets PROVE Sound(sock'[d], d, Frames(stack'), closed', loop', log'[d])
  <2>1. CASE d = c
    BY <1>2, <2>1
  <2>2. CASE d # c
    <3>1. Sound(sock[d], d, Frames(stack), closed, loop, log[d])
      BY Pieces
    <3>2. SameCalls(d, Frames(stack), Frames(stack')) /\ SameCork(d, loop, loop') /\ log'[d] = log[d]
      BY <2>2
    <3>3. Sound(sock[d], d, Frames(stack'), closed', loop', log[d])
      BY <3>1, <3>2, OthersSound
    <3> QED BY <1>2, <2>2, <3>2, <3>3
  <2> QED BY <2>1, <2>2
<1> QED BY <1>3, <1>4 DEF IInv

\* No socket has changed.
LEMMA Rests ==
  ASSUME IInv, sock' = sock,
         loop' \in Shared, calls' \in 0 .. MaxCalls, closed' \in BOOLEAN, closed => closed',
         stack' \in Seq(AnyFrame), log' = log,
         \A d \in Sockets : SameCalls(d, Frames(stack), Frames(stack')) /\ SameCork(d, loop, loop'),
         Global'
  PROVE  IInv'
<1>1. sock \in [Sockets -> Socket] /\ log \in [Sockets -> Seq(Events)]
  BY Pieces
<1>2. Typed'
  BY <1>1 DEF Typed, TypeOK, Shared, AnyFrame
<1>3. ASSUME NEW d \in Sockets PROVE Sound(sock'[d], d, Frames(stack'), closed', loop', log'[d])
  <2>1. Sound(sock[d], d, Frames(stack), closed, loop, log[d])
    BY Pieces
  <2>2. Sound(sock[d], d, Frames(stack'), closed', loop', log[d])
    BY <2>1, OthersSound
  <2> QED BY <2>2
<1> QED BY <1>2, <1>3 DEF IInv

\* What holds of all sockets together: nothing opens one again, a frame that
\* is pushed has its reason, and the parser's stays.
LEMMA GlobalKept ==
  ASSUME Global, Nested(stack'), Reading', closed => closed',
         \A f \in Frames(stack') : f \in Frames(stack) \/
           /\ f.kind = "appClose" => closed'
           /\ f.kind = "aborted" => sock'[f.socket].status # "http"
           /\ f.kind = "cork" => f.mode \in {"run", "uncork"}
           /\ f.kind = "read" /\ f.mode = "stop" /\ Without({"upgradesOthers"}) => sock'[f.socket].status # "http",
         \A f \in Frames(stack) : f.kind = "read" => Has(Frames(stack'), f.socket, "read"),
         \A f \in Frames(stack) : sock'[f.socket].status = "http" => sock[f.socket].status = "http",
         loop'.bytes => loop'.corked # NoSocket,
         loop'.parsing => loop.parsing,
         loop'.upgraded = loop.upgraded \/
           (Without({"upgradesOthers"}) => loop'.upgraded = NoSocket \/
              (Has(Frames(stack'), loop'.upgraded, "read") /\ sock'[loop'.upgraded].status # "http")),
         Without({"upgradesOthers"}) /\ loop'.corked # NoSocket => Lent(stack', loop'.corked)
  PROVE  Global'
<1>1. Closing'
  BY DEF Global, Closing
<1>2. Ending' /\ Corking'
  BY DEF Global, Ending, Corking
<1>3. loop'.parsing => \E f \in Frames(stack') : f.kind = "read"
  BY DEF Global, Has
<1>4. ASSUME Without({"upgradesOthers"}) PROVE Lending'
  <2>1. Lending
    BY <1>4 DEF Global
  <2>2. \A f \in Frames(stack') : f.kind = "read" /\ f.mode = "stop" => sock'[f.socket].status # "http"
    BY <1>4, <2>1 DEF Lending
  <2>3. ASSUME loop'.upgraded = loop.upgraded, loop.upgraded # NoSocket
        PROVE  Has(Frames(stack'), loop.upgraded, "read") /\ sock'[loop.upgraded].status # "http"
    <3>1. Has(Frames(stack), loop.upgraded, "read") /\ sock[loop.upgraded].status # "http"
      BY <2>1, <2>3 DEF Lending
    <3>2. PICK f \in Frames(stack) : f.socket = loop.upgraded /\ f.kind = "read"
      BY <3>1 DEF Has
    <3> QED BY <3>1, <3>2
  <2>4. loop'.upgraded # NoSocket => Has(Frames(stack'), loop'.upgraded, "read") /\ sock'[loop'.upgraded].status # "http"
    BY <1>4, <2>3
  <2> QED BY <1>4, <2>2, <2>4 DEF Lending
<1>5. Without({"upgradesOthers"})' <=> Without({"upgradesOthers"})
  BY DEF Without
<1> QED BY <1>1, <1>2, <1>3, <1>4, <1>5 DEF Global

\* A write through one socket leaves the cork buffer of the others alone.
LEMMA PassesOthers ==
  ASSUME NEW c \in Sockets, NEW l, NEW l2, Passes(c, l, l2)
  PROVE  /\ \A d \in Sockets \ {c} : SameCork(d, l, l2)
         /\ (l.bytes => l.corked # NoSocket) => (l2.bytes => l2.corked # NoSocket)
BY HttpAssumption DEF Passes, SameCork

\* The same frames are the same calls, and so are fewer or more of other kinds.
LEMMA SameFrames ==
  ASSUME NEW d, NEW F
  PROVE  /\ SameCalls(d, F, F)
         /\ \A f : f.socket # d \/ f.kind \notin {"request", "data", "writable"} => SameCalls(d, F, {f} \cup F)
         /\ \A f : f.socket # d \/ f.kind \notin {"request", "data", "writable", "aborted"} => SameCalls(d, {f} \cup F, F)
BY DEF SameCalls, Has

\* The application may call when neither the parser nor the loop is at work.
LEMMA Calling ==
  ASSUME IInv, NEW name, MayCall(name)
  PROVE  /\ calls' \in 0 .. MaxCalls /\ calls + 1 \in 1 .. MaxCalls
         /\ stack # <<>> => Top.kind \notin {"read", "appClose"}
<1>1. calls \in 0 .. MaxCalls /\ MaxCalls \in Nat
  BY Pieces, HttpAssumption
<1> QED BY <1>1 DEF MayCall, Handlers

\* A step of a handler that changes one socket and runs no other handler.
LEMMA SameStack ==
  ASSUME IInv, NEW c \in Sockets, NEW m \in Socket, sock' = [sock EXCEPT ![c] = m],
         m.status = "http" => sock[c].status = "http",
         Passes(c, loop, loop'), calls' \in 0 .. MaxCalls, stack' = stack, closed' = closed,
         stack # <<>> => Top.kind # "read",
         log' \in [Sockets -> Seq(Events)], \A d \in Sockets \ {c} : log'[d] = log[d],
         Sound(m, c, Frames(stack), closed, loop', log'[c])
  PROVE  IInv'
<1>1. /\ sock \in [Sockets -> Socket] /\ loop \in Shared /\ closed \in BOOLEAN /\ stack \in Seq(AnyFrame)
      /\ Global /\ Nested(stack)
  BY Pieces
<1>2. \A d : sock'[d].status = "http" /\ d \in Sockets => sock[d].status = "http"
  BY <1>1
<1>3. /\ \A d \in Sockets \ {c} : SameCork(d, loop, loop')
      /\ loop'.bytes => loop'.corked # NoSocket
  BY <1>1, PassesOthers DEF Global
<1>4. Global'
  <2>1. Nested(stack')
    BY <1>1
  <2>2. Reading'
    BY DEF Reading, Top
  <2>3. \A f \in Frames(stack) : sock'[f.socket].status = "http" => sock[f.socket].status = "http"
    <3> SUFFICES ASSUME NEW f \in Frames(stack), sock'[f.socket].status = "http" PROVE sock[f.socket].status = "http"
      OBVIOUS
    <3>1. CASE f.socket = c
      BY <1>1, <3>1
    <3>2. CASE f.socket # c
      BY <1>1, <3>2
    <3> QED BY <3>1, <3>2
  <2>4. \A f \in Frames(stack) : f.kind = "read" => Has(Frames(stack'), f.socket, "read")
    BY DEF Has
  <2>5. loop'.parsing = loop.parsing /\ loop'.upgraded = loop.upgraded
    BY DEF Passes
  <2>6. Without({"upgradesOthers"}) /\ loop'.corked # NoSocket => Lent(stack', loop'.corked)
    BY <1>1 DEF Global, Lending, Passes
  <2>7. \A f \in Frames(stack') : f \in Frames(stack)
    OBVIOUS
  <2> QED BY <1>1, <1>3, <2>1, <2>2, <2>3, <2>4, <2>5, <2>6, <2>7, GlobalKept
<1>5. \A d \in Sockets \ {c} : SameCalls(d, Frames(stack), Frames(stack'))
  BY SameFrames
<1>6. loop' \in Shared
  BY DEF Passes
<1> QED BY <1>1, <1>3, <1>4, <1>5, <1>6, Changes

-----------------------------------------------------------------------------
(* The calls of the application on one response.                           *)

\* The application is told something.
LEMMA TellsIs ==
  ASSUME log \in [Sockets -> Seq(Events)], NEW c \in Sockets, NEW e \in Events
  PROVE  LET l == [log EXCEPT ![c] = Append(@, e)]
         IN  /\ l \in [Sockets -> Seq(Events)] /\ l[c] = Append(log[c], e) /\ \A d \in Sockets \ {c} : l[d] = log[d]
             /\ l[c] # <<>> /\ l[c][Len(l[c])] = e
<1>1. log[c] \in Seq(Events)
  OBVIOUS
<1>2. Append(log[c], e) \in Seq(Events) /\ Append(log[c], e) # <<>> /\ Append(log[c], e)[Len(Append(log[c], e))] = e
  BY <1>1, AppendProperties
<1> QED BY <1>1, <1>2

\* Whoever holds a handle on an open connection holds that of the request under way.
LEMMA Held ==
  ASSUME IInv, NEW c \in Sockets, Holds(c), sock[c].status = "http"
  PROVE  /\ sock[c] \in Socket /\ sock[c].pending /\ sock[c].handles = {sock[c].request}
         /\ sock[c].request \in 1 .. MaxRequests
         /\ Sound(sock[c], c, Frames(stack), closed, loop, log[c])
<1>1. sock[c] \in Socket
  BY Pieces
<1>2. Kept(sock[c], c, Frames(stack), closed)
  BY Pieces
<1>3. sock[c].handles \subseteq {sock[c].request} /\ (~sock[c].pending => sock[c].handles = {})
  BY <1>2 DEF Kept
<1>4. sock[c].handles \in SUBSET (1 .. MaxRequests) /\ sock[c].pending \in BOOLEAN
  BY <1>1, SocketFields
<1>5. sock[c].handles = {sock[c].request} /\ sock[c].pending
  BY <1>3, <1>4 DEF Holds
<1>6. sock[c].request \in 1 .. MaxRequests
  BY <1>4, <1>5
<1>7. Sound(sock[c], c, Frames(stack), closed, loop, log[c])
  BY Pieces
<1> QED BY <1>1, <1>5, <1>6, <1>7

\* A response that goes on: its handles stay, its handlers are set or stay.
LEMMA GoesOnSound ==
  ASSUME NEW k \in Socket, NEW m, NEW c, NEW F, NEW cl, NEW l, NEW l2, NEW events,
         Sound(k, c, F, cl, l, events), k.status = "http", k.pending, m.status = "http", m.pending,
         m.request = k.request, m.body = k.body, m.head = k.head,
         m.handles = k.handles \/ (m.handles = {} /\ ~Without(Untimed)),
         (m.onAborted = k.onAborted /\ m.tellsJS = k.tellsJS) \/ (m.onAborted = k.request /\ k.request # 0),
         (m.onWritable = k.onWritable /\ m.wanted = k.wanted) \/ (m.onWritable = m.wanted /\ m.wanted # Placeholder),
         m.inStream = k.inStream \/ (m.inStream = k.request /\ (Without({"registersLate"}) => Has(F, c, "request"))),
         Without(Unpolls) => Polls(m, c, l2)
  PROVE  Sound(m, c, F, cl, l2, events)
<1>1. Kept(m, c, F, cl)
  <2>1. Kept(k, c, F, cl)
    BY DEF Sound
  <2> QED BY <2>1 DEF Kept
<1>2. Without({"registersLate"}) => Fed(m, c, F)
  <2>1. ASSUME Without({"registersLate"}) PROVE Fed(m, c, F)
    <3>1. Fed(k, c, F)
      BY <2>1 DEF Sound
    <3>2. Has(F, c, "request") => k.body > 0
      BY <3>1 DEF Fed, Has
    <3> QED BY <2>1, <3>1, <3>2 DEF Fed
  <2> QED BY <2>1
<1>3. Without(Untimed) => Timely(m)
  BY DEF Sound, Timely
<1>4. Without({"upgradesClose"}) => Told(m, events)
  BY DEF Sound, Told
<1>5. Ends(m, c, l2)
  BY DEF Ends, ReadyToClose
<1> QED BY <1>1, <1>2, <1>3, <1>4, <1>5 DEF Sound

\* A response that is complete, on a connection that stays open.
LEMMA CompletesSound ==
  ASSUME NEW k \in Socket, NEW m, NEW c, NEW F, NEW cl, NEW l, NEW l2, NEW events, NEW events2,
         Sound(k, c, F, cl, l, events), k.status = "http", k.pending, m.status = "http", ~m.pending,
         m.request = k.request, m.body = k.body, m.head = k.head, m.inStream = k.inStream,
         m.handles = {}, m.onAborted = 0, ~m.tellsJS, m.onWritable = 0, m.wanted = 0, Without(Untimed) => m.timer,
         k.inStream # 0 /\ k.body > 0 => "answersEarly" \in Scenarios,
         events2 # <<>> /\ events2[Len(events2)] = "answered",
         l2.corked = c \/ ~ReadyToClose(m),
         Without(Unpolls) => Polls(m, c, l2)
  PROVE  Sound(m, c, F, cl, l2, events2)
<1>0. 0 # Placeholder
  BY HttpAssumption DEF Placeholder
<1>1. Kept(m, c, F, cl)
  <2>1. Kept(k, c, F, cl)
    BY DEF Sound
  <2> QED BY <1>0, <2>1 DEF Kept
<1>2. Without({"registersLate"}) => Fed(m, c, F)
  BY DEF Sound, Fed
<1>3. Without(Untimed) => Timely(m)
  BY DEF Sound, Timely, Without, Untimed
<1>4. Told(m, events2)
  BY DEF Told
<1>5. Ends(m, c, l2)
  BY DEF Ends
<1> QED BY <1>1, <1>2, <1>3, <1>4, <1>5 DEF Sound

\* res.onWritable(handler).
LEMMA OnWritableKeeps == ASSUME IInv, NEW c \in Sockets, OnWritable(c) PROVE IInv'
<1> DEFINE k == sock[c]
           m == [k EXCEPT !.onWritable = calls + 1, !.wanted = calls + 1]
<1>1. MayCall("onWritable") /\ Holds(c) /\ k.status = "http"
      /\ sock' = [sock EXCEPT ![c] = m] /\ UNCHANGED <<loop, stack, closed, log>>
  <2>1. sock \in [Sockets -> Socket]
    BY Pieces
  <2> QED BY <2>1 DEF OnWritable
<1>2. /\ k \in Socket /\ k.pending /\ Sound(k, c, Frames(stack), closed, loop, log[c])
  BY <1>1, Held
<1>3. /\ calls' \in 0 .. MaxCalls /\ calls + 1 \in 1 .. MaxCalls
      /\ stack # <<>> => Top.kind # "read"
  BY <1>1, Calling
<1>4. calls + 1 \in 0 .. MaxCalls /\ calls + 1 \in 0 .. Placeholder /\ calls + 1 # Placeholder
  BY <1>3, HttpAssumption DEF Placeholder
<1> HIDE DEF k
<1>5. /\ m \in Socket /\ m.status = k.status /\ m.pending = k.pending /\ m.request = k.request /\ m.body = k.body
      /\ m.head = k.head /\ m.handles = k.handles /\ m.onAborted = k.onAborted /\ m.onWritable = calls + 1
      /\ m.tellsJS = k.tellsJS /\ m.wanted = calls + 1 /\ m.inStream = k.inStream /\ m.poll = k.poll /\ m.saved = k.saved
      /\ m.buffered = k.buffered /\ m.paused = k.paused
  BY <1>2, <1>4 DEF Socket
<1> HIDE DEF m
<1>6. Without(Unpolls) => Polls(m, c, loop)
  BY <1>2, <1>5 DEF Sound, Polls
<1>7. Sound(m, c, Frames(stack), closed, loop, log[c])
  BY <1>1, <1>2, <1>4, <1>5, <1>6, GoesOnSound
<1>8. Passes(c, loop, loop') /\ log' \in [Sockets -> Seq(Events)]
  BY <1>1, Pieces DEF Passes
<1> QED BY <1>1, <1>3, <1>5, <1>7, <1>8, SameStack DEF k

\* res.onAborted(handler).
LEMMA OnAbortedKeeps == ASSUME IInv, NEW c \in Sockets, OnAborted(c) PROVE IInv'
<1> DEFINE k == sock[c]
           m == [k EXCEPT !.onAborted = k.request, !.tellsJS = TRUE]
<1>1. MayCall("onAborted") /\ Holds(c) /\ k.status = "http"
      /\ sock' = [sock EXCEPT ![c] = m] /\ UNCHANGED <<loop, stack, closed, log>>
  <2>1. sock \in [Sockets -> Socket]
    BY Pieces
  <2> QED BY <2>1 DEF OnAborted
<1>2. /\ k \in Socket /\ k.pending /\ Sound(k, c, Frames(stack), closed, loop, log[c])
      /\ k.request \in 1 .. MaxRequests
  BY <1>1, Held
<1>3. /\ calls' \in 0 .. MaxCalls
      /\ stack # <<>> => Top.kind # "read"
  BY <1>1, Calling
<1>4. k.request \in 0 .. MaxRequests /\ k.request # 0
  BY <1>2, SocketFields
<1> HIDE DEF k
<1>5. /\ m \in Socket /\ m.status = k.status /\ m.pending = k.pending /\ m.request = k.request /\ m.body = k.body
      /\ m.head = k.head /\ m.handles = k.handles /\ m.onAborted = k.request /\ m.onWritable = k.onWritable
      /\ m.wanted = k.wanted /\ m.inStream = k.inStream /\ m.poll = k.poll /\ m.saved = k.saved
      /\ m.buffered = k.buffered /\ m.paused = k.paused
  BY <1>2, <1>4 DEF Socket
<1> HIDE DEF m
<1>6. Without(Unpolls) => Polls(m, c, loop)
  BY <1>1, <1>2, <1>5 DEF Sound, Polls, Without
<1>7. Without({"registersLate"}) /\ m.inStream # k.inStream => Has(Frames(stack), c, "request")
  BY <1>1, <1>5
<1>8. Sound(m, c, Frames(stack), closed, loop, log[c])
  BY <1>1, <1>2, <1>4, <1>5, <1>6, <1>7, GoesOnSound
<1>9. Passes(c, loop, loop') /\ log' \in [Sockets -> Seq(Events)]
  BY <1>1, Pieces DEF Passes
<1> QED BY <1>1, <1>3, <1>5, <1>8, <1>9, SameStack DEF k

\* res.onData(handler): while the request handler runs the body is still to come.
LEMMA OnDataKeeps == ASSUME IInv, NEW c \in Sockets, OnData(c) PROVE IInv'
<1> DEFINE k == sock[c]
           m == [k EXCEPT !.inStream = k.request]
<1>1. MayCall("onData") /\ Holds(c) /\ k.status = "http"
      /\ sock' = [sock EXCEPT ![c] = m] /\ UNCHANGED <<loop, stack, closed, log>>
      /\ (OnStack(c, "request") \/ "registersLate" \in Scenarios)
  <2>1. sock \in [Sockets -> Socket]
    BY Pieces
  <2> QED BY <2>1 DEF OnData
<1>2. /\ k \in Socket /\ k.pending /\ Sound(k, c, Frames(stack), closed, loop, log[c])
      /\ k.request \in 1 .. MaxRequests
  BY <1>1, Held
<1>3. /\ calls' \in 0 .. MaxCalls
      /\ stack # <<>> => Top.kind # "read"
  BY <1>1, Calling
<1>4. k.request \in 0 .. MaxRequests
  BY <1>2, SocketFields
<1> HIDE DEF k
<1>5. /\ m \in Socket /\ m.status = k.status /\ m.pending = k.pending /\ m.request = k.request /\ m.body = k.body
      /\ m.head = k.head /\ m.handles = k.handles /\ m.onAborted = k.onAborted /\ m.onWritable = k.onWritable
      /\ m.tellsJS = k.tellsJS /\ m.wanted = k.wanted /\ m.inStream = k.request /\ m.poll = k.poll /\ m.saved = k.saved
      /\ m.buffered = k.buffered /\ m.paused = k.paused
  BY <1>2, <1>4 DEF Socket
<1> HIDE DEF m
<1>6. Without(Unpolls) => Polls(m, c, loop)
  BY <1>1, <1>2, <1>5 DEF Sound, Polls, Without
<1>7. Without({"registersLate"}) /\ m.inStream # k.inStream => Has(Frames(stack), c, "request")
  BY <1>1, <1>5 DEF OnStack, Has, Frames, Without
<1>8. Sound(m, c, Frames(stack), closed, loop, log[c])
  BY <1>1, <1>2, <1>5, <1>6, <1>7, GoesOnSound
<1>9. Passes(c, loop, loop') /\ log' \in [Sockets -> Seq(Events)]
  BY <1>1, Pieces DEF Passes
<1> QED BY <1>1, <1>3, <1>5, <1>8, <1>9, SameStack DEF k

\* res.pause(): what was polled for is kept for later.
LEMMA PauseKeeps == ASSUME IInv, NEW c \in Sockets, Pause(c) PROVE IInv'
<1> DEFINE k == sock[c]
           m == [k EXCEPT !.saved = IF k.poll = {} THEN k.saved ELSE k.poll, !.poll = {}, !.paused = TRUE, !.timer = FALSE]
<1>1. MayCall("pause") /\ Holds(c) /\ k.status = "http"
      /\ sock' = [sock EXCEPT ![c] = m] /\ UNCHANGED <<loop, stack, closed, log>>
      /\ (loop.corked = c /\ loop.bytes => "writesPaused" \in Scenarios)
  <2>1. sock \in [Sockets -> Socket]
    BY Pieces
  <2>2. MayCall("pause") /\ Holds(c) /\ k.status = "http" /\ UNCHANGED <<loop, stack, closed, log>>
    BY DEF Pause
  <2>3. loop.corked = c /\ loop.bytes => "writesPaused" \in Scenarios
    BY DEF Pause
  <2>4. sock' = [sock EXCEPT ![c] = m]
    BY DEF Pause
  <2> QED BY <2>2, <2>3, <2>4
<1>2. /\ k \in Socket /\ k.pending /\ Sound(k, c, Frames(stack), closed, loop, log[c])
      /\ k.request \in 1 .. MaxRequests
  BY <1>1, Held
<1>3. /\ calls' \in 0 .. MaxCalls
      /\ stack # <<>> => Top.kind # "read"
  BY <1>1, Calling
<1>4. k.request \in 0 .. MaxRequests
  BY <1>2, SocketFields
<1> HIDE DEF k
<1>5. /\ m \in Socket /\ m.status = k.status /\ m.pending = k.pending /\ m.request = k.request /\ m.body = k.body
      /\ m.head = k.head /\ m.handles = k.handles /\ m.onAborted = k.onAborted /\ m.onWritable = k.onWritable
      /\ m.tellsJS = k.tellsJS /\ m.wanted = k.wanted /\ m.inStream = k.inStream /\ m.poll = {} /\ m.saved = (IF k.poll = {} THEN k.saved ELSE k.poll)
      /\ m.buffered = k.buffered /\ m.paused = TRUE
  BY <1>2, <1>4 DEF Socket
<1> HIDE DEF m
<1>6. Without(Unpolls) => Polls(m, c, loop)
  BY <1>1, <1>2, <1>5 DEF Sound, Polls, Without, Unpolls
<1>7. Without({"registersLate"}) /\ m.inStream # k.inStream => Has(Frames(stack), c, "request")
  BY <1>1, <1>5
<1>8. Sound(m, c, Frames(stack), closed, loop, log[c])
  BY <1>1, <1>2, <1>5, <1>6, <1>7, GoesOnSound
<1>9. Passes(c, loop, loop') /\ log' \in [Sockets -> Seq(Events)]
  BY <1>1, Pieces DEF Passes
<1> QED BY <1>1, <1>3, <1>5, <1>8, <1>9, SameStack DEF k

\* res.resume(): what was polled for is polled for again.
LEMMA ResumeKeeps == ASSUME IInv, NEW c \in Sockets, Resume(c) PROVE IInv'
<1> DEFINE k == sock[c]
           m == [k EXCEPT !.poll = k.saved, !.paused = FALSE, !.timer = TRUE]
<1>1. MayCall("pause") /\ Holds(c) /\ k.status = "http"
      /\ sock' = [sock EXCEPT ![c] = m] /\ UNCHANGED <<loop, stack, closed, log>>
      /\ (k.paused \/ ~k.buffered \/ "resumesUnpaused" \in Scenarios)
  <2>1. sock \in [Sockets -> Socket]
    BY Pieces
  <2> QED BY <2>1 DEF Resume
<1>2. /\ k \in Socket /\ k.pending /\ Sound(k, c, Frames(stack), closed, loop, log[c])
      /\ k.request \in 1 .. MaxRequests
  BY <1>1, Held
<1>3. /\ calls' \in 0 .. MaxCalls
      /\ stack # <<>> => Top.kind # "read"
  BY <1>1, Calling
<1>4. k.request \in 0 .. MaxRequests
  BY <1>2, SocketFields
<1> HIDE DEF k
<1>5. /\ m \in Socket /\ m.status = k.status /\ m.pending = k.pending /\ m.request = k.request /\ m.body = k.body
      /\ m.head = k.head /\ m.handles = k.handles /\ m.onAborted = k.onAborted /\ m.onWritable = k.onWritable
      /\ m.tellsJS = k.tellsJS /\ m.wanted = k.wanted /\ m.inStream = k.inStream /\ m.poll = k.saved /\ m.saved = k.saved
      /\ m.buffered = k.buffered /\ m.paused = FALSE
  BY <1>2, <1>4 DEF Socket
<1> HIDE DEF m
<1>6. Without(Unpolls) => Polls(m, c, loop)
  BY <1>1, <1>2, <1>5 DEF Sound, Polls, Without, Unpolls
<1>7. Without({"registersLate"}) /\ m.inStream # k.inStream => Has(Frames(stack), c, "request")
  BY <1>1, <1>5
<1>8. Sound(m, c, Frames(stack), closed, loop, log[c])
  BY <1>1, <1>2, <1>5, <1>6, <1>7, GoesOnSound
<1>9. Passes(c, loop, loop') /\ log' \in [Sockets -> Seq(Events)]
  BY <1>1, Pieces DEF Passes
<1> QED BY <1>1, <1>3, <1>5, <1>8, <1>9, SameStack DEF k

\* A write that failed arms the timeout.
LEMMA ArmedIs ==
  ASSUME NEW w, w.k \in Socket, w.failed \in BOOLEAN
  PROVE  GoesOn(w.k, Armed(w), w.failed)
<1> DEFINE k == w.k
           m == [k EXCEPT !.timer = @ \/ w.failed]
<1>1. m = Armed(w)
  BY DEF Armed
<1>2. GoesOn(k, m, w.failed)
  BY DEF GoesOn, Socket
<1> QED BY <1>1, <1>2

\* The response k as it is when its handles are gone.
Freed(k, m) ==
  /\ m \in Socket /\ m.status = k.status /\ m.timer = k.timer /\ m.saved = k.saved /\ m.paused = k.paused
  /\ m.request = k.request /\ m.body = k.body /\ m.pending = k.pending /\ m.head = k.head
  /\ m.chunked = k.chunked /\ m.ended = k.ended /\ m.offset = k.offset
  /\ m.onWritable = k.onWritable /\ m.wanted = k.wanted /\ m.onAborted = k.onAborted /\ m.tellsJS = k.tellsJS
  /\ m.inStream = k.inStream /\ m.handles = {} /\ m.poll = k.poll /\ m.buffered = k.buffered

\* Its handles are invalidated, at the end or with "Connection: close".
LEMMA FreedIs ==
  ASSUME NEW k \in Socket
  PROVE  /\ Freed(k, [k EXCEPT !.handles = {}]) /\ [k EXCEPT !.handles = {}].last = k.last
         /\ \A close \in BOOLEAN : Freed(k, [k EXCEPT !.handles = {}, !.last = @ \/ close])
<1>1. Freed(k, [k EXCEPT !.handles = {}]) /\ [k EXCEPT !.handles = {}].last = k.last
  BY DEF Socket, Freed
<1>2. ASSUME NEW close \in BOOLEAN PROVE Freed(k, [k EXCEPT !.handles = {}, !.last = @ \/ close])
  BY DEF Socket, Freed
<1> QED BY <1>1, <1>2

\* What is left of a write in the buffer is polled for.
LEMMA NotPausedPolls ==
  ASSUME NEW k, NEW m, ~k.paused \/ ~Without(Unpolls),
         m.paused = k.paused, m.buffered => m.poll = Both, NEW c, NEW l
  PROVE  Without(Unpolls) => Polls(m, c, l)
BY DEF Polls, Both

\* When the application writes.
LEMMA Writing ==
  ASSUME IInv, NEW c \in Sockets, WritesNow(c)
  PROVE  /\ Holds(c) /\ sock[c].status = "http"
         /\ ~sock[c].paused \/ ~Without(Unpolls)
BY DEF WritesNow, Without, Unpolls

\* res.write(chunk).
LEMMA WriteKeeps == ASSUME IInv, NEW c \in Sockets, Write(c) PROVE IInv'
<1> DEFINE k == sock[c]
           a == [k EXCEPT !.chunked = TRUE]
<1>1. /\ MayCall("write") /\ WritesNow(c) /\ UNCHANGED <<stack, closed, log>>
      /\ \E w \in Written(c, a) : \E m \in {w.k, Armed(w)} : Effect(c, w, m)
  BY DEF Write
<1>2. PICK w \in Written(c, a) : \E m \in {w.k, Armed(w)} : Effect(c, w, m)
  BY <1>1
<1>17. PICK m \in {w.k, Armed(w)} : Effect(c, w, m)
  BY <1>2
<1>3. /\ k.status = "http" /\ Holds(c) /\ (~k.paused \/ ~Without(Unpolls))
  BY <1>1, Writing
<1>4. /\ k \in Socket /\ k.pending /\ Sound(k, c, Frames(stack), closed, loop, log[c])
  BY <1>3, Held
<1>5. calls' \in 0 .. MaxCalls /\ (stack # <<>> => Top.kind # "read")
  BY <1>1, Calling
<1>6. loop \in Shared
  BY Pieces
<1>7. sock' = [sock EXCEPT ![c] = m] /\ loop' = w.loop
  BY <1>17 DEF Effect
<1> HIDE DEF k
<1>8. /\ a \in Socket /\ a.status = k.status /\ a.saved = k.saved /\ a.paused = k.paused
      /\ a.request = k.request /\ a.body = k.body /\ a.pending = k.pending /\ a.head = k.head
      /\ a.onWritable = k.onWritable /\ a.wanted = k.wanted /\ a.onAborted = k.onAborted /\ a.tellsJS = k.tellsJS
      /\ a.inStream = k.inStream /\ a.handles = k.handles
  BY <1>4 DEF Socket
<1> HIDE DEF a
<1>9. w.k \in Sent(a) /\ (w.k.buffered => w.k.poll = Both) /\ Outcome(c, w)
  BY <1>6, <1>8, WrittenIs
<1>10. w.k \in Socket /\ Alike(a, w.k)
  BY <1>8, <1>9, SentIs
<1>11. w.failed \in BOOLEAN /\ Passes(c, loop, loop')
  BY <1>7, <1>9 DEF Outcome
<1>12. GoesOn(w.k, m, w.failed) \/ GoesOn(w.k, m, FALSE)
  <2>1. GoesOn(w.k, Armed(w), w.failed)
    BY <1>10, <1>11, ArmedIs
  <2>2. GoesOn(w.k, w.k, FALSE)
    BY <1>10, SocketFields DEF GoesOn
  <2> QED BY <1>17, <2>1, <2>2
<1>13. /\ m \in Socket /\ m.status = k.status /\ m.paused = k.paused
       /\ m.request = k.request /\ m.body = k.body /\ m.pending = k.pending /\ m.head = k.head
       /\ m.onWritable = k.onWritable /\ m.wanted = k.wanted /\ m.onAborted = k.onAborted /\ m.tellsJS = k.tellsJS
       /\ m.inStream = k.inStream /\ m.handles = k.handles /\ (m.buffered => m.poll = Both)
  BY <1>8, <1>9, <1>10, <1>12 DEF GoesOn, Alike
<1>14. Without(Unpolls) => Polls(m, c, loop')
  BY <1>3, <1>13, NotPausedPolls
<1>15. Sound(m, c, Frames(stack), closed, loop', log[c])
  BY <1>3, <1>4, <1>13, <1>14, GoesOnSound
<1>16. log' = log /\ log' \in [Sockets -> Seq(Events)] /\ stack' = stack /\ closed' = closed
  BY <1>1, Pieces
<1> QED BY <1>3, <1>5, <1>7, <1>11, <1>13, <1>15, <1>16, SameStack DEF k

\* A response that is complete and whose connection is closed for it.
LEMMA FinishesSound ==
  ASSUME NEW k, NEW m, NEW c, NEW F, NEW cl, NEW l, NEW l2, NEW events, NEW events2,
         Sound(k, c, F, cl, l, events), m.status = "closed", m.request = k.request, m.handles = {},
         m.onWritable = 0, m.wanted = 0
  PROVE  Sound(m, c, F, cl, l2, events2)
<1>1. SameCalls(c, F, F)
  BY SameFrames
<1>2. m.handles \subseteq k.handles /\ m.status \in {"closing", "websocket", "closed"} /\ m.status # "closing"
  BY Zenon
<1> QED BY <1>1, <1>2, LeftSound

\* What the response k, on its way out as v, has in common with it.
Outgoing(k, v) ==
  /\ v \in Socket /\ v.status = k.status /\ v.paused = k.paused /\ v.request = k.request /\ v.body = k.body
  /\ v.pending = k.pending /\ v.head = k.head /\ v.chunked = k.chunked /\ v.offset = k.offset
  /\ v.onWritable = k.onWritable /\ v.wanted = k.wanted /\ v.inStream = k.inStream
  /\ v.onAborted = k.onAborted /\ v.tellsJS = k.tellsJS
  /\ v.handles \in {k.handles, {}} /\ (v.buffered => v.poll = Both)

\* A write of a response whose handles are gone already, or are not.
LEMMA OutgoingIs ==
  ASSUME NEW k \in Socket, NEW a, a = k \/ Freed(k, a), NEW v \in Sent(a), v.buffered => v.poll = Both
  PROVE  Outgoing(k, v) /\ v.handles = a.handles
<1>1. a \in Socket
  BY DEF Freed
<1>2. v \in Socket /\ Alike(a, v)
  BY <1>1, SentIs
<1> QED BY <1>1, <1>2 DEF Outgoing, Alike, Freed

\* The response goes on as m.
LEMMA EndGoesOn ==
  ASSUME NEW k \in Socket, NEW v, Outgoing(k, v), NEW m, NEW failed, GoesOn(v, m, failed),
         NEW c, NEW F, NEW cl, NEW l, NEW l2, NEW events, Sound(k, c, F, cl, l, events),
         k.status = "http", k.pending, ~k.paused \/ ~Without(Unpolls),
         v.handles = k.handles \/ ~Without(Untimed)
  PROVE  /\ Sound(m, c, F, cl, l2, events) /\ m \in Socket /\ m.status = "http" /\ m.pending
<1>1. /\ m \in Socket /\ m.status = "http" /\ m.pending /\ m.paused = k.paused
      /\ m.request = k.request /\ m.body = k.body /\ m.head = k.head
      /\ m.onWritable = k.onWritable /\ m.wanted = k.wanted /\ m.onAborted = k.onAborted /\ m.tellsJS = k.tellsJS
      /\ m.inStream = k.inStream /\ (m.buffered => m.poll = Both) /\ m.handles = v.handles
  BY DEF Outgoing, GoesOn
<1>2. Without(Unpolls) => Polls(m, c, l2)
  BY <1>1, NotPausedPolls
<1>3. m.handles = k.handles \/ (m.handles = {} /\ ~Without(Untimed))
  BY <1>1 DEF Outgoing
<1>4. Sound(m, c, F, cl, l2, events)
  BY <1>1, <1>2, <1>3, GoesOnSound
<1> QED BY <1>1, <1>4

\* The response is complete with u, and m is u without its handles.
LEMMA EndCompletes ==
  ASSUME NEW k \in Socket, NEW v, Outgoing(k, v), NEW all, NEW u, Completes(v, u, all), NEW m, m = u \/ Freed(u, m), m.handles = {},
         m.last = u.last,
         NEW c, NEW F, NEW cl, NEW l, NEW l2, NEW events, Sound(k, c, F, cl, l, events),
         k.status = "http", k.pending, ~k.paused \/ ~Without(Unpolls),
         k.inStream # 0 /\ k.body > 0 => "answersEarly" \in Scenarios,
         all \/ k.head \/ ~Without(Untimed),
         NEW events2, events2 # <<>>, events2[Len(events2)] = "answered",
         l2.corked = c \/ ~ReadyToClose(u)
  PROVE  Sound(m, c, F, cl, l2, events2) /\ m \in Socket
<1>1. /\ m \in Socket /\ m.status = "http" /\ ~m.pending /\ m.paused = k.paused
      /\ m.request = k.request /\ m.body = k.body /\ m.head = k.head /\ (all => m.timer)
      /\ m.onWritable = 0 /\ m.wanted = 0 /\ m.onAborted = 0 /\ ~m.tellsJS
      /\ m.inStream = k.inStream /\ (m.buffered => m.poll = Both) /\ m.handles = {}
      /\ m.pending = u.pending /\ m.buffered = u.buffered
  BY DEF Outgoing, Completes, Freed
<1>2. Without(Unpolls) => Polls(m, c, l2)
  BY <1>1, NotPausedPolls
<1>3. l2.corked = c \/ ~ReadyToClose(m)
  BY <1>1 DEF ReadyToClose
<1>5. Without(Untimed) => m.timer
  <2>1. Without(Untimed) => ~k.head
    BY DEF Sound, Timely
  <2> QED BY <1>1, <2>1
<1>4. Sound(m, c, F, cl, l2, events2)
  BY <1>1, <1>2, <1>3, <1>5, CompletesSound
<1> QED BY <1>1, <1>4

\* The response is complete with u, and so is its connection.
LEMMA EndFinishes ==
  ASSUME NEW k \in Socket, NEW v, Outgoing(k, v), NEW u, Finishes(v, u), NEW m, m = u \/ Freed(u, m), m.handles = {},
         NEW c, NEW F, NEW cl, NEW l, NEW l2, NEW events, Sound(k, c, F, cl, l, events), NEW events2
  PROVE  Sound(m, c, F, cl, l2, events2) /\ m \in Socket /\ m.status = "closed" /\ ~u.pending
<1>1. /\ m \in Socket /\ m.status = "closed" /\ m.request = k.request /\ m.handles = {}
      /\ m.onWritable = 0 /\ m.wanted = 0 /\ ~u.pending
  BY DEF Outgoing, Finishes, Freed
<1>2. Sound(m, c, F, cl, l2, events2)
  BY <1>1, FinishesSound
<1> QED BY <1>1, <1>2

\* What becomes of the log when a response may be complete.
LEMMA AnsweredIs ==
  ASSUME log \in [Sockets -> Seq(Events)], NEW c \in Sockets, sock[c].pending, NEW u, log' = Answered(c, u)
  PROVE  /\ log' \in [Sockets -> Seq(Events)] /\ \A d \in Sockets \ {c} : log'[d] = log[d]
         /\ u.pending => log' = log
         /\ ~u.pending => log'[c] # <<>> /\ log'[c][Len(log'[c])] = "answered"
<1>1. CASE u.pending
  BY <1>1 DEF Answered
<1>2. CASE ~u.pending
  <2>1. log' = [log EXCEPT ![c] = Append(@, "answered")]
    BY <1>2 DEF Answered
  <2>2. "answered" \in Events
    BY DEF Events
  <2> QED BY <1>2, <2>1, <2>2, TellsIs
<1> QED BY <1>1, <1>2

\* A response that is ended, by a call that invalidates its handle first.
LEMMA EndingKeeps ==
  ASSUME IInv, NEW c \in Sockets, NEW name, MayCall(name), EndsNow(c), UNCHANGED <<stack, closed>>,
         NEW close \in BOOLEAN, NEW w \in Written(c, [sock[c] EXCEPT !.handles = {}, !.last = @ \/ close]),
         NEW given, NEW n \in Nat, sock[c].offset + n \in 0 .. BodySize, NEW total,
         ~sock[c].chunked /\ sock[c].offset + n # total => sock[c].head \/ ~Without(Untimed),
         Effect(c, w, AfterEnd(c, w, given, n, total)), log' = Answered(c, AfterEnd(c, w, given, n, total))
  PROVE  IInv'
<1> DEFINE k == sock[c]
           a == [k EXCEPT !.handles = {}, !.last = @ \/ close]
           u == AfterEnd(c, w, given, n, total)
           all == w.k.chunked \/ w.k.offset + n = total
           done == all \/ given = 0
<1>5. WritesNow(c) /\ (k.inStream # 0 /\ k.body > 0 => "answersEarly" \in Scenarios)
  BY DEF EndsNow
<1>6. /\ k.status = "http" /\ Holds(c) /\ (~k.paused \/ ~Without(Unpolls))
  BY <1>5, Writing
<1>7. /\ k \in Socket /\ k.pending /\ Sound(k, c, Frames(stack), closed, loop, log[c])
  BY <1>6, Held
<1>8. calls' \in 0 .. MaxCalls /\ (stack # <<>> => Top.kind # "read")
  BY Calling
<1>9. loop \in Shared /\ log \in [Sockets -> Seq(Events)]
  BY Pieces
<1>10. sock' = [sock EXCEPT ![c] = u] /\ loop' = w.loop /\ log' = Answered(c, u) /\ Corked(w) = loop'.corked
  BY DEF Effect, Corked
<1>11. Freed(k, a)
  BY <1>7, FreedIs
<1>13. k.offset + n \in 0 .. BodySize /\ (k.chunked \/ k.offset + n = total \/ k.head \/ ~Without(Untimed))
  OBVIOUS
<1>4. w \in Written(c, a)
  OBVIOUS
<1> HIDE DEF a, u
<1>14. a \in Socket
  BY <1>11 DEF Freed
<1>15. w.k \in Sent(a) /\ (w.k.buffered => w.k.poll = Both) /\ Outcome(c, w)
  BY <1>4, <1>9, <1>14, WrittenIs
<1>16. Outgoing(k, w.k) /\ w.k.handles = {}
  <2>1. a.handles = {}
    BY <1>11 DEF Freed
  <2> QED BY <1>7, <1>11, <1>15, <2>1, OutgoingIs
<1>17. w.failed \in BOOLEAN /\ Passes(c, loop, loop')
  BY <1>10, <1>15 DEF Outcome
<1>18. /\ w.k \in Socket /\ w.k.status = "http" /\ w.k.offset = k.offset /\ w.k.head = k.head /\ w.k.chunked = k.chunked
  BY <1>6, <1>16 DEF Outgoing
<1>19. /\ ~done => \E failed : GoesOn(w.k, u, failed)
       /\ done => \/ Completes(w.k, u, all) /\ (Corked(w) = c \/ ~ReadyToClose(u))
                  \/ Finishes(w.k, u)
  BY <1>13, <1>17, <1>18, AfterEndIs DEF u
<1>12. all \/ k.head \/ ~Without(Untimed)
  BY <1>13, <1>18
<1>20. ~done => ~Without(Untimed)
  <2>1. Without(Untimed) => ~k.head
    BY <1>6, <1>7 DEF Sound, Timely
  <2> QED BY <1>12, <2>1
<1> HIDE DEF done, all, k
<1>21. /\ log' \in [Sockets -> Seq(Events)] /\ \A d \in Sockets \ {c} : log'[d] = log[d]
       /\ u.pending => log' = log
       /\ ~u.pending => log'[c] # <<>> /\ log'[c][Len(log'[c])] = "answered"
  BY <1>7, <1>9, <1>10, AnsweredIs DEF k
<1>22. Sound(u, c, Frames(stack), closed, loop', log'[c]) /\ u \in Socket
  <2>1. CASE ~done
    BY <2>1, <1>6, <1>7, <1>16, <1>19, <1>20, <1>21, EndGoesOn
  <2>2. CASE done /\ Completes(w.k, u, all) /\ (Corked(w) = c \/ ~ReadyToClose(u))
    <3>1. ~u.pending /\ u.handles = {}
      BY <2>2, <1>16 DEF Completes
    <3> QED BY <2>2, <3>1, <1>5, <1>6, <1>7, <1>10, <1>12, <1>16, <1>21, EndCompletes DEF k
  <2>3. CASE done /\ Finishes(w.k, u)
    <3>1. u.handles = {}
      BY <2>3, <1>16 DEF Finishes
    <3> QED BY <2>3, <3>1, <1>7, <1>16, EndFinishes
  <2> QED BY <2>1, <2>2, <2>3, <1>19
<1>23. u.status = "http" => sock[c].status = "http"
  BY <1>6 DEF k
<1> QED BY <1>8, <1>10, <1>17, <1>21, <1>22, <1>23, SameStack

\* res.end(body, close).
LEMMA EndKeeps == ASSUME IInv, NEW c \in Sockets, End(c) PROVE IInv'
<1> DEFINE k == sock[c]
           a(close) == [sock[c] EXCEPT !.handles = {}, !.last = @ \/ close]
           given(size) == IF sock[c].head THEN 0 ELSE size
           n(size) == IF sock[c].chunked THEN 0 ELSE given(size)
<1>1. MayCall("end") /\ EndsNow(c) /\ (k.offset > 0 => "endsAfterTryEnd" \in Scenarios) /\ UNCHANGED <<stack, closed>>
  BY DEF End
<1>2. PICK close \in BOOLEAN, size \in {BodySize - k.offset, 0} : \E w \in Written(c, a(close)) :
        /\ Effect(c, w, AfterEnd(c, w, given(size), n(size), size))
        /\ log' = Answered(c, AfterEnd(c, w, given(size), n(size), size))
  BY DEF End
<1>3. PICK w \in Written(c, a(close)) :
        /\ Effect(c, w, AfterEnd(c, w, given(size), n(size), size))
        /\ log' = Answered(c, AfterEnd(c, w, given(size), n(size), size))
  BY <1>2
<1>4. k \in Socket
  BY Pieces
<1>5. k.offset \in 0 .. BodySize /\ BodySize \in Nat /\ k.head \in BOOLEAN /\ k.chunked \in BOOLEAN
  BY <1>4, HttpAssumption, SocketFields
<1>6. n(size) \in Nat /\ k.offset + n(size) \in 0 .. BodySize
  BY <1>2, <1>5
<1>7. ~k.chunked /\ k.offset + n(size) # size => k.head \/ ~Without(Untimed)
  BY <1>1, <1>2, <1>5 DEF Without, Untimed
<1> HIDE DEF n, given
<1> QED BY <1>1, <1>3, <1>6, <1>7, EndingKeeps

\* res.endWithoutBody(total, close).
LEMMA EndWithoutBodyKeeps == ASSUME IInv, NEW c \in Sockets, EndWithoutBody(c) PROVE IInv'
<1> DEFINE k == sock[c]
           a(close) == [sock[c] EXCEPT !.handles = {}, !.last = @ \/ close]
<1>1. MayCall("endWithoutBody") /\ EndsNow(c) /\ UNCHANGED <<stack, closed>>
  BY DEF EndWithoutBody
<1>2. PICK close \in BOOLEAN, total \in {0, BodySize} :
        /\ ~k.chunked /\ k.offset # total => "spoofsLength" \in Scenarios
        /\ \E w \in Written(c, a(close)) :
             Effect(c, w, AfterEnd(c, w, 0, 0, total)) /\ log' = Answered(c, AfterEnd(c, w, 0, 0, total))
  BY DEF EndWithoutBody
<1>3. PICK w \in Written(c, a(close)) :
        Effect(c, w, AfterEnd(c, w, 0, 0, total)) /\ log' = Answered(c, AfterEnd(c, w, 0, 0, total))
  BY <1>2
<1>4. k \in Socket
  BY Pieces
<1>5. k.offset \in 0 .. BodySize /\ BodySize \in Nat
  BY <1>4, HttpAssumption, SocketFields
<1>6. 0 \in Nat /\ k.offset + 0 \in 0 .. BodySize /\ k.offset + 0 = k.offset
  BY <1>5
<1>7. ~k.chunked /\ k.offset + 0 # total => k.head \/ ~Without(Untimed)
  BY <1>2, <1>6 DEF Without, Untimed
<1> QED BY <1>1, <1>3, <1>6, <1>7, EndingKeeps

\* res.tryEnd(part of what is left of the body, BodySize).
LEMMA TryEndKeeps == ASSUME IInv, NEW c \in Sockets, TryEnd(c) PROVE IInv'
<1> DEFINE k == sock[c]
           rest == BodySize - sock[c].offset
           given(size) == IF sock[c].head THEN 0 ELSE size
           o(u) == IF u.pending THEN u ELSE [u EXCEPT !.handles = {}]
<1>1. MayCall("tryEnd") /\ EndsNow(c) /\ UNCHANGED <<stack, closed>>
  BY DEF TryEnd
<1>2. PICK size \in 1 .. rest : \E t \in TryWritten(c, k, size) :
        /\ Effect(c, t.result, o(AfterEnd(c, t.result, given(size), t.written, BodySize)))
        /\ log' = Answered(c, AfterEnd(c, t.result, given(size), t.written, BodySize))
  BY DEF TryEnd
<1>3. PICK t \in TryWritten(c, k, size) :
        /\ Effect(c, t.result, o(AfterEnd(c, t.result, given(size), t.written, BodySize)))
        /\ log' = Answered(c, AfterEnd(c, t.result, given(size), t.written, BodySize))
  BY <1>2
<1> DEFINE w == t.result
           n == t.written
           u == AfterEnd(c, w, given(size), n, BodySize)
           m == o(u)
<1>5. WritesNow(c) /\ (k.inStream # 0 /\ k.body > 0 => "answersEarly" \in Scenarios)
  BY <1>1 DEF EndsNow
<1>6. /\ k.status = "http" /\ Holds(c) /\ (~k.paused \/ ~Without(Unpolls))
  BY <1>5, Writing
<1>7. /\ k \in Socket /\ k.pending /\ Sound(k, c, Frames(stack), closed, loop, log[c])
  BY <1>6, Held
<1>8. calls' \in 0 .. MaxCalls /\ (stack # <<>> => Top.kind # "read")
  BY <1>1, Calling
<1>9. loop \in Shared /\ log \in [Sockets -> Seq(Events)]
  BY Pieces
<1>10. sock' = [sock EXCEPT ![c] = m] /\ loop' = w.loop /\ log' = Answered(c, u) /\ Corked(w) = loop'.corked
  BY <1>3 DEF Effect, Corked
<1>12. k.offset \in 0 .. BodySize /\ BodySize \in Nat
  BY <1>7, HttpAssumption, SocketFields
<1>13. size \in Nat /\ size \in 1 .. rest
  BY <1>2, <1>12
<1>15. w.k \in Sent(k) /\ (w.k.buffered => w.k.poll = Both) /\ Outcome(c, w) /\ n \in 0 .. size
  BY <1>7, <1>9, <1>13, TryWrittenIs
<1>14. n \in Nat /\ k.offset + n \in 0 .. BodySize
  BY <1>12, <1>13, <1>15
<1>16. Outgoing(k, w.k) /\ w.k.handles = k.handles
  BY <1>7, <1>15, OutgoingIs
<1>17. w.failed \in BOOLEAN /\ Passes(c, loop, loop')
  BY <1>10, <1>15 DEF Outcome
<1>18. /\ w.k \in Socket /\ w.k.status = "http" /\ w.k.offset = k.offset /\ w.k.head = k.head /\ w.k.chunked = k.chunked
  BY <1>6, <1>16 DEF Outgoing
<1> DEFINE all == w.k.chunked \/ w.k.offset + n = BodySize
           done == all \/ given(size) = 0
<1>19. /\ ~done => \E failed : GoesOn(w.k, u, failed)
       /\ done => \/ Completes(w.k, u, all) /\ (Corked(w) = c \/ ~ReadyToClose(u))
                  \/ Finishes(w.k, u)
  BY <1>14, <1>17, <1>18, AfterEndIs
<1>20. u \in Socket
  BY <1>19 DEF GoesOn, Completes, Finishes
<1>24. (u.pending => m = u) /\ (~u.pending => m = [u EXCEPT !.handles = {}])
  OBVIOUS
<1>26. done => all \/ k.head
  BY <1>13
<1> HIDE DEF u, done, all, k, m, o, given
<1>21. /\ log' \in [Sockets -> Seq(Events)] /\ \A d \in Sockets \ {c} : log'[d] = log[d]
       /\ u.pending => log' = log
       /\ ~u.pending => log'[c] # <<>> /\ log'[c][Len(log'[c])] = "answered"
  BY <1>7, <1>9, <1>10, AnsweredIs DEF k
<1>25. ~u.pending => Freed(u, m) /\ m.last = u.last /\ m.handles = {}
  <2>1. Freed(u, [u EXCEPT !.handles = {}]) /\ [u EXCEPT !.handles = {}].last = u.last
    BY <1>20, FreedIs
  <2>2. ~u.pending => Freed(u, m) /\ m.last = u.last
    BY ONLY <2>1, <1>24, Zenon
  <2> QED BY <2>2 DEF Freed
<1>22. Sound(m, c, Frames(stack), closed, loop', log'[c]) /\ m \in Socket
  <2>1. CASE ~done
    <3>2. PICK failed : GoesOn(w.k, u, failed)
      BY <2>1, <1>19
    <3>3. k \in Socket /\ Sound(k, c, Frames(stack), closed, loop, log[c]) /\ k.status = "http" /\ k.pending
      BY <1>6, <1>7 DEF k
    <3>4. ~k.paused \/ ~Without(Unpolls)
      BY <1>6 DEF k
    <3>1. Sound(u, c, Frames(stack), closed, loop', log[c]) /\ u.pending
      BY <3>2, <3>3, <3>4, <1>16, EndGoesOn
    <3> QED BY <3>1, <1>20, <1>21, <1>24
  <2>2. CASE done /\ Completes(w.k, u, all) /\ (Corked(w) = c \/ ~ReadyToClose(u))
    <3>1. ~u.pending
      BY <2>2 DEF Completes
    <3> QED BY <2>2, <3>1, <1>5, <1>6, <1>7, <1>10, <1>16, <1>21, <1>25, <1>26, EndCompletes DEF k
  <2>3. CASE done /\ Finishes(w.k, u)
    <3>1. ~u.pending
      BY <2>3 DEF Finishes
    <3> QED BY <2>3, <3>1, <1>7, <1>16, <1>25, EndFinishes DEF k
  <2> QED BY <2>1, <2>2, <2>3, <1>19
<1>23. m.status = "http" => sock[c].status = "http"
  BY <1>6 DEF k
<1> QED BY <1>1, <1>8, <1>10, <1>17, <1>21, <1>22, <1>23, SameStack

-----------------------------------------------------------------------------
(* The ways a connection is closed.                                        *)

\* A response that is closed after its handles are gone.
LEMMA FreedSound ==
  ASSUME NEW k \in Socket, NEW a, Freed(k, a), k.status \in {"http", "websocket"},
         NEW c, NEW F, NEW F2, SameCalls(c, F, F2), NEW cl,
         NEW l, NEW l2, NEW events, NEW events2, Sound(k, c, F, cl, l, events),
         k.status = "http" /\ k.tellsJS => Has(F2, c, "aborted")
  PROVE  Sound(Closed(a), c, F2, cl, l2, events2)
<1> DEFINE m == Closed(a)
<1>1. a \in Socket /\ a.status = k.status /\ a.handles = {} /\ a.request = k.request /\ a.tellsJS = k.tellsJS
      /\ a.onWritable = k.onWritable /\ a.wanted = k.wanted
  BY DEF Freed
<1>2. /\ m.status \in {"closing", "closed"} /\ m.request = a.request
      /\ m.handles = IF a.status = "http" THEN a.handles \ {a.onAborted} ELSE a.handles
      /\ m.status = "closing" =>
           a.status = "http" /\ a.tellsJS /\ m.onWritable = a.onWritable /\ m.wanted = a.wanted
      /\ m.status # "closing" => m.onWritable = 0 /\ m.wanted = 0
  BY <1>1, ClosedIs
<1> HIDE DEF m
<1>3. /\ m.handles = {} /\ m.handles \subseteq k.handles /\ m.request = k.request
      /\ m.status \in {"closing", "websocket", "closed"}
      /\ m.status = "closing" => Has(F2, c, "aborted") /\ m.onWritable = k.onWritable /\ m.wanted = k.wanted
  BY <1>1, <1>2
<1>4. Sound(m, c, F2, cl, l2, events2)
  BY <1>2, <1>3, LeftSound
<1> QED BY <1>4 DEF m

\* What the application is told of a loss.
LEMMA LosingIs ==
  ASSUME log \in [Sockets -> Seq(Events)], NEW c \in Sockets, log' = Losing(c)
  PROVE  log' \in [Sockets -> Seq(Events)] /\ \A d \in Sockets \ {c} : log'[d] = log[d]
<1>1. "aborted" \in Events /\ "dropped" \in Events
  BY DEF Events
<1>2. log' = log \/ log' = [log EXCEPT ![c] = Append(@, "aborted")] \/ log' = [log EXCEPT ![c] = Append(@, "dropped")]
  BY DEF Losing
<1>3. CASE log' = log
  BY <1>3
<1>4. CASE log' = [log EXCEPT ![c] = Append(@, "aborted")]
  BY <1>1, <1>4, TellsIs
<1>5. CASE log' = [log EXCEPT ![c] = Append(@, "dropped")]
  BY <1>1, <1>5, TellsIs
<1> QED BY <1>2, <1>3, <1>4, <1>5

Abort(c) == Frame("aborted", c, "run", 0)

\* The frame of an abort handler.
LEMMA AbortIs ==
  ASSUME NEW c \in Sockets
  PROVE  /\ Abort(c) \in AnyFrame /\ Abort(c).kind = "aborted" /\ Abort(c).socket = c /\ ~Holder(Abort(c))
         /\ Aborting(c) = IF sock[c].status = "http" /\ sock[c].tellsJS THEN <<Abort(c)>> ELSE <<>>
<1>1. 0 \in 0 .. Placeholder
  BY HttpAssumption DEF Placeholder
<1> QED BY <1>1 DEF Abort, Aborting, Frame, AnyFrame, Handlers, Holder

\* A socket is closed, with the frames B left on the stack below its abort handler.
LEMMA Closes ==
  ASSUME IInv, NEW c \in Sockets, sock[c].status \in {"http", "websocket"},
         NEW a, (a = sock[c] /\ (closed \/ ~Has(Frames(stack), c, "request"))) \/ Freed(sock[c], a),
         sock' = [sock EXCEPT ![c] = Closed(a)], loop' = loop, closed' = closed, calls' \in 0 .. MaxCalls,
         log' = Losing(c), stack' \in Seq(AnyFrame), Nested(stack'), Reading',
         NEW B, \A d \in Sockets : SameCalls(d, Frames(stack), B),
         \A f \in B : f \in Frames(stack) \/ (f.kind = "read" /\ f.socket = c),
         \A f \in Frames(stack) : f.kind = "read" => Has(B, f.socket, "read"),
         Frames(stack') = IF sock[c].status = "http" /\ sock[c].tellsJS THEN {Abort(c)} \cup B ELSE B,
         Without({"upgradesOthers"}) /\ loop.corked # NoSocket => Lent(stack', loop.corked)
  PROVE  IInv'
<1> DEFINE k == sock[c]
           m == Closed(a)
<1>1. /\ sock \in [Sockets -> Socket] /\ loop \in Shared /\ closed \in BOOLEAN /\ log \in [Sockets -> Seq(Events)]
      /\ Global /\ Sound(k, c, Frames(stack), closed, loop, log[c])
  BY Pieces
<1>2. k \in Socket
  BY <1>1
<1>3. a \in Socket /\ a.status = k.status
  BY <1>2 DEF Freed
<1>4. m \in Socket /\ m.status \in {"closing", "closed"}
  BY <1>3, ClosedIs
<1>5. Abort(c).kind = "aborted" /\ Abort(c).socket = c
  BY AbortIs
<1> DEFINE G == Frames(stack')
<1> HIDE DEF m, k, G
<1>6. \A d \in Sockets : SameCalls(d, Frames(stack), G)
  BY <1>5 DEF SameCalls, Has, G
<1>7. k.status = "http" /\ k.tellsJS => Has(G, c, "aborted")
  BY <1>5 DEF k, G, Has
<1>8. Sound(m, c, G, closed, loop, log'[c])
  <2>1. CASE a = k /\ (closed \/ ~Has(Frames(stack), c, "request"))
    BY <2>1, <1>1, <1>2, <1>6, <1>7, ClosedSound DEF k, m
  <2>2. CASE Freed(k, a)
    BY <2>2, <1>1, <1>2, <1>6, <1>7, FreedSound DEF k, m
  <2> QED BY <2>1, <2>2 DEF k
<1>9. log' \in [Sockets -> Seq(Events)] /\ \A d \in Sockets \ {c} : log'[d] = log[d]
  BY <1>1, LosingIs
<1>10. Global'
  <2>1. sock'[c] = m /\ \A d : d # c => sock'[d] = sock[d]
    BY <1>1 DEF m
  <2>2. \A f \in Frames(stack') : f \in Frames(stack) \/ (f.socket = c /\ f.kind \in {"aborted", "read"})
    BY <1>5
  <2>3. m.status # "http"
    BY <1>4
  <2>4. \A f \in Frames(stack) : sock'[f.socket].status = "http" => sock[f.socket].status = "http"
    <3> SUFFICES ASSUME NEW f \in Frames(stack), sock'[f.socket].status = "http" PROVE sock[f.socket].status = "http"
      OBVIOUS
    <3>1. CASE f.socket = c
      BY <2>1, <2>3, <3>1
    <3>2. CASE f.socket # c
      BY <2>1, <3>2
    <3> QED BY <3>1, <3>2
  <2>5. \A f \in Frames(stack) : f.kind = "read" => Has(Frames(stack'), f.socket, "read")
    BY DEF Has
  <2>6. \A f \in Frames(stack') : f \in Frames(stack) \/
           /\ f.kind = "appClose" => closed'
           /\ f.kind = "aborted" => sock'[f.socket].status # "http"
           /\ f.kind = "cork" => f.mode \in {"run", "uncork"}
           /\ f.kind = "read" /\ f.mode = "stop" /\ Without({"upgradesOthers"}) => sock'[f.socket].status # "http"
    BY <2>1, <2>2, <2>3
  <2>7. loop.bytes => loop.corked # NoSocket
    BY <1>1 DEF Global
  <2>8. Without({"upgradesOthers"}) /\ loop'.corked # NoSocket => Lent(stack', loop'.corked)
    OBVIOUS
  <2> QED BY <1>1, <2>4, <2>5, <2>6, <2>7, <2>8, GlobalKept
<1>11. \A d \in Sockets \ {c} : /\ SameCalls(d, Frames(stack), Frames(stack')) /\ SameCork(d, loop, loop')
                                /\ log'[d] = log[d]
  BY <1>6, <1>9 DEF SameCork, G
<1>12. Sound(m, c, Frames(stack'), closed', loop', log'[c]) /\ sock' = [sock EXCEPT ![c] = m]
  BY <1>8 DEF G, m
<1> QED BY <1>1, <1>4, <1>9, <1>10, <1>11, <1>12, Changes

\* An abort handler on top of what there is, or none.
LEMMA AbortingIs ==
  ASSUME NEW c \in Sockets, NEW st \in Seq(AnyFrame), Nested(st), st # <<>> => Head(st).kind # "read"
  PROVE  LET r == Aborting(c) \o st
         IN  /\ r \in Seq(AnyFrame) /\ Nested(r) /\ (r # <<>> => Head(r).kind # "read")
             /\ Frames(r) = IF sock[c].status = "http" /\ sock[c].tellsJS THEN {Abort(c)} \cup Frames(st) ELSE Frames(st)
             /\ \A d : Lent(st, d) => Lent(r, d)
<1>1. /\ Abort(c) \in AnyFrame /\ Abort(c).kind = "aborted" /\ Abort(c).socket = c /\ ~Holder(Abort(c))
      /\ Aborting(c) = IF sock[c].status = "http" /\ sock[c].tellsJS THEN <<Abort(c)>> ELSE <<>>
  BY AbortIs
<1>2. CASE sock[c].status = "http" /\ sock[c].tellsJS
  <2> DEFINE r == <<Abort(c)>> \o st
  <2>1. r \in Seq(AnyFrame) /\ Frames(r) = {Abort(c)} \cup Frames(st) /\ Head(r) = Abort(c)
    BY <1>1, PushFrames
  <2>2. Nested(r)
    BY <1>1, PushNested
  <2>3. \A d : Lent(st, d) => Lent(r, d)
    BY <1>1, LentPush
  <2>4. Aborting(c) \o st = r
    BY <1>1, <1>2
  <2> HIDE DEF r
  <2> QED BY <1>1, <1>2, <2>1, <2>2, <2>3, <2>4
<1>3. CASE ~(sock[c].status = "http" /\ sock[c].tellsJS)
  <2>1. <<>> \o st = st
    OBVIOUS
  <2>2. Aborting(c) \o st = st
    BY <1>1, <1>3, <2>1
  <2> QED BY <1>3, <2>2
<1> QED BY <1>2, <1>3

\* A socket is closed by a handler, or between events.
LEMMA ClosesHere ==
  ASSUME IInv, NEW c \in Sockets, sock[c].status \in {"http", "websocket"},
         NEW a, (a = sock[c] /\ (closed \/ ~Has(Frames(stack), c, "request"))) \/ Freed(sock[c], a),
         sock' = [sock EXCEPT ![c] = Closed(a)], loop' = loop, closed' = closed, calls' \in 0 .. MaxCalls,
         log' = Losing(c), stack' = Aborting(c) \o stack, stack # <<>> => Top.kind # "read"
  PROVE  IInv'
<1>1. stack \in Seq(AnyFrame) /\ Nested(stack) /\ Global
  BY Pieces
<1>2. /\ stack' \in Seq(AnyFrame) /\ Nested(stack') /\ (stack' # <<>> => Head(stack').kind # "read")
      /\ Frames(stack') = IF sock[c].status = "http" /\ sock[c].tellsJS THEN {Abort(c)} \cup Frames(stack) ELSE Frames(stack)
      /\ \A d : Lent(stack, d) => Lent(stack', d)
  BY <1>1, AbortingIs DEF Top
<1>3. Reading'
  BY <1>2 DEF Reading, Top
<1>4. \A d \in Sockets : SameCalls(d, Frames(stack), Frames(stack))
  BY SameFrames
<1>5. \A f \in Frames(stack) : f.kind = "read" => Has(Frames(stack), f.socket, "read")
  BY DEF Has
<1>6. Without({"upgradesOthers"}) /\ loop.corked # NoSocket => Lent(stack', loop.corked)
  BY <1>1, <1>2 DEF Global, Lending
<1>7. \A f \in Frames(stack) : f \in Frames(stack) \/ (f.kind = "read" /\ f.socket = c)
  OBVIOUS
<1> QED BY <1>2, <1>3, <1>4, <1>5, <1>6, <1>7, Closes

\* res.close().
LEMMA CloseKeeps == ASSUME IInv, NEW c \in Sockets, Close(c) PROVE IInv'
<1> DEFINE a == [sock[c] EXCEPT !.handles = {}]
<1>1. /\ MayCall("close") /\ Holds(c) /\ sock[c].status = "http" /\ UNCHANGED <<loop, closed>>
      /\ stack' = Aborting(c) \o stack /\ log' = Losing(c)
  BY DEF Close
<1>2. sock' = [sock EXCEPT ![c] = Closed(a)]
  BY DEF Close
<1>3. sock[c] \in Socket
  BY Pieces
<1>4. Freed(sock[c], a)
  BY <1>3, FreedIs
<1>5. calls' \in 0 .. MaxCalls /\ (stack # <<>> => Top.kind # "read")
  BY <1>1, Calling
<1> HIDE DEF a
<1> QED BY <1>1, <1>2, <1>4, <1>5, ClosesHere

\* The connection is lost, between events.
LEMMA LostKeeps == ASSUME IInv, NEW c \in Sockets, Lost(c) PROVE IInv'
<1>1. /\ stack = <<>> /\ sock[c].status \in {"http", "websocket"} /\ log' = Losing(c)
      /\ stack' = Aborting(c) /\ UNCHANGED <<loop, calls, closed>>
  BY DEF Lost
<1>2. sock' = [sock EXCEPT ![c] = Closed(sock[c])]
  BY DEF Lost
<1>3. stack' = Aborting(c) \o stack
  BY <1>1, AbortIs, FewFrames
<1>4. ~Has(Frames(stack), c, "request")
  BY <1>1, FewFrames DEF Has
<1>5. calls' \in 0 .. MaxCalls
  BY <1>1, Pieces
<1> QED BY <1>1, <1>2, <1>3, <1>4, <1>5, ClosesHere

\* app.close() closes a socket.
LEMMA AppCloseStepKeeps == ASSUME IInv, NEW c \in Sockets, AppCloseStep(c) PROVE IInv'
<1>1. /\ AtTop("appClose", NoSocket) /\ sock[c].status \in {"http", "websocket"} /\ log' = Losing(c)
      /\ stack' = Aborting(c) \o stack /\ UNCHANGED <<loop, calls, closed>>
  BY DEF AppCloseStep
<1>2. sock' = [sock EXCEPT ![c] = Closed(sock[c])]
  BY DEF AppCloseStep
<1>3. stack # <<>> /\ Top.kind = "appClose"
  BY <1>1 DEF AtTop
<1>4. stack \in Seq(AnyFrame) /\ Closing
  BY Pieces
<1>5. Top \in Frames(stack)
  BY <1>3, <1>4, PopFrames DEF Top
<1>6. closed
  BY <1>3, <1>4, <1>5 DEF Closing
<1>7. calls' \in 0 .. MaxCalls
  BY <1>1, Pieces
<1> QED BY <1>1, <1>2, <1>3, <1>6, <1>7, ClosesHere

-----------------------------------------------------------------------------
(* Handlers that are called and return, but for the parser's.              *)

\* A frame is pushed by a handler of the application, or between events.
LEMMA Pushes ==
  ASSUME IInv, NEW f \in AnyFrame, f.kind \in {"cork", "open", "appClose"}, f.kind # "appClose" => f.socket \in Sockets,
         stack' = <<f>> \o stack, stack # <<>> => Top.kind # "read"
  PROVE  /\ stack' \in Seq(AnyFrame) /\ Nested(stack') /\ Reading'
         /\ Frames(stack') = {f} \cup Frames(stack)
         /\ \A d : SameCalls(d, Frames(stack), Frames(stack'))
         /\ \A g \in Frames(stack) : g.kind = "read" => Has(Frames(stack'), g.socket, "read")
         /\ ~Holder(f) => \A d : Lent(stack, d) => Lent(stack', d)
         /\ Holder(f) => Lent(stack', f.socket)
<1>1. stack \in Seq(AnyFrame) /\ Nested(stack)
  BY Pieces
<1>2. /\ stack' \in Seq(AnyFrame) /\ stack' # <<>> /\ Head(stack') = f
      /\ Frames(stack') = {f} \cup Frames(stack)
  BY <1>1, PushFrames
<1>3. Nested(stack')
  BY <1>1, PushNested DEF Top
<1>4. Reading'
  BY <1>2 DEF Reading, Top
<1>5. \A d : SameCalls(d, Frames(stack), Frames(stack'))
  <2> DEFINE F == Frames(stack)
             F2 == Frames(stack')
  <2>1. F2 = {f} \cup F /\ f.kind \notin {"request", "data", "writable"}
    BY <1>2
  <2> HIDE DEF F, F2
  <2>2. \A d : SameCalls(d, F, {f} \cup F)
    BY <2>1, SameFrames
  <2> QED BY <2>1, <2>2 DEF F, F2
<1>6. \A g \in Frames(stack) : g.kind = "read" => Has(Frames(stack'), g.socket, "read")
  BY <1>2 DEF Has
<1>7. ~Holder(f) => \A d : Lent(stack, d) => Lent(stack', d)
  BY <1>1, LentPush
<1>8. Holder(f) => Lent(stack', f.socket)
  <2> DEFINE r == stack'
  <2>1. r \in Seq(AnyFrame) /\ r # <<>> /\ Head(r) = f
    BY <1>2
  <2> HIDE DEF r
  <2>2. Holder(f) => Lent(r, f.socket)
    BY <2>1, LentTop
  <2> QED BY <2>2 DEF r
<1> QED BY <1>2, <1>3, <1>4, <1>5, <1>6, <1>7, <1>8

\* A handler returns to another, or to the loop.
LEMMA Pops ==
  ASSUME IInv, stack # <<>>, Top.kind \notin {"read", "request", "data"}, stack' = Below
  PROVE  /\ stack' \in Seq(AnyFrame) /\ Nested(stack') /\ Reading' /\ Top \in AnyFrame
         /\ Frames(stack) = {Top} \cup Frames(stack')
         /\ \A d : Top.socket # d \/ Top.kind \notin {"writable", "aborted"} =>
              SameCalls(d, Frames(stack), Frames(stack'))
         /\ \A g \in Frames(stack) : g.kind = "read" => Has(Frames(stack'), g.socket, "read")
         /\ \A d : Lent(stack, d) => Lent(stack', d) \/ (Holder(Top) /\ Top.socket = d)
<1>1. stack \in Seq(AnyFrame) /\ Nested(stack)
  BY Pieces
<1>2. Top \in AnyFrame /\ stack' \in Seq(AnyFrame) /\ Frames(stack) = {Top} \cup Frames(stack')
  BY <1>1, PopFrames DEF Top, Below
<1>3. Nested(stack')
  BY <1>1, PopNested DEF Below
<1>4. stack' # <<>> /\ Head(stack').kind = "read" => Head(stack').mode = "stop"
  BY <1>1, Bottom DEF Top, Below
<1>5. Reading'
  BY <1>4 DEF Reading, Top
<1>6. \A d : Top.socket # d \/ Top.kind \notin {"writable", "aborted"} =>
              SameCalls(d, Frames(stack), Frames(stack'))
  <2> DEFINE F2 == Frames(stack')
             f == Top
  <2>1. Frames(stack) = {f} \cup F2 /\ f.kind \notin {"request", "data"}
    BY <1>2
  <2> HIDE DEF F2, f
  <2>2. \A d : f.socket # d \/ f.kind \notin {"writable", "aborted"} => SameCalls(d, {f} \cup F2, F2)
    BY <2>1, SameFrames
  <2> QED BY <2>1, <2>2 DEF F2, f
<1>7. \A g \in Frames(stack) : g.kind = "read" => Has(Frames(stack'), g.socket, "read")
  BY <1>2 DEF Has
<1>8. \A d : Lent(stack, d) => Lent(stack', d) \/ (Holder(Top) /\ Top.socket = d)
  BY <1>1, LentTop DEF Top, Below
<1> QED BY <1>2, <1>3, <1>5, <1>6, <1>7, <1>8

\* app.close() begins.
LEMMA AppCloseKeeps == ASSUME IInv, AppClose PROVE IInv'
<1> DEFINE f == Frame("appClose", NoSocket, "run", 0)
<1>1. /\ MayCall("appClose") /\ closed' = TRUE /\ UNCHANGED <<sock, loop, log>> /\ stack' = <<f>> \o stack
  BY DEF AppClose
<1>2. calls' \in 0 .. MaxCalls /\ (stack # <<>> => Top.kind # "read")
  BY <1>1, Calling
<1>3. f \in AnyFrame /\ f.kind = "appClose" /\ ~Holder(f)
  <2>1. 0 \in 0 .. Placeholder
    BY HttpAssumption DEF Placeholder
  <2> QED BY <2>1 DEF Frame, AnyFrame, Holder
<1> HIDE DEF f
<1>4. /\ stack' \in Seq(AnyFrame) /\ Nested(stack') /\ Reading'
      /\ Frames(stack') = {f} \cup Frames(stack)
      /\ \A d : SameCalls(d, Frames(stack), Frames(stack'))
      /\ \A g \in Frames(stack) : g.kind = "read" => Has(Frames(stack'), g.socket, "read")
      /\ \A d : Lent(stack, d) => Lent(stack', d)
  BY <1>1, <1>2, <1>3, Pushes
<1>5. Global /\ loop \in Shared
  BY Pieces
<1>6. Global'
  <2>1. loop.bytes => loop.corked # NoSocket
    BY <1>5 DEF Global
  <2>2. Without({"upgradesOthers"}) /\ loop'.corked # NoSocket => Lent(stack', loop'.corked)
    BY <1>1, <1>4, <1>5 DEF Global, Lending
  <2> QED BY <1>1, <1>3, <1>4, <1>5, <2>1, <2>2, GlobalKept
<1>7. \A d \in Sockets : SameCork(d, loop, loop')
  BY <1>1 DEF SameCork
<1> QED BY <1>1, <1>2, <1>4, <1>5, <1>6, <1>7, Rests

\* A handler returns and that is all.
LEMMA ReturnsOnly ==
  ASSUME IInv, stack # <<>>, Top.kind \in {"cork", "open", "appClose"}, stack' = Below,
         UNCHANGED <<sock, loop, calls, closed, log>>, ~Holder(Top) \/ loop.corked = NoSocket
  PROVE  IInv'
<1>1. /\ stack' \in Seq(AnyFrame) /\ Nested(stack') /\ Reading'
      /\ Frames(stack) = {Top} \cup Frames(stack')
      /\ \A d : SameCalls(d, Frames(stack), Frames(stack'))
      /\ \A g \in Frames(stack) : g.kind = "read" => Has(Frames(stack'), g.socket, "read")
      /\ \A d : Lent(stack, d) => Lent(stack', d) \/ (Holder(Top) /\ Top.socket = d)
  BY Pops
<1>2. Global /\ loop \in Shared /\ calls \in 0 .. MaxCalls /\ closed \in BOOLEAN
  BY Pieces
<1>3. Global'
  <2>1. loop.bytes => loop.corked # NoSocket
    BY <1>2 DEF Global
  <2>2. Without({"upgradesOthers"}) /\ loop'.corked # NoSocket => Lent(stack', loop'.corked)
    BY <1>1, <1>2 DEF Global, Lending
  <2> QED BY <1>1, <1>2, <2>1, <2>2, GlobalKept
<1>4. \A d \in Sockets : SameCork(d, loop, loop')
  BY DEF SameCork
<1> QED BY <1>1, <1>2, <1>3, <1>4, Rests

\* app.close() has closed all sockets.
LEMMA AppCloseReturnKeeps == ASSUME IInv, AppCloseReturn PROVE IInv'
<1>1. /\ AtTop("appClose", NoSocket) /\ stack' = Below /\ UNCHANGED <<sock, loop, calls, closed, log>>
  BY DEF AppCloseReturn
<1>2. stack # <<>> /\ Top.kind = "appClose"
  BY <1>1 DEF AtTop
<1> QED BY <1>1, <1>2, ReturnsOnly DEF Holder

\* The open handler of an upgraded socket returns.
LEMMA OpenReturnKeeps == ASSUME IInv, NEW c \in Sockets, OpenReturn(c) PROVE IInv'
<1>1. /\ AtTop("open", c) /\ stack' = Below /\ UNCHANGED <<sock, loop, calls, closed, log>>
  BY DEF OpenReturn
<1>2. stack # <<>> /\ Top.kind = "open"
  BY <1>1 DEF AtTop
<1> QED BY <1>1, <1>2, ReturnsOnly DEF Holder

\* res.cork(handler): the cork buffer is taken if nobody has it.
LEMMA CorkKeeps == ASSUME IInv, NEW c \in Sockets, Cork(c) PROVE IInv'
<1> DEFINE takes == loop.corked = NoSocket
           f == Frame("cork", c, IF takes THEN "uncork" ELSE "run", 0)
<1>1. /\ MayCall("cork") /\ Holds(c) /\ sock[c].status = "http" /\ UNCHANGED <<sock, closed, log>>
      /\ loop' = (IF takes THEN [loop EXCEPT !.corked = c] ELSE loop) /\ stack' = <<f>> \o stack
  BY DEF Cork
<1>2. calls' \in 0 .. MaxCalls /\ (stack # <<>> => Top.kind # "read")
  BY <1>1, Calling
<1>3. f \in AnyFrame /\ f.kind = "cork" /\ f.socket = c /\ (Holder(f) <=> takes) /\ f.mode \in {"run", "uncork"}
  <2>1. 0 \in 0 .. Placeholder
    BY HttpAssumption DEF Placeholder
  <2> QED BY <2>1 DEF Frame, AnyFrame, Holder, Handlers
<1> HIDE DEF f
<1>4. /\ stack' \in Seq(AnyFrame) /\ Nested(stack') /\ Reading'
      /\ Frames(stack') = {f} \cup Frames(stack)
      /\ \A d : SameCalls(d, Frames(stack), Frames(stack'))
      /\ \A g \in Frames(stack) : g.kind = "read" => Has(Frames(stack'), g.socket, "read")
      /\ ~Holder(f) => \A d : Lent(stack, d) => Lent(stack', d)
      /\ Holder(f) => Lent(stack', f.socket)
  BY <1>1, <1>2, <1>3, Pushes
<1>5. Global /\ loop \in Shared /\ closed \in BOOLEAN /\ sock \in [Sockets -> Socket] /\ log \in [Sockets -> Seq(Events)]
      /\ Sound(sock[c], c, Frames(stack), closed, loop, log[c])
  BY Pieces
<1>6. c # NoSocket
  BY HttpAssumption
<1>7. /\ loop' \in Shared /\ loop'.bytes = loop.bytes /\ loop'.parsing = loop.parsing /\ loop'.upgraded = loop.upgraded
      /\ loop'.corked = IF takes THEN c ELSE loop.corked
  BY <1>1, <1>5 DEF Shared
<1>8. loop.bytes => loop.corked # NoSocket
  BY <1>5 DEF Global
<1>9. Global'
  <2>1. loop'.bytes => loop'.corked # NoSocket
    BY <1>6, <1>7, <1>8
  <2>2. Without({"upgradesOthers"}) /\ loop'.corked # NoSocket => Lent(stack', loop'.corked)
    BY <1>3, <1>4, <1>5, <1>7 DEF Global, Lending
  <2> QED BY <1>1, <1>3, <1>4, <1>5, <1>7, <2>1, <2>2, GlobalKept
<1>10. \A d \in Sockets : SameCalls(d, Frames(stack), Frames(stack')) /\ SameCork(d, loop, loop')
  <2>1. \A d \in Sockets \ {c} : SameCork(d, loop, loop')
    BY <1>6, <1>7, HttpAssumption DEF SameCork
  <2>2. SameCork(c, loop, loop')
    BY <1>6, <1>7, <1>8 DEF SameCork
  <2> QED BY <1>4, <2>1, <2>2
<1> QED BY <1>1, <1>2, <1>4, <1>5, <1>7, <1>9, <1>10, Rests

\* The parser is told of the upgrade, if one is running.
LEMMA ToldParser ==
  ASSUME loop \in Shared, NEW c \in Sockets, NEW w, Outcome(c, w)
  PROVE  LET l == [w EXCEPT !.loop.upgraded = IF TellsParser THEN c ELSE @].loop
         IN  /\ l \in Shared /\ l.corked = w.loop.corked /\ l.bytes = w.loop.bytes /\ l.parsing = loop.parsing
             /\ l.upgraded = IF loop.parsing THEN c ELSE loop.upgraded
<1> DEFINE s == w.loop
           e == IF TellsParser THEN c ELSE s.upgraded
           l == [w EXCEPT !.loop.upgraded = IF TellsParser THEN c ELSE @].loop
<1>1. s \in Shared /\ s.parsing = loop.parsing /\ s.upgraded = loop.upgraded /\ "loop" \in DOMAIN w
  BY DEF Outcome, Passes
<1>2. l = [s EXCEPT !.upgraded = e]
  BY <1>1
<1>3. e \in Sockets \cup {NoSocket} /\ e = IF loop.parsing THEN c ELSE loop.upgraded
  BY <1>1 DEF TellsParser, Shared
<1> HIDE DEF s, e, l
<1>4. /\ l \in Shared /\ l.corked = s.corked /\ l.bytes = s.bytes /\ l.parsing = s.parsing /\ l.upgraded = e
  BY <1>1, <1>2, <1>3 DEF Shared
<1> QED BY <1>1, <1>3, <1>4 DEF s, l

\* res.upgrade(...).
LEMMA UpgradeKeeps == ASSUME IInv, NEW c \in Sockets, Upgrade(c) PROVE IInv'
<1> DEFINE k == sock[c]
           a == [sock[c] EXCEPT !.handles = {}]
           f == Frame("open", c, "run", 0)
           l(w) == [w EXCEPT !.loop.upgraded = IF TellsParser THEN c ELSE @].loop
           e(w) == [log EXCEPT ![c] = IF w.loop.corked # c /\ ReadyToClose(MarkDone(w.k))
                                    THEN @ \o <<"answered", "upgraded">> ELSE Append(@, "upgraded")]
<1>1. /\ MayCall("upgrade") /\ EndsNow(c) /\ closed' = closed /\ stack' = <<f>> \o stack
      /\ \A i \in DOMAIN stack : stack[i].kind \in {"read", "request", "cork"} /\ (stack[i].socket = c \/ "upgradesOthers" \in Scenarios)
  BY DEF Upgrade
<1>2. \E w \in Written(c, a) : sock' = [sock EXCEPT ![c] = Adopted(MarkDone(w.k))] /\ loop' = l(w) /\ log' = e(w)
  BY DEF Upgrade, Effect
<1>3. PICK w \in Written(c, a) : sock' = [sock EXCEPT ![c] = Adopted(MarkDone(w.k))] /\ loop' = l(w) /\ log' = e(w)
  BY <1>2
<1>4. k.status = "http" /\ Holds(c)
  BY <1>1, Writing DEF EndsNow
<1>5. k \in Socket /\ Sound(k, c, Frames(stack), closed, loop, log[c])
  BY <1>4, Held
<1>6. calls' \in 0 .. MaxCalls /\ (stack # <<>> => Top.kind # "read")
  BY <1>1, Calling
<1>7. loop \in Shared /\ log \in [Sockets -> Seq(Events)] /\ closed \in BOOLEAN /\ Global /\ sock \in [Sockets -> Socket]
  BY Pieces
<1>8. a \in Socket /\ a.request = k.request /\ a.handles = {}
  BY <1>5, FreedIs DEF Freed
<1>9. w.k \in Sent(a) /\ Outcome(c, w)
  BY <1>7, <1>8, WrittenIs
<1>10. w.k \in Socket /\ w.k.request = k.request /\ w.k.handles = {}
  BY <1>8, <1>9, SentIs DEF Alike
<1>11. MarkDone(w.k) \in Socket /\ MarkDone(w.k).request = k.request /\ MarkDone(w.k).handles = {}
  BY <1>10, MarkDoneIs
<1> DEFINE m == Adopted(MarkDone(w.k))
<1>12. m \in Socket /\ m.status = "websocket" /\ m.request = k.request /\ m.handles = {} /\ m.onWritable = 0 /\ m.wanted = 0
  BY <1>11, AdoptedIs
<1>13. /\ loop' \in Shared /\ loop'.corked = w.loop.corked /\ loop'.bytes = w.loop.bytes /\ loop'.parsing = loop.parsing
       /\ loop'.upgraded = IF loop.parsing THEN c ELSE loop.upgraded
  BY <1>3, <1>7, <1>9, ToldParser
<1>14. log' \in [Sockets -> Seq(Events)] /\ \A d \in Sockets \ {c} : log'[d] = log[d]
  <2> DEFINE q == IF w.loop.corked # c /\ ReadyToClose(MarkDone(w.k))
                  THEN log[c] \o <<"answered", "upgraded">> ELSE Append(log[c], "upgraded")
  <2>1. log[c] \in Seq(Events) /\ "answered" \in Events /\ "upgraded" \in Events
    BY <1>7 DEF Events
  <2>2. <<"answered", "upgraded">> \in Seq(Events)
    BY <2>1
  <2>3. log[c] \o <<"answered", "upgraded">> \in Seq(Events) /\ Append(log[c], "upgraded") \in Seq(Events)
    BY <2>1, <2>2
  <2>4. q \in Seq(Events)
    BY <2>3
  <2>5. log' = [log EXCEPT ![c] = q]
    BY <1>3
  <2> HIDE DEF q
  <2> QED BY <1>7, <2>4, <2>5
<1>15. f \in AnyFrame /\ f.kind = "open" /\ f.socket = c /\ ~Holder(f)
  <2>1. 0 \in 0 .. Placeholder
    BY HttpAssumption DEF Placeholder
  <2> QED BY <2>1 DEF Frame, AnyFrame, Holder, Handlers
<1>16. sock' = [sock EXCEPT ![c] = m]
  BY <1>3
<1> HIDE DEF f, m, k, l, e, a
<1>17. /\ stack' \in Seq(AnyFrame) /\ Nested(stack') /\ Reading'
       /\ Frames(stack') = {f} \cup Frames(stack)
       /\ \A d : SameCalls(d, Frames(stack), Frames(stack'))
       /\ \A g \in Frames(stack) : g.kind = "read" => Has(Frames(stack'), g.socket, "read")
       /\ \A d : Lent(stack, d) => Lent(stack', d)
  BY <1>1, <1>6, <1>15, Pushes
<1>18. Sound(m, c, Frames(stack'), closed', loop', log'[c])
  <2>1. m.handles \subseteq k.handles /\ m.status \in {"closing", "websocket", "closed"} /\ m.status # "closing"
    BY <1>12
  <2> QED BY <1>1, <1>5, <1>12, <1>17, <2>1, LeftSound
<1>19. Passes(c, loop, w.loop)
  BY <1>9 DEF Outcome
<1>20. \A d \in Sockets \ {c} : SameCork(d, loop, loop')
  <2>1. \A d \in Sockets \ {c} : SameCork(d, loop, w.loop)
    BY <1>19, PassesOthers
  <2> QED BY <1>13, <2>1 DEF SameCork
<1>21. Global'
  <2>1. loop'.bytes => loop'.corked # NoSocket
    <3>1. loop.bytes => loop.corked # NoSocket
      BY <1>7 DEF Global
    <3> QED BY <1>13, <1>19, <3>1, PassesOthers
  <2>2. Without({"upgradesOthers"}) /\ loop'.corked # NoSocket => Lent(stack', loop'.corked)
    BY <1>7, <1>13, <1>17, <1>19 DEF Global, Lending, Passes
  <2>3. sock'[c] = m /\ \A d \in Sockets : d # c => sock'[d] = sock[d]
    BY <1>7, <1>16
  <2>4. \A g \in Frames(stack) : sock'[g.socket].status = "http" => sock[g.socket].status = "http"
    <3> SUFFICES ASSUME NEW g \in Frames(stack), sock'[g.socket].status = "http" PROVE sock[g.socket].status = "http"
      OBVIOUS
    <3>1. CASE g.socket = c
      BY <1>12, <2>3, <3>1
    <3>2. CASE g.socket # c
      BY <1>7, <1>16, <3>2
    <3> QED BY <3>1, <3>2
  <2>5. loop'.upgraded = loop.upgraded \/
          (Without({"upgradesOthers"}) => Has(Frames(stack'), loop'.upgraded, "read") /\ sock'[loop'.upgraded].status # "http")
    <3>1. ASSUME loop.parsing, Without({"upgradesOthers"}) PROVE Has(Frames(stack'), c, "read")
      <4>1. PICK g \in Frames(stack) : g.kind = "read"
        BY <1>7, <3>1 DEF Global
      <4>2. g.socket = c
        BY <1>1, <3>1 DEF Frames, Without
      <4> QED BY <1>17, <4>1, <4>2
    <3> QED BY <1>12, <1>13, <2>3, <3>1
  <2> QED BY <1>1, <1>7, <1>13, <1>15, <1>17, <2>1, <2>2, <2>4, <2>5, GlobalKept
<1> QED BY <1>1, <1>6, <1>7, <1>12, <1>13, <1>14, <1>16, <1>17, <1>18, <1>20, <1>21, Changes

\* One socket changes as a handler returns.
LEMMA PopChanges ==
  ASSUME IInv, NEW x \in Sockets, NEW m \in Socket, sock' = [sock EXCEPT ![x] = m],
         m.status = "http" => sock[x].status = "http",
         stack # <<>>, Top.kind \notin {"read", "request", "data"}, stack' = Below,
         Top.kind \in {"writable", "aborted"} => Top.socket = x,
         Passes(x, loop, loop'), UNCHANGED <<calls, closed, log>>,
         Without({"upgradesOthers"}) /\ loop'.corked # NoSocket => ~(Holder(Top) /\ Top.socket = loop'.corked),
         Sound(m, x, Frames(stack'), closed, loop', log[x])
  PROVE  IInv'
<1>1. /\ stack' \in Seq(AnyFrame) /\ Nested(stack') /\ Reading'
      /\ Frames(stack) = {Top} \cup Frames(stack')
      /\ \A d : Top.socket # d \/ Top.kind \notin {"writable", "aborted"} => SameCalls(d, Frames(stack), Frames(stack'))
      /\ \A g \in Frames(stack) : g.kind = "read" => Has(Frames(stack'), g.socket, "read")
      /\ \A d : Lent(stack, d) => Lent(stack', d) \/ (Holder(Top) /\ Top.socket = d)
  BY Pops
<1>2. /\ Global /\ loop \in Shared /\ calls \in 0 .. MaxCalls /\ closed \in BOOLEAN
      /\ sock \in [Sockets -> Socket] /\ log \in [Sockets -> Seq(Events)]
  BY Pieces
<1>3. /\ \A d \in Sockets \ {x} : SameCork(d, loop, loop')
      /\ loop'.bytes => loop'.corked # NoSocket
  BY <1>2, PassesOthers DEF Global
<1>4. Global'
  <2>1. \A f \in Frames(stack) : sock'[f.socket].status = "http" => sock[f.socket].status = "http"
    <3> SUFFICES ASSUME NEW f \in Frames(stack), sock'[f.socket].status = "http" PROVE sock[f.socket].status = "http"
      OBVIOUS
    <3>1. CASE f.socket = x
      BY <1>2, <3>1
    <3>2. CASE f.socket # x
      BY <1>2, <3>2
    <3> QED BY <3>1, <3>2
  <2>2. loop'.parsing = loop.parsing /\ loop'.upgraded = loop.upgraded
    BY DEF Passes
  <2>3. Without({"upgradesOthers"}) /\ loop'.corked # NoSocket => Lent(stack', loop'.corked)
    <3>1. loop'.corked # NoSocket => loop'.corked = loop.corked
      BY DEF Passes
    <3> QED BY <1>1, <1>2, <3>1 DEF Global, Lending
  <2> QED BY <1>1, <1>2, <1>3, <2>1, <2>2, <2>3, GlobalKept
<1>5. \A d \in Sockets \ {x} : SameCalls(d, Frames(stack), Frames(stack'))
  BY <1>1
<1>6. loop' \in Shared
  BY DEF Passes
<1> QED BY <1>1, <1>2, <1>3, <1>4, <1>5, <1>6, Changes

\* The abort handler of the application returns; the socket was closed before.
LEMMA AbortedReturnKeeps == ASSUME IInv, NEW c \in Sockets, AbortedReturn(c) PROVE IInv'
<1> DEFINE k == sock[c]
           m == Destroyed(sock[c])
<1>1. AtTop("aborted", c) /\ sock' = [sock EXCEPT ![c] = m] /\ stack' = Below /\ UNCHANGED <<loop, calls, closed, log>>
  BY DEF AbortedReturn
<1>2. stack # <<>> /\ Top.kind = "aborted" /\ Top.socket = c
  BY <1>1 DEF AtTop
<1>3. /\ sock \in [Sockets -> Socket] /\ loop \in Shared /\ stack \in Seq(AnyFrame)
      /\ Ending /\ Kept(k, c, Frames(stack), closed) /\ Sound(k, c, Frames(stack), closed, loop, log[c])
  BY Pieces
<1>4. Frames(stack) = {Top} \cup Frames(stack')
  BY <1>1, <1>2, Pops
<1>5. k.status # "http"
  BY <1>2, <1>3, <1>4 DEF Ending
<1>6. /\ m \in Socket /\ m.status = "closed" /\ m.request = k.request /\ m.handles = k.handles /\ m.onWritable = 0
      /\ m.wanted = 0
  BY <1>3, DestroyedIs
<1>7. Has(Frames(stack), c, "request") => Has(Frames(stack'), c, "request")
  BY <1>2, <1>4 DEF Has
<1> HIDE DEF k, m
<1>8. 0 # Placeholder
  BY HttpAssumption DEF Placeholder
<1>9. Kept(m, c, Frames(stack'), closed)
  BY <1>3, <1>5, <1>6, <1>7, <1>8 DEF Kept
<1>10. Fed(k, c, Frames(stack)) => Fed(m, c, Frames(stack'))
  BY <1>4, <1>5, <1>6 DEF Fed
<1>11. Sound(m, c, Frames(stack'), closed, loop', log[c])
  BY <1>1, <1>3, <1>6, <1>9, <1>10 DEF Sound, Timely, Polls, Told, Ends
<1>12. Passes(c, loop, loop')
  BY <1>1, <1>3 DEF Passes
<1>13. ~Holder(Top)
  BY <1>2 DEF Holder
<1> QED BY <1>1, <1>2, <1>6, <1>11, <1>12, <1>13, PopChanges

\* The response k goes on as m, but for its timer, its poll and its onWritable.
Resumes(k, m) ==
  /\ m \in Socket /\ m.status = k.status /\ m.saved = k.saved /\ m.paused = k.paused /\ m.timer = k.timer
  /\ m.request = k.request /\ m.body = k.body /\ m.pending = k.pending /\ m.last = k.last /\ m.head = k.head
  /\ m.wanted = k.wanted /\ m.onAborted = k.onAborted /\ m.tellsJS = k.tellsJS
  /\ m.inStream = k.inStream /\ m.handles = k.handles /\ m.buffered = k.buffered

\* The borrowed handler is put back, and nothing polled for without need.
LEMMA PutBackIs ==
  ASSUME NEW k \in Socket, NEW h \in 0 .. Placeholder, NEW failed \in BOOLEAN
  PROVE  LET m == Unpolled(PutBack(k, h), failed)
         IN  /\ Resumes(k, m) /\ m.onWritable = IF k.onWritable = Placeholder THEN h ELSE k.onWritable
             /\ m.poll \in {k.poll, k.poll \ {"write"}} /\ (failed => m.poll = k.poll)
<1> DEFINE p == PutBack(k, h)
           m == Unpolled(p, failed)
<1>1. Resumes(k, p) /\ p.onWritable = (IF k.onWritable = Placeholder THEN h ELSE k.onWritable) /\ p.poll = k.poll
  <2>1. CASE k.onWritable = Placeholder
    <3>1. p = [k EXCEPT !.onWritable = h]
      BY <2>1 DEF PutBack
    <3> HIDE DEF p
    <3> QED BY <2>1, <3>1 DEF Socket, Resumes
  <2>2. CASE k.onWritable # Placeholder
    <3>1. p = k
      BY <2>2 DEF PutBack
    <3> HIDE DEF p
    <3> QED BY <2>2, <3>1 DEF Resumes
  <2> QED BY <2>1, <2>2
<1> HIDE DEF p
<1>2. CASE failed
  <2>1. m = p
    BY ONLY <1>2, Zenon DEF Unpolled, m
  <2> HIDE DEF m
  <2>2. m.poll = k.poll
    BY <1>1, <2>1
  <2> QED BY <1>1, <2>1, <2>2 DEF m, p
<1>3. CASE ~failed
  <2>1. m = [p EXCEPT !.poll = @ \ {"write"}]
    BY <1>3 DEF Unpolled
  <2>2. p \in Socket
    BY <1>1 DEF Resumes
  <2> HIDE DEF m
  <2>3. Resumes(p, m) /\ m.onWritable = p.onWritable /\ m.poll = p.poll \ {"write"}
    BY <2>1, <2>2 DEF Socket, Resumes
  <2>4. Resumes(k, m)
    BY <1>1, <2>3 DEF Resumes
  <2>5. m.onWritable = p.onWritable /\ m.poll = k.poll \ {"write"}
    BY <1>1, <2>3
  <2> QED BY <1>1, <1>3, <2>4, <2>5 DEF m, p
<1> QED BY <1>2, <1>3 DEF p

\* The onWritable handler returns to the loop.
LEMMA WritableReturnKeeps == ASSUME IInv, NEW c \in Sockets, WritableReturn(c) PROVE IInv'
<1> DEFINE k == sock[c]
           h == Top.handler
           m == IF k.status = "http" THEN Unpolled(PutBack(k, h), loop.failed) ELSE k
<1>1. /\ AtTop("writable", c) /\ sock' = [sock EXCEPT ![c] = m] /\ stack' = Below /\ UNCHANGED <<loop, calls, closed, log>>
      /\ k.buffered /\ ~loop.failed => "skipsWriting" \in Scenarios
  BY DEF WritableReturn
<1>2. stack # <<>> /\ Top.kind = "writable" /\ Top.socket = c
  BY <1>1 DEF AtTop
<1>3. /\ sock \in [Sockets -> Socket] /\ loop \in Shared /\ stack \in Seq(AnyFrame) /\ Nested(stack)
      /\ Kept(k, c, Frames(stack), closed) /\ Sound(k, c, Frames(stack), closed, loop, log[c])
  BY Pieces
<1>4. Frames(stack') = {} /\ Frames(stack) = {Top} /\ Top \in AnyFrame
  <2>1. Below = <<>> /\ Top \in AnyFrame
    BY <1>2, <1>3, Bottom, PopFrames DEF Top, Below
  <2>2. Frames(stack) = {Top} \cup Frames(stack')
    BY <1>1, <1>2, Pops
  <2> QED BY <1>1, <2>1, <2>2, FewFrames
<1>5. h \in 0 .. Placeholder \cup 1 .. MaxRequests /\ loop.failed \in BOOLEAN /\ k \in Socket
  BY <1>3, <1>4 DEF AnyFrame, Shared
<1>6. 0 # Placeholder /\ \A n \in 0 .. MaxCalls : n # Placeholder /\ n \in 0 .. Placeholder
  BY HttpAssumption DEF Placeholder
<1>7. k.wanted \in 0 .. MaxCalls
  BY <1>5, SocketFields
<1>8. k.onWritable = Placeholder => h = k.wanted
  BY <1>2, <1>3, <1>4 DEF Kept
<1>9. ~Has(Frames(stack), c, "request") /\ ~Has(Frames(stack), c, "aborted")
  BY <1>2, <1>4 DEF Has
<1> HIDE DEF h
<1>11. Passes(c, loop, loop') /\ ~Holder(Top)
  BY <1>1, <1>2, <1>3 DEF Passes, Holder
<1>12. CASE k.status # "http"
  <2>1. m = k
    BY <1>12
  <2> HIDE DEF k, m
  <2>2. Kept(k, c, {}, closed)
    <3>1. k.status \in {"websocket", "closed"}
      BY <1>3, <1>5, <1>9, <1>12, SocketFields DEF Kept
    <3> QED BY <1>3, <1>6, <1>9, <1>12, <3>1 DEF Kept
  <2>3. Sound(k, c, {}, closed, loop', log[c])
    BY <1>1, <1>3, <1>12, <2>2 DEF Sound, Fed, Timely, Polls, Told, Ends
  <2> QED BY <1>1, <1>2, <1>4, <1>5, <1>11, <2>1, <2>3, PopChanges DEF k
<1>13. CASE k.status = "http"
  <2>1. m = Unpolled(PutBack(k, h), loop.failed)
    BY <1>13
  <2>2. m = Unpolled(PutBack(k, IF k.onWritable = Placeholder THEN h ELSE 0), loop.failed)
    BY <2>1 DEF PutBack
  <2> DEFINE g == IF k.onWritable = Placeholder THEN h ELSE 0
  <2>3. g \in 0 .. Placeholder /\ (k.onWritable = Placeholder => g = k.wanted)
    <3>1. 0 \in 0 .. Placeholder
      BY HttpAssumption DEF Placeholder
    <3> QED BY <1>6, <1>7, <1>8, <3>1
  <2> HIDE DEF k, m, g
  <2>4. /\ Resumes(k, m) /\ m.onWritable = IF k.onWritable = Placeholder THEN g ELSE k.onWritable
        /\ m.poll \in {k.poll, k.poll \ {"write"}} /\ (loop.failed => m.poll = k.poll)
    BY <1>5, <2>2, <2>3, PutBackIs DEF g
  <2>5. m.onWritable = m.wanted /\ m.wanted # Placeholder /\ m.wanted = k.wanted
        /\ (k.onWritable # Placeholder => m.onWritable = k.onWritable)
    BY <1>3, <1>6, <1>7, <2>3, <2>4 DEF Resumes, Kept
  <2>6. Kept(m, c, {}, closed)
    BY <1>3, <1>9, <1>13, <2>4, <2>5 DEF Kept, Resumes
  <2>7. Fed(k, c, Frames(stack)) => Fed(m, c, {})
    BY <1>2, <1>4, <1>13, <2>4 DEF Fed, Resumes
  <2>8. Timely(k) => Timely(m)
    BY <1>6, <2>4, <2>5 DEF Timely, Resumes
  <2>9. Without(Unpolls) /\ Polls(k, c, loop) => Polls(m, c, loop)
    <3>1. Without(Unpolls) => ~(k.buffered /\ ~loop.failed)
      BY <1>1 DEF Without, Unpolls, k
    <3> QED BY <2>4, <3>1 DEF Polls, Resumes
  <2>10. (Told(k, log[c]) => Told(m, log[c])) /\ (Ends(k, c, loop) => Ends(m, c, loop))
    BY <2>4 DEF Told, Ends, ReadyToClose, Resumes
  <2>11. Sound(m, c, {}, closed, loop', log[c])
    BY <1>1, <1>3, <2>6, <2>7, <2>8, <2>9, <2>10 DEF Sound
  <2>12. m \in Socket /\ sock' = [sock EXCEPT ![c] = m] /\ sock[c].status = "http"
    BY <1>1, <1>13, <2>4 DEF Resumes, m, k
  <2> QED BY <1>1, <1>2, <1>4, <1>11, <2>11, <2>12, PopChanges
<1> QED BY <1>12, <1>13

\* A socket that goes on as m, which differs in its timer, its poll and what is buffered.
Settles(k, m) ==
  /\ m \in Socket /\ m.status = k.status /\ m.saved = k.saved /\ m.paused = k.paused
  /\ m.request = k.request /\ m.body = k.body /\ m.pending = k.pending /\ m.last = k.last /\ m.head = k.head
  /\ m.onWritable = k.onWritable /\ m.wanted = k.wanted /\ m.onAborted = k.onAborted /\ m.tellsJS = k.tellsJS
  /\ m.inStream = k.inStream /\ m.handles = k.handles /\ (k.timer => m.timer)

\* Such a socket, and its connection closed if it is done with.
LEMMA SettlesSound ==
  ASSUME NEW k \in Socket, NEW m, Settles(k, m), NEW c, NEW F, NEW F2, SameCalls(c, F, F2), NEW cl,
         NEW l, NEW l2, NEW events, Sound(k, c, F, cl, l, events),
         Without(Unpolls) /\ Polls(k, c, l) => Polls(m, c, l2)
  PROVE  /\ (Without({"upgradesOthers"}) => Ends(m, c, l2)) => Sound(m, c, F2, cl, l2, events)
         /\ k.status = "http" => ClosedIfDone(m) \in Socket /\ Sound(ClosedIfDone(m), c, F2, cl, l2, events)
<1>1. Kept(m, c, F2, cl)
  <2>1. Kept(k, c, F2, cl)
    BY OthersKept DEF Sound
  <2> QED BY <2>1 DEF Kept, Settles
<1>2. Fed(k, c, F) => Fed(m, c, F2)
  <2>1. Fed(k, c, F) => Fed(k, c, F2)
    BY OthersFed
  <2> QED BY <2>1 DEF Fed, Settles
<1>3. Timely(k) => Timely(m)
  BY DEF Timely, Settles
<1>4. Told(k, events) => Told(m, events)
  BY DEF Told, Settles
<1>5. ASSUME Without({"upgradesOthers"}) => Ends(m, c, l2) PROVE Sound(m, c, F2, cl, l2, events)
  BY <1>1, <1>2, <1>3, <1>4, <1>5 DEF Sound
<1>6. ASSUME k.status = "http" PROVE ClosedIfDone(m) \in Socket /\ Sound(ClosedIfDone(m), c, F2, cl, l2, events)
  <2>1. CASE ReadyToClose(m)
    <3>1. /\ m \in Socket /\ m.status = "http" /\ ~m.pending /\ m.request = k.request /\ m.handles = k.handles
      BY <1>6, <2>1 DEF ReadyToClose, Settles
    <3>2. m.onAborted = 0 /\ ~m.tellsJS /\ m.handles = {}
      BY <1>1, <3>1 DEF Kept
    <3>3. ClosedIfDone(m) = Closed(m) /\ Finishes(m, Closed(m))
      BY <2>1, <3>1, <3>2, FinishedIs
    <3> DEFINE q == ClosedIfDone(m)
    <3>4. q \in Socket /\ q.status = "closed" /\ q.request = k.request /\ q.handles = {} /\ q.onWritable = 0 /\ q.wanted = 0
      BY <3>1, <3>2, <3>3 DEF Finishes
    <3> HIDE DEF q
    <3>5. q.handles \subseteq k.handles /\ q.status \in {"closing", "websocket", "closed"} /\ q.status # "closing"
      BY <3>4
    <3>6. Sound(q, c, F2, cl, l2, events)
      BY <3>4, <3>5, LeftSound
    <3> QED BY <3>4, <3>6 DEF q
  <2>2. CASE ~ReadyToClose(m)
    <3>1. Ends(m, c, l2)
      BY <2>2 DEF Ends
    <3>2. ClosedIfDone(m) = m
      BY <2>2 DEF ClosedIfDone
    <3> QED BY <1>5, <3>1, <3>2 DEF Settles
  <2> QED BY <2>1, <2>2
<1> QED BY <1>5, <1>6

\* The socket x is uncorked, its timeout armed if that failed.
LEMMA UncorkSettles ==
  ASSUME loop \in Shared, NEW x \in Sockets, NEW k \in Socket, NEW w \in Uncorked(x, k),
         NEW m, m = w.k \/ m = Armed(w), NEW l2, l2.corked = Corked(w)
  PROVE  Settles(k, m) /\ (Polls(k, x, loop) => Polls(m, x, l2))
<1>1. /\ w.k \in Sent(k) /\ Outcome(x, w) /\ Corked(w) # x
      /\ loop.corked # x => w.k = k
      /\ w.k.buffered => w.k = k \/ (w.k.poll = Both /\ (loop.bytes \/ k.buffered))
      /\ w.k.status = "http" /\ w.k.buffered /\ loop.corked = x => w.k.poll = Both
  BY UncorkedIs
<1>2. w.k \in Socket /\ Alike(k, w.k)
  BY <1>1, SentIs
<1>3. GoesOn(w.k, Armed(w), w.failed)
  BY <1>1, <1>2, ArmedIs DEF Outcome
<1>4. Settles(k, m) /\ m.poll = w.k.poll /\ m.buffered = w.k.buffered
  <2>1. CASE m = w.k
    BY <1>2, <2>1 DEF Settles, Alike
  <2>2. CASE m = Armed(w)
    BY <1>2, <1>3, <2>2 DEF Settles, Alike, GoesOn
  <2> QED BY <2>1, <2>2
<1>5. ASSUME Polls(k, x, loop), m.status = "http" PROVE Polls(m, x, l2)
  <2>1. k.status = "http" /\ w.k.status = "http"
    BY <1>2, <1>4, <1>5 DEF Settles, Alike
  <2>2. m.buffered => "write" \in m.poll \/ (m.paused /\ m.poll = {})
    BY <1>1, <1>4, <1>5, <2>1 DEF Polls, Settles, Both
  <2>3. m.buffered /\ m.paused => "write" \in m.saved
    <3>1. k.buffered /\ k.paused => "write" \in k.saved
      BY <1>5, <2>1 DEF Polls
    <3>2. k.paused /\ loop.corked = x => ~loop.bytes
      BY <1>5, <2>1 DEF Polls
    <3>3. w.k.buffered => w.k = k \/ (loop.corked = x /\ (loop.bytes \/ k.buffered))
      BY <1>1
    <3> QED BY <1>4, <3>1, <3>2, <3>3 DEF Settles
  <2>4. l2.corked # x
    BY <1>1
  <2> QED BY <2>2, <2>3, <2>4 DEF Polls
<1>6. m.status # "http" => Polls(m, x, l2)
  BY DEF Polls
<1> QED BY <1>4, <1>5, <1>6

\* The end of cork(): whoever holds the cork buffer by then is uncorked.
LEMMA CorkReturnKeeps == ASSUME IInv, NEW c \in Sockets, CorkReturn(c) PROVE IInv'
<1> DEFINE x == loop.corked
           k == sock[x]
           m(w) == IF x = c /\ sock[c].status = "http" THEN ClosedIfDone(Armed(w)) ELSE w.k
<1>1. /\ AtTop("cork", c) /\ stack' = Below /\ UNCHANGED <<calls, closed, log>>
      /\ \/ (Top.mode = "run" \/ x = NoSocket) /\ UNCHANGED <<sock, loop>>
         \/ /\ ~(Top.mode = "run" \/ x = NoSocket)
            /\ \E w \in Uncorked(x, k) : sock' = [sock EXCEPT ![x] = m(w)] /\ loop' = w.loop
  BY DEF CorkReturn
<1>2. stack # <<>> /\ Top.kind = "cork" /\ Top.socket = c
  BY <1>1 DEF AtTop
<1>3. CASE (Top.mode = "run" \/ x = NoSocket) /\ UNCHANGED <<sock, loop>>
  BY <1>1, <1>2, <1>3, ReturnsOnly DEF Holder
<1>4. CASE /\ ~(Top.mode = "run" \/ x = NoSocket)
           /\ \E w \in Uncorked(x, k) : sock' = [sock EXCEPT ![x] = m(w)] /\ loop' = w.loop
  <2>1. PICK w \in Uncorked(x, k) : sock' = [sock EXCEPT ![x] = m(w)] /\ loop' = w.loop
    BY <1>4
  <2>2. loop \in Shared /\ Global /\ stack \in Seq(AnyFrame)
    BY Pieces
  <2>3. x \in Sockets
    BY <1>4, <2>2 DEF Shared
  <2>4. k \in Socket /\ Sound(k, x, Frames(stack), closed, loop, log[x])
    BY <2>3, Pieces
  <2>5. Frames(stack) = {Top} \cup Frames(stack') /\ SameCalls(x, Frames(stack), Frames(stack'))
    BY <1>1, <1>2, Pops
  <2>6. Without({"upgradesOthers"}) => x = c
    <3>1. Without({"upgradesOthers"}) => Lent(stack, x)
      BY <1>4, <2>2 DEF Global, Lending
    <3>2. Holder(Head(stack)) => (Lent(stack, x) <=> Head(stack).socket = x)
      BY <1>2, <2>2, LentTop
    <3>3. Top.mode \in {"run", "uncork"}
      <4>1. Top \in Frames(stack) /\ Corking
        BY <1>2, <2>2, Pieces, PopFrames DEF Top
      <4> QED BY <1>2, <4>1 DEF Corking
    <3> QED BY <1>2, <1>4, <3>1, <3>2, <3>3 DEF Top, Holder
  <2> DEFINE l2 == loop'
  <2>7. l2.corked = Corked(w)
    BY <2>1 DEF Corked
  <2>8. Outcome(x, w) /\ Corked(w) # x
    BY <2>2, <2>3, <2>4, UncorkedIs
  <2>9. Passes(x, loop, loop') /\ loop'.corked = NoSocket
    BY <2>1, <2>8 DEF Outcome, Passes, Corked
  <2> HIDE DEF l2, k
  <2>10. CASE x = c /\ sock[c].status = "http"
    <3>1. Settles(k, Armed(w)) /\ (Polls(k, x, loop) => Polls(Armed(w), x, l2))
      BY <2>2, <2>3, <2>4, <2>7, UncorkSettles
    <3>2. k.status = "http" /\ m(w) = ClosedIfDone(Armed(w))
      BY <2>10 DEF k
    <3>3. ClosedIfDone(Armed(w)) \in Socket
      BY <2>4, <2>5, <3>1, <3>2, SettlesSound
    <3>4. Sound(ClosedIfDone(Armed(w)), x, Frames(stack'), closed, l2, log[x])
      BY <2>4, <2>5, <3>1, <3>2, SettlesSound
    <3> QED BY <1>1, <1>2, <2>1, <2>3, <2>7, <2>8, <2>9, <2>10, <3>2, <3>3, <3>4, PopChanges DEF l2
  <2>11. CASE ~(x = c /\ sock[c].status = "http")
    <3>1. Settles(k, w.k) /\ (Polls(k, x, loop) => Polls(w.k, x, l2))
      BY <2>2, <2>3, <2>4, <2>7, UncorkSettles
    <3>2. m(w) = w.k /\ w.k.status = k.status /\ w.k \in Socket
      BY <2>11, <3>1 DEF Settles
    <3>3. Without({"upgradesOthers"}) => Ends(w.k, x, l2)
      BY <2>6, <2>11, <3>2 DEF Ends, k
    <3>4. Sound(w.k, x, Frames(stack'), closed, l2, log[x])
      BY <2>4, <2>5, <3>1, <3>3, SettlesSound
    <3> QED BY <1>1, <1>2, <2>1, <2>3, <2>7, <2>8, <2>9, <3>2, <3>4, PopChanges DEF l2, k
  <2> QED BY <2>10, <2>11
<1> QED BY <1>1, <1>3, <1>4

-----------------------------------------------------------------------------
(* What the loop does on its own.                                          *)

\* on_writable drains what is buffered.
LEMMA DrainKeeps == ASSUME IInv, NEW c \in Sockets, Drain(c) PROVE IInv'
<1> DEFINE k == sock[c]
           a(stuck) == [k EXCEPT !.buffered = stuck]
           m(stuck) == IF ClosedIfDone(a(stuck)).status = "http"
                       THEN Unpolled([ClosedIfDone(a(stuck)) EXCEPT !.timer = TRUE], stuck)
                       ELSE ClosedIfDone(a(stuck))
<1>1. /\ stack = <<>> /\ k.status = "http" /\ UNCHANGED <<stack, calls, closed, log>>
      /\ \E stuck \in {FALSE, k.buffered} : sock' = [sock EXCEPT ![c] = m(stuck)] /\ loop' = [loop EXCEPT !.failed = stuck]
  BY DEF Drain
<1>2. PICK stuck \in {FALSE, k.buffered} : sock' = [sock EXCEPT ![c] = m(stuck)] /\ loop' = [loop EXCEPT !.failed = stuck]
  BY <1>1
<1>3. /\ loop \in Shared /\ calls \in 0 .. MaxCalls /\ log \in [Sockets -> Seq(Events)]
      /\ k \in Socket /\ Sound(k, c, Frames(stack), closed, loop, log[c])
  BY Pieces
<1>4. stuck \in BOOLEAN /\ (stuck => k.buffered)
  BY <1>3, SocketFields
<1>5. Passes(c, loop, loop') /\ loop'.corked = loop.corked /\ loop'.bytes = loop.bytes
  BY <1>2, <1>3, <1>4 DEF Passes, Shared
<1> DEFINE b == a(stuck)
<1> HIDE DEF k
<1>6. Settles(k, b) /\ b.poll = k.poll /\ b.buffered = stuck
  BY <1>3, <1>4 DEF Settles, Socket
<1>7. SameCalls(c, Frames(stack), Frames(stack))
  BY SameFrames
<1> HIDE DEF b
<1>8. Polls(k, c, loop) => Polls(b, c, loop')
  BY <1>4, <1>5, <1>6 DEF Polls, Settles
<1>9. ClosedIfDone(b) \in Socket
  BY <1>1, <1>3, <1>6, <1>7, <1>8, SettlesSound DEF k
<1>10. Sound(ClosedIfDone(b), c, Frames(stack), closed, loop', log[c])
  BY <1>1, <1>3, <1>6, <1>7, <1>8, SettlesSound DEF k
<1> DEFINE q == m(stuck)
<1>11. q \in Socket /\ Sound(q, c, Frames(stack), closed, loop', log[c])
  <2>1. CASE ClosedIfDone(b).status # "http"
    BY <1>9, <1>10, <2>1 DEF b
  <2>2. CASE ClosedIfDone(b).status = "http"
    <3>1. ~ReadyToClose(b) /\ ClosedIfDone(b) = b
      <4>1. ASSUME ReadyToClose(b) PROVE FALSE
        <5>1. b \in Socket /\ b.status = "http" /\ ~b.pending /\ b.onAborted = k.onAborted /\ b.tellsJS = k.tellsJS
          BY <1>1, <1>6, <4>1 DEF ReadyToClose, Settles, k
        <5>2. Kept(k, c, Frames(stack), closed) /\ ~k.pending /\ k.status = "http"
          BY <1>1, <1>3, <1>6, <5>1 DEF Sound, Settles, k
        <5>3. b.onAborted = 0 /\ ~b.tellsJS
          BY <5>1, <5>2 DEF Kept
        <5>4. Finishes(b, ClosedIfDone(b))
          BY <4>1, <5>1, <5>3, FinishedIs
        <5> QED BY <2>2, <5>4 DEF Finishes
      <4> QED BY <4>1 DEF ClosedIfDone
    <3> DEFINE d == [b EXCEPT !.timer = TRUE]
    <3>2. q = Unpolled(d, stuck)
      BY <2>2, <3>1 DEF b
    <3>3. b \in Socket
      BY <1>6 DEF Settles
    <3>4. Settles(b, d) /\ d.poll = b.poll /\ d.buffered = b.buffered
      BY <3>3 DEF Settles, Socket
    <3> HIDE DEF q, d
    <3>5. Settles(d, q) /\ q.buffered = d.buffered /\ (stuck => q.poll = d.poll)
      <4>1. CASE stuck
        <5>1. q = d
          BY ONLY <3>2, <4>1, Zenon DEF Unpolled
        <5> QED BY <3>4, <5>1 DEF Settles
      <4>2. CASE ~stuck
        <5>1. q = [d EXCEPT !.poll = @ \ {"write"}]
          BY <3>2, <4>2 DEF Unpolled
        <5>2. d \in Socket
          BY <3>4 DEF Settles
        <5>3. Settles(d, q) /\ q.buffered = d.buffered
          BY <5>1, <5>2 DEF Settles, Socket
        <5> QED BY <4>2, <5>3
      <4> QED BY <4>1, <4>2
    <3>6. Settles(k, q)
      BY <1>6, <3>4, <3>5 DEF Settles
    <3>7. q.buffered = stuck
      BY <1>6, <3>4, <3>5
    <3>8. Polls(k, c, loop) => Polls(q, c, loop')
      BY <1>4, <1>5, <1>6, <3>4, <3>5, <3>6, <3>7 DEF Polls, Settles
    <3>9. q.last = b.last /\ q.pending = b.pending /\ q.buffered = b.buffered
      BY <1>6, <3>6, <3>7 DEF Settles
    <3>10. Ends(q, c, loop')
      BY <3>1, <3>9 DEF Ends, ReadyToClose
    <3>11. Sound(q, c, Frames(stack), closed, loop', log[c])
      BY <1>3, <1>7, <3>6, <3>8, <3>10, SettlesSound
    <3>12. q \in Socket
      BY <3>6 DEF Settles
    <3> QED BY <3>11, <3>12 DEF q
  <2> QED BY <2>1, <2>2
<1> HIDE DEF q
<1>12. sock' = [sock EXCEPT ![c] = q] /\ sock[c].status = "http"
  BY <1>1, <1>2 DEF q, k
<1> QED BY <1>1, <1>3, <1>5, <1>11, <1>12, SameStack

\* The onWritable handler is borrowed and called.
LEMMA WritableKeeps == ASSUME IInv, NEW c \in Sockets, Writable(c) PROVE IInv'
<1> DEFINE k == sock[c]
           m == [k EXCEPT !.timer = FALSE, !.onWritable = Placeholder]
           f == Frame("writable", c, "run", k.onWritable)
<1>1. /\ stack = <<>> /\ k.status = "http" /\ k.onWritable # 0 /\ UNCHANGED <<calls, closed, log>>
      /\ sock' = [sock EXCEPT ![c] = m] /\ loop' = [loop EXCEPT !.failed = FALSE] /\ stack' = <<f>>
  <2>1. sock \in [Sockets -> Socket]
    BY Pieces
  <2> QED BY <2>1 DEF Writable
<1>2. /\ loop \in Shared /\ calls \in 0 .. MaxCalls /\ closed \in BOOLEAN /\ log \in [Sockets -> Seq(Events)] /\ Global
      /\ sock \in [Sockets -> Socket] /\ k \in Socket /\ Sound(k, c, Frames(stack), closed, loop, log[c])
  BY Pieces
<1>3. Passes(c, loop, loop') /\ loop'.corked = loop.corked /\ loop'.bytes = loop.bytes
  BY <1>1, <1>2 DEF Passes, Shared
<1>4. k.onWritable \in 0 .. Placeholder /\ Placeholder \in 0 .. Placeholder
  BY <1>2, SocketFields, HttpAssumption DEF Placeholder
<1>5. f \in AnyFrame /\ f.kind = "writable" /\ f.socket = c /\ f.handler = k.onWritable
  BY <1>4 DEF Frame, AnyFrame, Handlers
<1> HIDE DEF f
<1>6. stack' \in Seq(AnyFrame) /\ Frames(stack') = {f} /\ Frames(stack) = {} /\ Head(stack') = f /\ Nested(stack')
  <2>1. Nested(<<f>>)
    BY <1>5, BaseNested
  <2> QED BY <1>1, <1>5, <2>1, FewFrames
<1> HIDE DEF k
<1>7. /\ m \in Socket /\ m.status = k.status /\ m.saved = k.saved /\ m.paused = k.paused /\ m.poll = k.poll
      /\ m.request = k.request /\ m.body = k.body /\ m.pending = k.pending /\ m.last = k.last /\ m.head = k.head
      /\ m.wanted = k.wanted /\ m.onAborted = k.onAborted /\ m.tellsJS = k.tellsJS
      /\ m.inStream = k.inStream /\ m.handles = k.handles /\ m.buffered = k.buffered /\ m.onWritable = Placeholder
  BY <1>2, <1>4 DEF Socket
<1> HIDE DEF m
<1>8. Kept(k, c, {}, closed)
  BY <1>2, <1>6 DEF Sound
<1>9. k.onWritable = k.wanted
  BY <1>8 DEF Kept, Has
<1>10. Kept(m, c, {f}, closed)
  <2>1. Has({f}, c, "writable") /\ \A g \in {f} : g.handler = k.wanted
    BY <1>5, <1>9 DEF Has
  <2>2. ~Has({}, c, "request") /\ k.status = "http" /\ m.status = "http"
    BY <1>1, <1>7 DEF Has, k
  <2> QED BY <1>7, <1>8, <2>1, <2>2 DEF Kept
<1>11. Fed(k, c, {}) => Fed(m, c, {f})
  BY <1>5, <1>7 DEF Fed
<1>12. Timely(k) => Timely(m)
  BY <1>1, <1>7 DEF Timely, k
<1>13. (Polls(k, c, loop) => Polls(m, c, loop')) /\ (Told(k, log[c]) => Told(m, log[c])) /\ (Ends(k, c, loop) => Ends(m, c, loop'))
  BY <1>3, <1>7 DEF Polls, Told, Ends, ReadyToClose
<1>14. Sound(m, c, {f}, closed, loop', log[c])
  BY <1>2, <1>6, <1>10, <1>11, <1>12, <1>13 DEF Sound
<1>15. /\ \A d \in Sockets \ {c} : SameCork(d, loop, loop')
       /\ loop'.bytes => loop'.corked # NoSocket
  BY <1>2, <1>3, PassesOthers DEF Global
<1>16. Global'
  <2>1. Reading'
    BY <1>5, <1>6 DEF Reading, Top
  <2>2. loop'.corked # NoSocket /\ Without({"upgradesOthers"}) => FALSE
    BY <1>1, <1>2, <1>3, LentNever DEF Global, Lending
  <2>3. loop'.parsing = loop.parsing /\ loop'.upgraded = loop.upgraded
    BY <1>3 DEF Passes
  <2> QED BY <1>1, <1>2, <1>5, <1>6, <1>15, <2>1, <2>2, <2>3, GlobalKept
<1>17. \A d \in Sockets \ {c} : SameCalls(d, Frames(stack), Frames(stack'))
  BY <1>5, <1>6 DEF SameCalls, Has
<1>18. loop' \in Shared /\ m \in Socket
  BY <1>3, <1>7 DEF Passes
<1> QED BY <1>1, <1>2, <1>6, <1>14, <1>15, <1>16, <1>17, <1>18, Changes

\* on_data corks the socket and enters the parser.
LEMMA ReadBeginKeeps == ASSUME IInv, NEW c \in Sockets, ReadBegin(c) PROVE IInv'
<1> DEFINE f == Frame("read", c, "parse", 0)
<1>1. /\ stack = <<>> /\ sock[c].status = "http" /\ ~(loop.bytes /\ loop.corked # c)
      /\ loop' = [loop EXCEPT !.corked = c, !.parsing = TRUE] /\ stack' = <<f>> /\ UNCHANGED <<sock, calls, closed, log>>
  BY DEF ReadBegin
<1>2. /\ loop \in Shared /\ calls \in 0 .. MaxCalls /\ closed \in BOOLEAN /\ Global
  BY Pieces
<1>3. f \in AnyFrame /\ f.kind = "read" /\ f.socket = c /\ f.mode = "parse" /\ Holder(f)
  <2>1. 0 \in 0 .. Placeholder
    BY HttpAssumption DEF Placeholder
  <2> QED BY <2>1 DEF Frame, AnyFrame, Holder
<1> HIDE DEF f
<1>4. stack' \in Seq(AnyFrame) /\ stack' # <<>> /\ Frames(stack') = {f} /\ Frames(stack) = {} /\ Head(stack') = f /\ Nested(stack')
  <2>1. Nested(<<f>>)
    BY <1>3, BaseNested
  <2> QED BY <1>1, <1>3, <2>1, FewFrames
<1>5. c # NoSocket
  BY HttpAssumption
<1>6. /\ loop' \in Shared /\ loop'.corked = c /\ loop'.parsing /\ loop'.bytes = loop.bytes /\ loop'.upgraded = loop.upgraded
  BY <1>1, <1>2 DEF Shared
<1>7. Without({"upgradesOthers"}) => loop.corked = NoSocket /\ loop.upgraded = NoSocket
  <2>1. ~Lent(stack, loop.corked) /\ ~Has(Frames(stack), loop.upgraded, "read")
    BY <1>1, <1>4, LentNever DEF Has
  <2> QED BY <1>2, <2>1 DEF Global, Lending
<1>8. Lent(stack', c)
  <2> DEFINE r == stack'
  <2>1. r \in Seq(AnyFrame) /\ r # <<>> /\ Head(r) = f
    BY <1>4
  <2> HIDE DEF r
  <2>2. Lent(r, c)
    BY <1>3, <2>1, LentTop
  <2> QED BY <2>2 DEF r
<1>9. Global'
  <2>1. Reading' /\ Closing' /\ Ending' /\ Corking'
    BY <1>1, <1>3, <1>4 DEF Reading, Closing, Ending, Corking, Top
  <2>2. Without({"upgradesOthers"}) => Lending'
    BY <1>3, <1>4, <1>6, <1>7, <1>8 DEF Lending
  <2>3. loop'.bytes => loop'.corked # NoSocket
    BY <1>5, <1>6
  <2>4. loop'.parsing => \E g \in Frames(stack') : g.kind = "read"
    BY <1>3, <1>4
  <2>5. Without({"upgradesOthers"})' <=> Without({"upgradesOthers"})
    BY DEF Without
  <2> QED BY <1>4, <2>1, <2>2, <2>3, <2>4, <2>5 DEF Global
<1>10. \A d \in Sockets : SameCalls(d, Frames(stack), Frames(stack')) /\ SameCork(d, loop, loop')
  <2>1. \A d \in Sockets : SameCalls(d, Frames(stack), Frames(stack'))
    BY <1>3, <1>4 DEF SameCalls, Has
  <2>2. \A d \in Sockets : SameCork(d, loop, loop')
    BY <1>1, <1>6, <1>7, HttpAssumption DEF SameCork
  <2> QED BY <2>1, <2>2
<1> QED BY <1>1, <1>2, <1>4, <1>6, <1>9, <1>10, Rests

-----------------------------------------------------------------------------
(* The parser and its handlers.                                            *)

\* The frame of the parser of the socket c.
ReadFrame(g, c, mode) == g \in AnyFrame /\ g.kind = "read" /\ g.socket = c /\ g.mode = mode

\* The parser is alone on the stack.
LEMMA AloneIs ==
  ASSUME IInv, NEW c \in Sockets, AtTop("read", c)
  PROVE  /\ stack # <<>> /\ Top \in AnyFrame /\ Top.kind = "read" /\ Top.socket = c /\ Below = <<>> /\ stack = <<Top>>
         /\ Frames(stack) = {Top}
         /\ Top.mode # "stop" => sock[c].status = "http"
         /\ Without({"upgradesOthers"}) /\ loop.corked # NoSocket => loop.corked = c
         /\ Without({"upgradesOthers"}) /\ loop.upgraded # NoSocket => loop.upgraded = c
         /\ Without({"upgradesOthers"}) /\ Top.mode = "stop" => sock[c].status # "http"
<1>1. stack \in Seq(AnyFrame) /\ Nested(stack) /\ Reading /\ Global
  BY Pieces
<1>2. stack # <<>> /\ Top.kind = "read" /\ Top.socket = c
  BY DEF AtTop
<1>3. Top \in AnyFrame /\ Below = <<>> /\ stack = <<Top>>
  BY <1>1, <1>2, Bottom, PopFrames DEF Top, Below
<1>4. Frames(stack) = {Top}
  <2> DEFINE f == Top
  <2>1. stack = <<f>> /\ f \in AnyFrame
    BY <1>3
  <2> HIDE DEF f
  <2>2. Frames(stack) = {f}
    BY <2>1, FewFrames
  <2> QED BY <2>2 DEF f
<1>5. Top.mode # "stop" => sock[c].status = "http"
  BY <1>1, <1>2 DEF Reading
<1>6. ASSUME Without({"upgradesOthers"}), loop.corked # NoSocket PROVE loop.corked = c
  <2>1. Lent(stack, loop.corked)
    BY <1>1, <1>6 DEF Global, Lending
  <2>2. Holder(Top)
    BY <1>2 DEF Holder
  <2> QED BY <1>1, <1>2, <2>1, <2>2, LentTop DEF Top
<1>7. ASSUME Without({"upgradesOthers"}), loop.upgraded # NoSocket PROVE loop.upgraded = c
  BY <1>1, <1>2, <1>4, <1>7 DEF Global, Lending, Has
<1>8. Without({"upgradesOthers"}) /\ Top.mode = "stop" => sock[c].status # "http"
  BY <1>1, <1>2, <1>4 DEF Global, Lending
<1> QED BY <1>2, <1>3, <1>4, <1>5, <1>6, <1>7, <1>8

\* The parser's frame with another mode.
LEMMA RetopIs ==
  ASSUME NEW f \in AnyFrame, f.kind = "read", NEW mode \in {"parse", "due", "stop"}
  PROVE  ReadFrame([f EXCEPT !.mode = mode], f.socket, mode)
BY DEF ReadFrame, AnyFrame

\* A stack of that frame only.
LEMMA ReadStack ==
  ASSUME NEW c \in Sockets, NEW mode, NEW g, ReadFrame(g, c, mode)
  PROVE  <<g>> \in Seq(AnyFrame) /\ Nested(<<g>>) /\ Frames(<<g>>) = {g} /\ Lent(<<g>>, c) /\ Head(<<g>>) = g
<1>1. g \in AnyFrame /\ g.kind = "read" /\ g.socket = c /\ g.mode = mode
  BY DEF ReadFrame
<1>2. <<g>> \in Seq(AnyFrame) /\ Frames(<<g>>) = {g} /\ <<g>> # <<>> /\ Head(<<g>>) = g
  BY <1>1, FewFrames
<1>3. Nested(<<g>>)
  BY <1>1, BaseNested
<1>4. Holder(g)
  BY <1>1 DEF Holder
<1> DEFINE b == <<g>>
<1>5. b \in Seq(AnyFrame) /\ b # <<>> /\ Head(b) = g
  BY <1>2
<1> HIDE DEF b
<1>6. Lent(b, c)
  BY <1>1, <1>4, <1>5, LentTop
<1> QED BY <1>2, <1>3, <1>6 DEF b

\* One frame on top of another.
Above(f, g) == <<f>> \o <<g>>

\* A stack of one handler on top of the parser.
LEMMA HandlerStack ==
  ASSUME NEW c \in Sockets, NEW mode, NEW g, ReadFrame(g, c, mode), NEW f \in AnyFrame, f.socket = c,
         f.kind \in {"request", "data"} \/ (f.kind = "aborted" /\ mode = "stop")
  PROVE  /\ Above(f, g) \in Seq(AnyFrame) /\ Nested(Above(f, g)) /\ Above(f, g) # <<>> /\ Head(Above(f, g)) = f
         /\ Lent(Above(f, g), c) /\ Frames(Above(f, g)) = {f} \cup {g}
<1> DEFINE r == Above(f, g)
<1>1. g \in AnyFrame /\ g.kind = "read" /\ g.socket = c /\ g.mode = mode
  BY DEF ReadFrame
<1> DEFINE b == <<g>>
<1>2. b \in Seq(AnyFrame) /\ Frames(b) = {g} /\ Lent(b, c) /\ r = <<f>> \o b
  BY ReadStack DEF Above
<1>3. Len(b) = 1 /\ b[1] = g /\ DOMAIN b = {1}
  BY <1>1
<1> HIDE DEF b, r
<1>4. /\ r \in Seq(AnyFrame) /\ r # <<>> /\ Head(r) = f /\ Frames(r) = {f} \cup {g}
      /\ Len(r) = Len(b) + 1 /\ r[1] = f /\ \A i \in DOMAIN b : r[i + 1] = b[i]
  <2> DEFINE q == <<f>> \o b
  <2>1. /\ q \in Seq(AnyFrame) /\ q # <<>> /\ Head(q) = f /\ Frames(q) = {f} \cup Frames(b)
        /\ Len(q) = Len(b) + 1 /\ q[1] = f /\ \A i \in DOMAIN b : q[i + 1] = b[i]
    BY <1>2, PushFrames
  <2>2. r = q
    BY <1>2
  <2> HIDE DEF q
  <2> QED BY <1>2, <2>1, <2>2
<1>5. r[1 + 1] = b[1]
  BY <1>3, <1>4
<1>6. Len(r) = 2 /\ r[2] = g
  BY <1>3, <1>4, <1>5
<1>7. r \in Seq(AnyFrame) /\ r[1] = f
  BY <1>4
<1>8. DOMAIN r = {1, 2}
  BY <1>6, <1>7
<1>11. Nested(r)
  BY <1>1, <1>6, <1>7, <1>8 DEF Nested
<1>9. ~Holder(f)
  BY DEF Holder
<1>10. Lent(r, c)
  BY <1>2, <1>9, LentPush
<1> QED BY <1>4, <1>10, <1>11 DEF r

\* What Retop leaves when the parser is alone on the stack.
LEMMA RetopAlone ==
  ASSUME IInv, NEW c \in Sockets, AtTop("read", c), NEW mode \in {"parse", "due", "stop"}
  PROVE  \E g : ReadFrame(g, c, mode) /\ Retop(mode) = <<g>>
<1>1. Top \in AnyFrame /\ Top.kind = "read" /\ Top.socket = c /\ Below = <<>>
  BY AloneIs
<1> DEFINE g == [Top EXCEPT !.mode = mode]
<1>2. ReadFrame(g, c, mode)
  <2> DEFINE f == Top
  <2>1. f \in AnyFrame /\ f.kind = "read" /\ f.socket = c
    BY <1>1
  <2> HIDE DEF f
  <2>2. ReadFrame([f EXCEPT !.mode = mode], f.socket, mode)
    BY <2>1, RetopIs
  <2> QED BY <2>1, <2>2 DEF f
<1>3. g \in AnyFrame /\ Retop(mode) = <<g>> \o <<>>
  BY <1>1, <1>2 DEF Retop, ReadFrame
<1> HIDE DEF g
<1>4. <<g>> \o <<>> = <<g>>
  BY <1>3, FewFrames
<1> QED BY <1>2, <1>3, <1>4

\* The parser closes its connection.
LEMMA StopKeeps ==
  ASSUME IInv, NEW c \in Sockets, Parsing(c, "parse"), sock' = [sock EXCEPT ![c] = Closed(sock[c])],
         stack' = Aborting(c) \o Retop("stop"), log' = Losing(c), UNCHANGED <<loop, calls, closed>>
  PROVE  IInv'
<1>1. AtTop("read", c) /\ Top.mode = "parse"
  BY DEF Parsing
<1>2. /\ Top.kind = "read" /\ Frames(stack) = {Top} /\ sock[c].status = "http" /\ Top.socket = c
      /\ Without({"upgradesOthers"}) /\ loop.corked # NoSocket => loop.corked = c
  BY <1>1, AloneIs
<1>3. PICK g : ReadFrame(g, c, "stop") /\ Retop("stop") = <<g>>
  BY <1>1, RetopAlone
<1>4. /\ <<g>> \in Seq(AnyFrame) /\ Nested(<<g>>) /\ Frames(<<g>>) = {g} /\ Lent(<<g>>, c) /\ Head(<<g>>) = g
      /\ g.kind = "read" /\ g.socket = c /\ g.mode = "stop"
  BY <1>3, ReadStack DEF ReadFrame
<1>5. /\ Abort(c) \in AnyFrame /\ Abort(c).kind = "aborted" /\ Abort(c).socket = c
      /\ Aborting(c) = IF sock[c].status = "http" /\ sock[c].tellsJS THEN <<Abort(c)>> ELSE <<>>
  BY AbortIs
<1>6. /\ stack' \in Seq(AnyFrame) /\ Nested(stack') /\ Lent(stack', c) /\ Reading'
      /\ Frames(stack') = IF sock[c].status = "http" /\ sock[c].tellsJS THEN {Abort(c)} \cup {g} ELSE {g}
  <2>1. CASE sock[c].status = "http" /\ sock[c].tellsJS
    <3>1. stack' = Above(Abort(c), g)
      BY <1>3, <1>5, <2>1 DEF Above
    <3>2. /\ stack' \in Seq(AnyFrame) /\ Nested(stack') /\ stack' # <<>> /\ Head(stack') = Abort(c) /\ Lent(stack', c)
          /\ Frames(stack') = {Abort(c)} \cup {g}
      <4> DEFINE f == Abort(c)
      <4>1. f \in AnyFrame /\ f.socket = c /\ f.kind = "aborted" /\ ReadFrame(g, c, "stop")
        BY <1>3, <1>5
      <4>2. f.kind \in {"request", "data"} \/ (f.kind = "aborted" /\ "stop" = "stop")
        BY <4>1
      <4> HIDE DEF f
      <4>3. /\ Above(f, g) \in Seq(AnyFrame) /\ Nested(Above(f, g)) /\ Above(f, g) # <<>> /\ Head(Above(f, g)) = f
            /\ Lent(Above(f, g), c) /\ Frames(Above(f, g)) = {f} \cup {g}
        BY <4>1, <4>2, HandlerStack
      <4> QED BY <3>1, <4>3 DEF f
    <3>3. Reading'
      BY <1>5, <3>2 DEF Reading, Top
    <3> QED BY <2>1, <3>2, <3>3
  <2>2. CASE ~(sock[c].status = "http" /\ sock[c].tellsJS)
    <3>1. stack' = <<>> \o <<g>>
      BY <1>3, <1>5, <2>2
    <3>2. <<>> \o <<g>> = <<g>>
      OBVIOUS
    <3>3. Reading'
      BY <1>4, <3>1, <3>2 DEF Reading, Top
    <3> QED BY <1>4, <2>2, <3>1, <3>2, <3>3
  <2> QED BY <2>1, <2>2
<1> DEFINE B == {g}
           a == sock[c]
<1>7. \A d \in Sockets : SameCalls(d, Frames(stack), B)
  BY <1>2, <1>4 DEF SameCalls, Has
<1>8. /\ \A f \in B : f \in Frames(stack) \/ (f.kind = "read" /\ f.socket = c)
      /\ \A f \in Frames(stack) : f.kind = "read" => Has(B, f.socket, "read")
  BY <1>2, <1>4 DEF Has
<1>9. a = sock[c] /\ (closed \/ ~Has(Frames(stack), c, "request"))
  BY <1>2 DEF Has
<1>10. /\ sock' = [sock EXCEPT ![c] = Closed(a)]
       /\ Frames(stack') = IF sock[c].status = "http" /\ sock[c].tellsJS THEN {Abort(c)} \cup B ELSE B
       /\ Without({"upgradesOthers"}) /\ loop.corked # NoSocket => Lent(stack', loop.corked)
       /\ calls' \in 0 .. MaxCalls /\ sock[c].status \in {"http", "websocket"}
  BY <1>2, <1>6, Pieces
<1> HIDE DEF B, a
<1> QED BY <1>6, <1>7, <1>8, <1>9, <1>10, Closes

\* A request that comes too early, or that no route takes.
LEMMA RefuseKeeps == ASSUME IInv, NEW c \in Sockets, Refuse(c) PROVE IInv'
BY StopKeeps DEF Refuse

\* A parse error.
LEMMA ParseErrorKeeps == ASSUME IInv, NEW c \in Sockets, ParseError(c) PROVE IInv'
BY StopKeeps DEF ParseError

\* A handler the parser of the socket c has called.
LEMMA WithinIs ==
  ASSUME IInv, NEW c \in Sockets, AtTop("request", c) \/ AtTop("data", c)
  PROVE  /\ stack # <<>> /\ Top \in AnyFrame /\ Top.kind \in {"request", "data"} /\ Top.socket = c
         /\ ReadFrame(Head(Below), c, Head(Below).mode) /\ Below = <<Head(Below)>> /\ Tail(Below) = <<>>
         /\ Frames(stack) = {Top} \cup {Head(Below)}
         /\ Without({"upgradesOthers"}) /\ loop.corked # NoSocket => loop.corked = c
         /\ Without({"upgradesOthers"}) /\ loop.upgraded # NoSocket => loop.upgraded = c /\ sock[c].status # "http"
         /\ Without({"upgradesOthers"}) /\ Head(Below).mode = "stop" => sock[c].status # "http"
<1>1. stack \in Seq(AnyFrame) /\ Nested(stack) /\ Global
  BY Pieces
<1>2. stack # <<>> /\ Top.kind \in {"request", "data"} /\ Top.socket = c
  BY DEF AtTop
<1>3. Top \in AnyFrame /\ Below \in Seq(AnyFrame) /\ Frames(stack) = {Top} \cup Frames(Below)
  BY <1>1, <1>2, PopFrames DEF Top, Below
<1>4. /\ Below # <<>> /\ Below = <<Head(Below)>> /\ Tail(Below) = <<>> /\ Head(Below).kind = "read"
      /\ Head(Below).socket = c
  BY <1>1, <1>2, Bottom DEF Top, Below
<1>5. Head(Below) \in AnyFrame
  BY <1>3, <1>4, PopFrames
<1>6. ReadFrame(Head(Below), c, Head(Below).mode)
  BY <1>4, <1>5 DEF ReadFrame
<1>7. Frames(Below) = {Head(Below)}
  <2> DEFINE h == Head(Below)
  <2>1. h \in AnyFrame /\ Below = <<h>>
    BY <1>4, <1>5
  <2> HIDE DEF h
  <2>2. Frames(Below) = {h}
    BY <2>1, FewFrames
  <2> QED BY <2>2 DEF h
<1>8. \A f \in Frames(stack) : f.socket = c
  BY <1>2, <1>3, <1>4, <1>7
<1>9. ASSUME Without({"upgradesOthers"}), loop.corked # NoSocket PROVE loop.corked = c
  BY <1>1, <1>8, <1>9 DEF Global, Lending, Lent, Frames
<1>10. ASSUME Without({"upgradesOthers"}), loop.upgraded # NoSocket PROVE loop.upgraded = c /\ sock[c].status # "http"
  BY <1>1, <1>8, <1>10 DEF Global, Lending, Has
<1>11. ASSUME Without({"upgradesOthers"}), Head(Below).mode = "stop" PROVE sock[c].status # "http"
  <2>1. Head(Below) \in Frames(stack)
    BY <1>3, <1>7
  <2> QED BY <1>1, <1>4, <1>11, <2>1 DEF Global, Lending
<1> QED BY <1>2, <1>3, <1>4, <1>6, <1>7, <1>9, <1>10, <1>11

\* The parser's frame g, under that of the handler f if there is one.
Onto(f, g) == IF f = g THEN <<g>> ELSE Above(f, g)

\* A step of the parser of the socket c, or the return of a handler it has
\* called, that ends in the parser or in such a handler.
LEMMA Parses ==
  ASSUME IInv, NEW c \in Sockets, AtTop("read", c) \/ AtTop("request", c) \/ AtTop("data", c),
         NEW m \in Socket, sock' = [sock EXCEPT ![c] = m], m.status = "http" => sock[c].status = "http",
         UNCHANGED <<loop, calls, closed>>, NEW mode, NEW g, ReadFrame(g, c, mode),
         NEW f, f = g \/ (f \in AnyFrame /\ f.socket = c /\ f.kind \in {"request", "data"}),
         stack' = Onto(f, g),
         f = g /\ mode # "stop" => m.status = "http",
         mode = "stop" /\ Without({"upgradesOthers"}) => m.status # "http",
         log' \in [Sockets -> Seq(Events)], \A d \in Sockets \ {c} : log'[d] = log[d],
         Sound(m, c, {f} \cup {g}, closed, loop, log'[c])
  PROVE  IInv'
<1>1. /\ sock \in [Sockets -> Socket] /\ loop \in Shared /\ calls \in 0 .. MaxCalls /\ closed \in BOOLEAN /\ Global
  BY Pieces
<1>2. /\ \A h \in Frames(stack) : h.socket = c
      /\ Without({"upgradesOthers"}) /\ loop.corked # NoSocket => loop.corked = c
  <2>1. CASE AtTop("read", c)
    BY <2>1, AloneIs
  <2>2. CASE AtTop("request", c) \/ AtTop("data", c)
    BY <2>2, WithinIs DEF ReadFrame
  <2> QED BY <2>1, <2>2
<1>3. g.kind = "read" /\ g.socket = c /\ g.mode = mode
  BY DEF ReadFrame
<1>4. /\ stack' \in Seq(AnyFrame) /\ Nested(stack') /\ Head(stack') = f /\ Lent(stack', c)
      /\ Frames(stack') = {f} \cup {g}
  <2>1. CASE f = g
    <3>1. <<g>> \in Seq(AnyFrame) /\ Nested(<<g>>) /\ Frames(<<g>>) = {g} /\ Lent(<<g>>, c) /\ Head(<<g>>) = g
      BY ReadStack
    <3> QED BY <2>1, <3>1 DEF Onto
  <2>2. CASE f # g
    <3>1. /\ Above(f, g) \in Seq(AnyFrame) /\ Nested(Above(f, g)) /\ Head(Above(f, g)) = f
          /\ Lent(Above(f, g), c) /\ Frames(Above(f, g)) = {f} \cup {g}
      BY <2>2, HandlerStack
    <3> QED BY <2>2, <3>1 DEF Onto
  <2> QED BY <2>1, <2>2
<1>5. sock'[c] = m /\ \A d : d # c => sock'[d] = sock[d]
  BY <1>1
<1>6. f.socket = c /\ (f # g => f.kind \in {"request", "data"})
  BY <1>3
<1>7. Reading'
  BY <1>3, <1>4, <1>5, <1>6 DEF Reading, Top
<1>8. \A h \in Frames(stack) : sock'[h.socket].status = "http" => sock[h.socket].status = "http"
  BY <1>2, <1>5
<1>9. \A h \in Frames(stack) : h.kind = "read" => Has(Frames(stack'), h.socket, "read")
  BY <1>2, <1>3, <1>4 DEF Has
<1>10. \A h \in Frames(stack') : h \in Frames(stack) \/
           /\ h.kind = "appClose" => closed'
           /\ h.kind = "aborted" => sock'[h.socket].status # "http"
           /\ h.kind = "cork" => h.mode \in {"run", "uncork"}
           /\ h.kind = "read" /\ h.mode = "stop" /\ Without({"upgradesOthers"}) => sock'[h.socket].status # "http"
  BY <1>3, <1>4, <1>5, <1>6
<1>11. Global'
  <2>1. Without({"upgradesOthers"}) /\ loop'.corked # NoSocket => Lent(stack', loop'.corked)
    BY <1>2, <1>4
  <2>2. loop'.bytes => loop'.corked # NoSocket
    BY <1>1 DEF Global
  <2> QED BY <1>1, <1>4, <1>7, <1>8, <1>9, <1>10, <2>1, <2>2, GlobalKept
<1>12. \A d \in Sockets \ {c} : SameCalls(d, Frames(stack), Frames(stack')) /\ SameCork(d, loop, loop')
  <2>1. \A h \in Frames(stack') : h.socket = c
    BY <1>3, <1>4, <1>6
  <2> QED BY <1>2, <2>1 DEF SameCalls, Has, SameCork
<1> QED BY <1>1, <1>4, <1>11, <1>12, Changes

\* The response to a new request.
Begun(k, kind, r, hs) == [Reset(k, kind) EXCEPT !.request = r, !.body = kind.body, !.handles = hs]

\* It is open, what lies between its socket and the kernel stays.
LEMMA BegunIs ==
  ASSUME NEW k \in Socket, NEW kind \in Kinds, NEW r \in 1 .. MaxRequests, NEW hs \in SUBSET (1 .. MaxRequests),
         NEW m, m = Begun(k, kind, r, hs)
  PROVE  /\ m \in Socket /\ m.status = k.status /\ m.poll = k.poll /\ m.saved = k.saved /\ m.paused = k.paused
         /\ m.buffered = k.buffered /\ m.request = r /\ m.pending
         /\ m.onWritable = k.onWritable /\ m.wanted = k.wanted /\ m.onAborted = k.onAborted
         /\ m.tellsJS = k.tellsJS /\ m.inStream = k.inStream /\ m.handles = hs
         /\ m.body \in 1 .. MaxBody /\ ("head" \notin Scenarios => ~m.head)
<1> DEFINE a == Reset(k, kind)
<1>1. kind.close \in BOOLEAN /\ kind.head \in BOOLEAN /\ kind.body \in 1 .. MaxBody /\ ("head" \notin Scenarios => ~kind.head)
  <2>1. kind.close \in BOOLEAN /\ kind.head \in {"head" \in Scenarios, FALSE} /\ kind.body \in 1 .. MaxBody
    BY DEF Kinds
  <2>2. kind.head = ("head" \in Scenarios) \/ kind.head = FALSE
    BY <2>1
  <2>3. ("head" \in Scenarios) \in BOOLEAN
    OBVIOUS
  <2>4. kind.head \in BOOLEAN
    BY ONLY <2>2, <2>3
  <2>5. "head" \notin Scenarios => ~kind.head
    BY ONLY <2>2
  <2> QED BY <2>1, <2>4, <2>5
<1>2. 0 \in 0 .. BodySize /\ kind.body \in 0 .. MaxBody /\ r \in 0 .. MaxRequests
  BY <1>1, HttpAssumption
<1>3. /\ a \in Socket /\ a.status = k.status /\ a.poll = k.poll /\ a.saved = k.saved /\ a.paused = k.paused
      /\ a.buffered = k.buffered /\ a.pending /\ a.head = kind.head
      /\ a.onWritable = k.onWritable /\ a.wanted = k.wanted /\ a.onAborted = k.onAborted
      /\ a.tellsJS = k.tellsJS /\ a.inStream = k.inStream
  BY <1>1, <1>2 DEF Socket, Reset
<1> DEFINE n == [a EXCEPT !.request = r, !.body = kind.body, !.handles = hs]
<1>6. m = n
  BY DEF Begun
<1> HIDE DEF a
<1>4. /\ n \in Socket /\ n.status = a.status /\ n.poll = a.poll /\ n.saved = a.saved /\ n.paused = a.paused
      /\ n.buffered = a.buffered /\ n.pending = a.pending /\ n.head = a.head
      /\ n.onWritable = a.onWritable /\ n.wanted = a.wanted /\ n.onAborted = a.onAborted
      /\ n.tellsJS = a.tellsJS /\ n.inStream = a.inStream
      /\ n.request = r /\ n.body = kind.body /\ n.handles = hs
  BY <1>2, <1>3 DEF Socket
<1> HIDE DEF n
<1>5. m.status = k.status /\ m.pending /\ (m.head <=> kind.head)
  BY <1>3, <1>4, <1>6
<1> QED BY <1>1, <1>3, <1>4, <1>5, <1>6

\* A parsed request is dispatched.
LEMMA RequestKeeps == ASSUME IInv, NEW c \in Sockets, Request(c) PROVE IInv'
<1> DEFINE k == sock[c]
           r == k.request + 1
           hs == k.handles \cup {r}
           f == Frame("request", c, "run", r)
<1>1. /\ sock \in [Sockets -> Socket] /\ log \in [Sockets -> Seq(Events)] /\ k \in Socket
      /\ Sound(k, c, Frames(stack), closed, loop, log[c])
  BY Pieces
<1>2. PICK kind \in Kinds :
        /\ sock' = [sock EXCEPT ![c] = Begun(k, kind, r, hs)]
        /\ stack' = <<f>> \o Retop(IF kind.body = 1 THEN "due" ELSE "parse")
  BY <1>1 DEF Request, Begun
<1> DEFINE m == Begun(k, kind, r, hs)
           mode == IF kind.body = 1 THEN "due" ELSE "parse"
<1>3. /\ AtTop("read", c) /\ Top.mode = "parse" /\ k.body = 0 /\ ~k.pending /\ k.request < MaxRequests
      /\ log' = [log EXCEPT ![c] = Append(@, "request")] /\ UNCHANGED <<loop, calls, closed>>
  BY DEF Request, Parsing, TooEarly
<1>4. Top.kind = "read" /\ Frames(stack) = {Top} /\ k.status = "http"
  BY <1>3, AloneIs
<1>5. mode \in {"parse", "due", "stop"} /\ mode # "stop"
  OBVIOUS
<1> HIDE DEF mode
<1>6. PICK g : ReadFrame(g, c, mode) /\ Retop(mode) = <<g>>
  BY <1>3, <1>5, RetopAlone
<1>7. k.request \in 0 .. MaxRequests /\ k.handles \in SUBSET (1 .. MaxRequests) /\ MaxRequests \in Nat
  BY <1>1, SocketFields, HttpAssumption
<1>8. r \in 1 .. MaxRequests /\ hs \in SUBSET (1 .. MaxRequests)
  BY <1>3, <1>7
<1>9. f \in AnyFrame /\ f.socket = c /\ f.kind = "request"
  BY <1>8 DEF Frame, AnyFrame, Handlers
<1>10. g.kind = "read" /\ g.socket = c
  BY <1>6 DEF ReadFrame
<1>11. stack' = Above(f, g) /\ f # g
  BY <1>2, <1>6, <1>9, <1>10 DEF Above, mode
<1>12. Kept(k, c, {Top}, closed)
  BY <1>1, <1>4 DEF Sound
<1>13. k.handles = {} /\ k.onAborted = 0 /\ ~k.tellsJS
  BY <1>3, <1>4, <1>12 DEF Kept
<1>14. k.onWritable # Placeholder
  BY <1>4, <1>12 DEF Kept, Has
<1>15. hs = {r} /\ r # 0
  BY <1>8, <1>13
<1>27. m = Begun(k, kind, r, hs)
  OBVIOUS
<1> HIDE DEF k, r, hs, f, m
<1>16. /\ m \in Socket /\ m.status = k.status /\ m.poll = k.poll /\ m.saved = k.saved /\ m.paused = k.paused
       /\ m.buffered = k.buffered /\ m.request = r /\ m.pending
       /\ m.onWritable = k.onWritable /\ m.wanted = k.wanted /\ m.onAborted = k.onAborted
       /\ m.tellsJS = k.tellsJS /\ m.inStream = k.inStream /\ m.handles = hs
       /\ m.body \in 1 .. MaxBody /\ ("head" \notin Scenarios => ~m.head)
  BY <1>1, <1>8, <1>27, BegunIs
<1>17. log' \in [Sockets -> Seq(Events)] /\ (\A d \in Sockets \ {c} : log'[d] = log[d])
       /\ log'[c] # <<>> /\ log'[c][Len(log'[c])] = "request"
  <2>1. "request" \in Events
    BY DEF Events
  <2> QED BY <1>1, <1>3, <2>1, TellsIs
<1>18. Kept(m, c, {f} \cup {g}, closed)
  <2>1. Has({f} \cup {g}, c, "request")
    BY <1>9 DEF Has
  <2> QED BY <1>4, <1>12, <1>13, <1>14, <1>15, <1>16, <2>1 DEF Kept
<1>19. Fed(k, c, {Top}) => Fed(m, c, {f} \cup {g})
  <2>1. m.body > 0
    BY <1>16
  <2>2. Fed(k, c, {Top}) => k.inStream = 0
    BY <1>3, <1>4, <1>7 DEF Fed, k
  <2> QED BY <1>9, <1>10, <1>16, <2>1, <2>2 DEF Fed
<1>20. Without(Untimed) => Timely(m)
  BY <1>15, <1>16 DEF Timely, Without, Untimed
<1>21. Polls(k, c, loop) => Polls(m, c, loop)
  BY <1>16 DEF Polls
<1>22. Told(m, log'[c]) /\ Ends(m, c, loop)
  BY <1>16, <1>17 DEF Told, Ends, ReadyToClose
<1>23. Sound(m, c, {f} \cup {g}, closed, loop, log'[c])
  BY <1>1, <1>4, <1>18, <1>19, <1>20, <1>21, <1>22 DEF Sound
<1>24. sock' = [sock EXCEPT ![c] = m] /\ m.status = "http"
  BY <1>2, <1>4, <1>16 DEF m
<1>25. stack' = Onto(f, g)
  BY <1>11 DEF Onto
<1>26. sock[c].status = "http" /\ m \in Socket
  BY <1>4, <1>16 DEF k
<1>28. f \in AnyFrame /\ f.socket = c /\ f.kind \in {"request", "data"} /\ f # g
  BY <1>9, <1>11
<1>29. AtTop("read", c) /\ UNCHANGED <<loop, calls, closed>>
  BY <1>3
<1> QED BY ONLY IInv, c \in Sockets, <1>29, <1>5, <1>6, <1>28, <1>17, <1>23, <1>24, <1>25, <1>26, Parses

\* Such a step that ends in the parser.
LEMMA ParsesOn ==
  ASSUME IInv, NEW c \in Sockets, AtTop("read", c) \/ AtTop("request", c) \/ AtTop("data", c),
         NEW m \in Socket, sock' = [sock EXCEPT ![c] = m], m.status = "http" => sock[c].status = "http",
         UNCHANGED <<loop, calls, closed>>, NEW g, ReadFrame(g, c, g.mode), stack' = <<g>>,
         g.mode # "stop" => m.status = "http",
         g.mode = "stop" /\ Without({"upgradesOthers"}) => m.status # "http",
         log' \in [Sockets -> Seq(Events)], \A d \in Sockets \ {c} : log'[d] = log[d],
         Sound(m, c, {g} \cup {g}, closed, loop, log'[c])
  PROVE  IInv'
<1> DEFINE f == g
           mode == g.mode
<1>1. stack' = Onto(f, g)
  BY DEF Onto
<1>2. f = g /\ mode = g.mode /\ Sound(m, c, {f} \cup {g}, closed, loop, log'[c])
  OBVIOUS
<1> HIDE DEF f, mode
<1> QED BY <1>1, <1>2, Parses

\* Such a step that ends in a handler.
LEMMA ParsesTo ==
  ASSUME IInv, NEW c \in Sockets, AtTop("read", c),
         NEW m \in Socket, sock' = [sock EXCEPT ![c] = m], m.status = "http" => sock[c].status = "http",
         UNCHANGED <<loop, calls, closed>>, NEW g, ReadFrame(g, c, g.mode), g.mode # "stop",
         NEW f \in AnyFrame, f.socket = c, f.kind \in {"request", "data"}, stack' = Above(f, g),
         log' \in [Sockets -> Seq(Events)], \A d \in Sockets \ {c} : log'[d] = log[d],
         Sound(m, c, {f} \cup {g}, closed, loop, log'[c])
  PROVE  IInv'
<1> DEFINE mode == g.mode
<1>1. f # g
  BY DEF ReadFrame
<1>2. stack' = Onto(f, g)
  BY <1>1 DEF Onto
<1>3. ReadFrame(g, c, mode) /\ mode # "stop"
  OBVIOUS
<1> HIDE DEF mode
<1>4. /\ AtTop("read", c) \/ AtTop("request", c) \/ AtTop("data", c)
      /\ f = g \/ (f \in AnyFrame /\ f.socket = c /\ f.kind \in {"request", "data"})
      /\ f = g /\ mode # "stop" => m.status = "http"
      /\ mode = "stop" /\ Without({"upgradesOthers"}) => m.status # "http"
      /\ log' \in [Sockets -> Seq(Events)] /\ \A d \in Sockets \ {c} : log'[d] = log[d]
      /\ m \in Socket /\ sock' = [sock EXCEPT ![c] = m] /\ (m.status = "http" => sock[c].status = "http")
      /\ UNCHANGED <<loop, calls, closed>> /\ Sound(m, c, {f} \cup {g}, closed, loop, log'[c])
  BY <1>1, <1>3
<1> QED BY ONLY IInv, c \in Sockets, <1>2, <1>3, <1>4, Parses

\* A handler returns to the parser and stops it.
LEMMA StoppingIs ==
  ASSUME IInv, NEW c \in Sockets, AtTop("request", c) \/ AtTop("data", c)
  PROVE  \E g : ReadFrame(g, c, "stop") /\ <<[Head(Below) EXCEPT !.mode = "stop"]>> \o Tail(Below) = <<g>>
<1>1. ReadFrame(Head(Below), c, Head(Below).mode) /\ Tail(Below) = <<>>
  BY WithinIs
<1> DEFINE h == Head(Below)
           g == [h EXCEPT !.mode = "stop"]
<1>2. h \in AnyFrame /\ h.kind = "read" /\ h.socket = c
  BY <1>1 DEF ReadFrame
<1> HIDE DEF h
<1>3. ReadFrame([h EXCEPT !.mode = "stop"], h.socket, "stop")
  BY <1>2, RetopIs
<1>4. ReadFrame(g, c, "stop")
  BY <1>2, <1>3
<1>5. g \in AnyFrame /\ <<g>> \o Tail(Below) = <<g>> \o <<>>
  BY <1>1, <1>4 DEF ReadFrame
<1> HIDE DEF g
<1>6. <<g>> \o <<>> = <<g>>
  BY <1>5, FewFrames
<1>7. ReadFrame(g, c, "stop") /\ <<g>> \o Tail(Below) = <<g>>
  BY <1>4, <1>5, <1>6
<1> QED BY <1>7 DEF g, h

\* The data handler has returned, the handler of the request long before.
LEMMA DataKept ==
  ASSUME NEW k, NEW c, NEW f, NEW h, NEW g, NEW cl, Kept(k, c, {f} \cup {h}, cl),
         f.kind = "data", h.kind = "read", g.kind = "read"
  PROVE  Kept(k, c, {g} \cup {g}, cl)
<1>1. /\ ~Has({f} \cup {h}, c, "request") /\ ~Has({f} \cup {h}, c, "aborted") /\ ~Has({f} \cup {h}, c, "writable")
  BY DEF Has
<1> QED BY <1>1 DEF Kept

\* A data handler returns.
LEMMA DataReturnKeeps == ASSUME IInv, NEW c \in Sockets, DataReturn(c) PROVE IInv'
<1> DEFINE k == sock[c]
           h == Head(Below)
           f == Top
<1>1. /\ sock \in [Sockets -> Socket] /\ log \in [Sockets -> Seq(Events)] /\ k \in Socket
      /\ Sound(k, c, Frames(stack), closed, loop, log[c])
  BY Pieces
<1>2. AtTop("data", c) /\ UNCHANGED <<loop, calls, closed, log>>
  BY DEF DataReturn
<1>3. /\ f.kind = "data" /\ ReadFrame(h, c, h.mode) /\ Below = <<h>> /\ Frames(stack) = {f} \cup {h}
      /\ Without({"upgradesOthers"}) /\ h.mode = "stop" => k.status # "http"
  BY <1>2, WithinIs DEF AtTop
<1>4. h.kind = "read" /\ h.socket = c
  BY <1>3 DEF ReadFrame
<1>5. Kept(k, c, {f} \cup {h}, closed)
  BY <1>1, <1>3 DEF Sound
<1>6. log' \in [Sockets -> Seq(Events)] /\ log'[c] = log[c] /\ \A d \in Sockets \ {c} : log'[d] = log[d]
  BY <1>1, <1>2
<1>7. CASE k.status = "http"
  <2> DEFINE m == ResetInStream(k, f.mode)
  <2>1. sock' = [sock EXCEPT ![c] = m] /\ stack' = Below
    BY <1>1, <1>7 DEF DataReturn
  <2>2. 0 \in 0 .. MaxRequests
    BY HttpAssumption
  <2> HIDE DEF k, f
  <2>3. /\ m \in Socket /\ m.status = k.status /\ m.poll = k.poll /\ m.saved = k.saved /\ m.paused = k.paused
        /\ m.buffered = k.buffered /\ m.timer = k.timer /\ m.request = k.request /\ m.body = k.body
        /\ m.pending = k.pending /\ m.last = k.last /\ m.head = k.head /\ m.onWritable = k.onWritable
        /\ m.wanted = k.wanted /\ m.onAborted = k.onAborted /\ m.tellsJS = k.tellsJS /\ m.handles = k.handles
        /\ m.inStream # 0 => m.inStream = k.inStream /\ f.mode # "last"
    <3>1. CASE f.mode = "last"
      <4>1. m = [k EXCEPT !.inStream = 0]
        BY <3>1 DEF ResetInStream
      <4> HIDE DEF m
      <4> QED BY <1>1, <2>2, <4>1 DEF Socket
    <3>2. CASE f.mode # "last"
      <4>1. m = k
        BY <3>2 DEF ResetInStream
      <4> HIDE DEF m
      <4> QED BY <1>1, <3>2, <4>1
    <3> QED BY <3>1, <3>2
  <2> HIDE DEF m, h
  <2>4. Kept(m, c, {h} \cup {h}, closed)
    <3>1. Kept(k, c, {h} \cup {h}, closed)
      BY <1>3, <1>4, <1>5, DataKept
    <3> QED BY <2>3, <3>1 DEF Kept
  <2>5. Fed(k, c, {f} \cup {h}) => Fed(m, c, {h} \cup {h})
    BY <1>4, <2>3 DEF Fed
  <2>6. Timely(k) => Timely(m)
    BY <2>3 DEF Timely
  <2>7. (Polls(k, c, loop) => Polls(m, c, loop)) /\ (Told(k, log[c]) => Told(m, log[c])) /\ (Ends(k, c, loop) => Ends(m, c, loop))
    BY <2>3 DEF Polls, Told, Ends, ReadyToClose
  <2>8. Sound(m, c, {h} \cup {h}, closed, loop, log'[c])
    BY <1>1, <1>3, <1>6, <2>4, <2>5, <2>6, <2>7 DEF Sound
  <2>9. stack' = <<h>>
    BY <1>3, <2>1
  <2>10. /\ sock[c].status = "http" /\ m.status = "http"
         /\ h.mode = "stop" /\ Without({"upgradesOthers"}) => m.status # "http"
    BY <1>3, <1>7, <2>3 DEF k
  <2> QED BY <1>2, <1>3, <1>6, <2>1, <2>3, <2>8, <2>9, <2>10, ParsesOn
<1>8. CASE k.status # "http"
  <2>1. sock' = sock /\ stack' = <<[Head(Below) EXCEPT !.mode = "stop"]>> \o Tail(Below)
    BY <1>8 DEF DataReturn
  <2>2. PICK g : ReadFrame(g, c, "stop") /\ <<[Head(Below) EXCEPT !.mode = "stop"]>> \o Tail(Below) = <<g>>
    BY <1>2, StoppingIs
  <2>3. g.kind = "read"
    BY <2>2 DEF ReadFrame
  <2>4. stack' = <<g>> /\ sock' = [sock EXCEPT ![c] = k] /\ g.mode = "stop" /\ ReadFrame(g, c, g.mode)
    BY <1>1, <2>1, <2>2 DEF ReadFrame
  <2>9. sock[c].status = k.status
    OBVIOUS
  <2> HIDE DEF k, h, f
  <2>5. Kept(k, c, {g} \cup {g}, closed)
    BY <1>3, <1>4, <1>5, <2>3, DataKept
  <2>6. Fed(k, c, {g} \cup {g})
    BY <1>8, <2>3 DEF Fed
  <2>7. Sound(k, c, {g} \cup {g}, closed, loop, log'[c])
    BY <1>8, <2>5, <2>6 DEF Sound, Timely, Polls, Told, Ends
  <2> QED BY <1>1, <1>2, <1>6, <1>8, <2>4, <2>7, <2>9, ParsesOn
<1> QED BY <1>7, <1>8

\* The parser of a socket is on the stack, without a handler or below that of some data.
LEMMA ParserKept ==
  ASSUME NEW k, NEW c, NEW h, NEW f, NEW g, NEW cl, Kept(k, c, {h}, cl), k.status = "http",
         h.kind = "read", g.kind = "read", f.kind \in {"read", "data"}
  PROVE  Kept(k, c, {f} \cup {g}, cl)
<1>1. /\ ~Has({h}, c, "request") /\ ~Has({h}, c, "aborted") /\ ~Has({h}, c, "writable")
  BY DEF Has
<1> QED BY <1>1 DEF Kept

\* The socket k after a part of its body was parsed.
Parsed(k, m) ==
  /\ m \in Socket /\ m.status = k.status /\ m.poll = k.poll /\ m.saved = k.saved /\ m.paused = k.paused
  /\ m.buffered = k.buffered /\ m.request = k.request /\ m.body = k.body - 1
  /\ m.pending = k.pending /\ m.last = k.last /\ m.head = k.head /\ m.onWritable = k.onWritable
  /\ m.wanted = k.wanted /\ m.onAborted = k.onAborted /\ m.tellsJS = k.tellsJS /\ m.handles = k.handles
  /\ m.inStream = k.inStream

\* What does not depend on how much of the body is left, or on the timer.
LEMMA ParsedSound ==
  ASSUME NEW k \in Socket, NEW m, Parsed(k, m), k.status = "http", NEW c, NEW h, NEW f, NEW g, NEW cl, NEW l, NEW events,
         Sound(k, c, {h}, cl, l, events), h.kind = "read", g.kind = "read", f.kind \in {"read", "data"},
         Fed(k, c, {h}) => Fed(m, c, {f} \cup {g}), Timely(k) => Timely(m)
  PROVE  Sound(m, c, {f} \cup {g}, cl, l, events)
<1>1. Kept(m, c, {f} \cup {g}, cl)
  <2>1. Kept(k, c, {f} \cup {g}, cl)
    BY ParserKept DEF Sound
  <2> QED BY <2>1 DEF Kept, Parsed
<1>2. (Polls(k, c, l) => Polls(m, c, l)) /\ (Told(k, events) => Told(m, events)) /\ (Ends(k, c, l) => Ends(m, c, l))
  BY DEF Polls, Told, Ends, ReadyToClose, Parsed
<1> QED BY <1>1, <1>2 DEF Sound

\* The parser delivers data, to a handler if there is one.
LEMMA DataKeeps == ASSUME IInv, NEW c \in Sockets, Data(c) PROVE IInv'
<1> DEFINE k == sock[c]
           h == Top
<1>1. /\ sock \in [Sockets -> Socket] /\ log \in [Sockets -> Seq(Events)] /\ k \in Socket
      /\ Sound(k, c, Frames(stack), closed, loop, log[c])
  BY Pieces
<1>2. AtTop("read", c) /\ h.mode # "stop" /\ k.body > 0 /\ UNCHANGED <<loop, calls, closed, log>>
  BY DEF Data, Parsing
<1>3. k.status = "http" /\ h.kind = "read" /\ h.socket = c /\ Frames(stack) = {h}
  BY <1>2, AloneIs
<1>4. PICK g : ReadFrame(g, c, "parse") /\ Retop("parse") = <<g>>
  BY <1>2, RetopAlone
<1>5. g.kind = "read" /\ g.socket = c /\ g.mode = "parse" /\ ReadFrame(g, c, g.mode)
  BY <1>4 DEF ReadFrame
<1>6. log' \in [Sockets -> Seq(Events)] /\ log'[c] = log[c] /\ \A d \in Sockets \ {c} : log'[d] = log[d]
  BY <1>1, <1>2
<1>7. /\ k.body \in 0 .. MaxBody /\ k.inStream \in 0 .. MaxRequests /\ k.timer \in BOOLEAN
      /\ MaxBody \in Nat /\ MaxRequests \in Nat
  BY <1>1, SocketFields, HttpAssumption
<1>8. k.body - 1 \in 0 .. MaxBody
  BY <1>2, <1>7
<1>9. sock[c] = k
  OBVIOUS
<1>10. CASE k.inStream = 0
  <2> DEFINE m == [k EXCEPT !.body = k.body - 1]
  <2>1. sock' = [sock EXCEPT ![c] = m] /\ stack' = <<g>>
    BY <1>1, <1>4, <1>10 DEF Data
  <2> HIDE DEF k, h
  <2>2. Parsed(k, m) /\ m.timer = k.timer
    BY <1>1, <1>8 DEF Socket, Parsed
  <2> HIDE DEF m
  <2>3. Fed(k, c, {h}) => Fed(m, c, {g} \cup {g})
    BY <1>5, <1>10, <2>2 DEF Fed, Parsed
  <2>4. Timely(k) => Timely(m)
    BY <1>10, <2>2 DEF Timely, Parsed
  <2>5. Sound(m, c, {g} \cup {g}, closed, loop, log'[c])
    BY <1>1, <1>3, <1>5, <1>6, <2>2, <2>3, <2>4, ParsedSound
  <2>6. m \in Socket /\ sock[c].status = "http" /\ m.status = "http"
    BY <1>3, <1>9, <2>2 DEF Parsed
  <2> QED BY <1>2, <1>5, <1>6, <2>1, <2>5, <2>6, ParsesOn
<1>11. CASE k.inStream # 0
  <2> DEFINE last == k.body = 1
             mode == IF last THEN "last" ELSE "more"
             f == Frame("data", c, mode, k.inStream)
             n(t) == [k EXCEPT !.body = k.body - 1, !.timer = t]
  <2>1. PICK t \in BOOLEAN : (~last => t \in {k.timer, TRUE}) /\ sock' = [sock EXCEPT ![c] = n(t)]
    <3>1. \E t \in IF last THEN {FALSE} ELSE {k.timer, TRUE} : sock' = [sock EXCEPT ![c] = n(t)]
      BY <1>1, <1>11 DEF Data
    <3> HIDE DEF n, k
    <3> QED BY <1>7, <3>1
  <2>2. stack' = Above(f, g)
    BY <1>4, <1>11 DEF Data, Above
  <2> DEFINE m == n(t)
  <2>4. k.inStream \in 1 .. MaxRequests /\ mode \in {"last", "more"} /\ (last => mode = "last")
    BY <1>7, <1>11
  <2> HIDE DEF mode
  <2>5. f \in AnyFrame /\ f.kind = "data" /\ f.socket = c /\ f.mode = mode /\ f.handler = k.inStream
    BY <2>4 DEF Frame, AnyFrame, Handlers
  <2> HIDE DEF k, h, f
  <2>6. Parsed(k, m) /\ m.timer = t
    BY <1>1, <1>8 DEF Socket, Parsed
  <2>7. sock' = [sock EXCEPT ![c] = m]
    BY <2>1
  <2> HIDE DEF m, n
  <2>8. Fed(k, c, {h}) => Fed(m, c, {f} \cup {g})
    <3>1. m.body > 0 \/ f.mode = "last"
      BY <1>2, <1>7, <2>4, <2>5, <2>6 DEF Parsed
    <3>2. Fed(k, c, {h}) => k.inStream = k.request
      BY <1>3, <1>11 DEF Fed
    <3> QED BY <1>5, <2>5, <2>6, <3>1, <3>2 DEF Fed, Parsed
  <2>9. Timely(k) => Timely(m)
    <3>1. Timely(k) => k.pending
      BY <1>2, <1>3, <1>11 DEF Timely
    <3> QED BY <1>3, <2>1, <2>6, <3>1 DEF Timely, Parsed
  <2>10. Sound(m, c, {f} \cup {g}, closed, loop, log'[c])
    <3>1. /\ k \in Socket /\ k.status = "http" /\ Parsed(k, m) /\ Sound(k, c, {h}, closed, loop, log'[c])
          /\ h.kind = "read" /\ g.kind = "read" /\ f.kind \in {"read", "data"}
      BY <1>1, <1>3, <1>5, <1>6, <2>5, <2>6
    <3> QED BY <2>8, <2>9, <3>1, ParsedSound
  <2>11. m \in Socket /\ sock[c].status = "http" /\ m.status = "http"
    BY <1>3, <1>9, <2>6 DEF Parsed
  <2>12. f \in AnyFrame /\ f.socket = c /\ f.kind \in {"request", "data"}
    BY <2>5
  <2>13. AtTop("read", c) /\ UNCHANGED <<loop, calls, closed>> /\ ReadFrame(g, c, g.mode) /\ g.mode # "stop"
    BY <1>2, <1>5
  <2> QED BY ONLY IInv, c \in Sockets, <1>6, <2>2, <2>7, <2>10, <2>11, <2>12, <2>13, ParsesTo
<1> QED BY <1>10, <1>11

\* The response k when its handler has returned, as m: it is given a default
\* abort handler if it has a handle and none yet.
Guards(k, m) ==
  /\ m \in Socket /\ m.status = k.status /\ m.poll = k.poll /\ m.saved = k.saved /\ m.paused = k.paused
  /\ m.buffered = k.buffered /\ m.request = k.request /\ m.body = k.body /\ (k.timer => m.timer)
  /\ m.pending = k.pending /\ m.last = k.last /\ m.head = k.head /\ m.onWritable = k.onWritable
  /\ m.wanted = k.wanted /\ m.tellsJS = k.tellsJS /\ m.handles = k.handles /\ m.inStream = k.inStream
  /\ m.onAborted = IF k.handles # {} THEN k.request ELSE k.onAborted

\* What the wrapper of a request handler makes of the socket.
LEMMA GuardedIs ==
  ASSUME NEW k \in Socket, k.status = "http", NEW c, NEW F, NEW cl, Kept(k, c, F, cl)
  PROVE  Guards(k, Guarded(k)) /\ Guards(k, [Guarded(k) EXCEPT !.timer = TRUE])
<1> DEFINE m == Guarded(k)
<1>1. /\ k.onAborted \in {0, k.request} /\ (~k.pending => k.handles = {}) /\ k.request \in 0 .. MaxRequests
  BY SocketFields DEF Kept
<1>2. Guards(k, m)
  <2>1. CASE k.handles # {} /\ k.pending /\ k.onAborted = 0
    <3>1. m = [k EXCEPT !.onAborted = k.request, !.timer = TRUE]
      BY <2>1 DEF Guarded
    <3> HIDE DEF m
    <3>2. /\ m \in Socket /\ m.status = k.status /\ m.poll = k.poll /\ m.saved = k.saved /\ m.paused = k.paused
          /\ m.buffered = k.buffered /\ m.request = k.request /\ m.body = k.body /\ m.timer = TRUE
          /\ m.pending = k.pending /\ m.last = k.last /\ m.head = k.head /\ m.onWritable = k.onWritable
          /\ m.wanted = k.wanted /\ m.tellsJS = k.tellsJS /\ m.handles = k.handles /\ m.inStream = k.inStream
          /\ m.onAborted = k.request
      BY <1>1, <3>1 DEF Socket
    <3> QED BY <2>1, <3>2 DEF Guards
  <2>2. CASE ~(k.handles # {} /\ k.pending /\ k.onAborted = 0)
    <3>1. m = k
      BY <2>2 DEF Guarded
    <3>2. k.onAborted = IF k.handles # {} THEN k.request ELSE k.onAborted
      BY <1>1, <2>2
    <3> HIDE DEF m
    <3> QED BY <3>1, <3>2 DEF Guards
  <2> QED BY <2>1, <2>2
<1> HIDE DEF m
<1> DEFINE n == [m EXCEPT !.timer = TRUE]
<1>3. m \in Socket
  BY <1>2 DEF Guards
<1>4. /\ n \in Socket /\ n.status = m.status /\ n.poll = m.poll /\ n.saved = m.saved /\ n.paused = m.paused
      /\ n.buffered = m.buffered /\ n.request = m.request /\ n.body = m.body /\ n.timer = TRUE
      /\ n.pending = m.pending /\ n.last = m.last /\ n.head = m.head /\ n.onWritable = m.onWritable
      /\ n.wanted = m.wanted /\ n.tellsJS = m.tellsJS /\ n.handles = m.handles /\ n.inStream = m.inStream
      /\ n.onAborted = m.onAborted
  BY <1>3 DEF Socket
<1> HIDE DEF n
<1>5. Guards(k, n)
  BY <1>2, <1>4 DEF Guards
<1> QED BY <1>2, <1>5 DEF m, n

\* The invariant of its socket holds without the handler on the stack.
LEMMA GuardsSound ==
  ASSUME NEW k \in Socket, NEW m, Guards(k, m), k.status = "http", NEW c, NEW f, NEW h, NEW g, NEW cl, NEW l, NEW events,
         Sound(k, c, {f} \cup {h}, cl, l, events), f.kind = "request", h.kind = "read", g.kind = "read"
  PROVE  Sound(m, c, {g} \cup {g}, cl, l, events)
<1>1. Kept(m, c, {g} \cup {g}, cl)
  <2>1. /\ ~Has({f} \cup {h}, c, "aborted") /\ ~Has({f} \cup {h}, c, "writable")
    BY DEF Has
  <2>2. Kept(k, c, {f} \cup {h}, cl)
    BY DEF Sound
  <2> QED BY <2>1, <2>2 DEF Kept, Guards
<1>2. Fed(k, c, {f} \cup {h}) => Fed(m, c, {g} \cup {g})
  BY DEF Fed, Guards
<1>3. (Timely(k) => Timely(m)) /\ (Polls(k, c, l) => Polls(m, c, l)) /\ (Told(k, events) => Told(m, events))
      /\ (Ends(k, c, l) => Ends(m, c, l))
  BY DEF Timely, Polls, Told, Ends, ReadyToClose, Guards
<1> QED BY <1>1, <1>2, <1>3 DEF Sound

\* A socket that has left HTTP and that no handle points to any more.
LEMMA GoneSound ==
  ASSUME NEW m, NEW c, NEW g, NEW cl, NEW l, NEW events, g.kind = "read",
         m.status \in {"websocket", "closed"}, m.handles = {}, m.onWritable = 0, m.wanted = 0
  PROVE  Sound(m, c, {g} \cup {g}, cl, l, events)
<1>1. 0 # Placeholder
  BY HttpAssumption DEF Placeholder
<1>2. Kept(m, c, {g} \cup {g}, cl)
  BY <1>1 DEF Kept
<1>3. Fed(m, c, {g} \cup {g})
  BY DEF Fed
<1> QED BY <1>2, <1>3 DEF Sound, Timely, Polls, Told, Ends

\* The handler of a request returns to the parser.
LEMMA RequestReturnKeeps == ASSUME IInv, NEW c \in Sockets, RequestReturn(c) PROVE IInv'
<1> DEFINE k == sock[c]
           h == Head(Below)
           f == Top
           q == Guarded(k)
           stays == q.status = "http" /\ loop.upgraded = NoSocket
           stuck == stays /\ q.pending /\ q.onAborted = 0
           stopped == <<[Head(Below) EXCEPT !.mode = "stop"]>> \o Tail(Below)
<1>1. /\ sock \in [Sockets -> Socket] /\ log \in [Sockets -> Seq(Events)] /\ k \in Socket
      /\ Sound(k, c, Frames(stack), closed, loop, log[c])
  BY Pieces
<1>2. AtTop("request", c) /\ UNCHANGED <<loop, calls, closed>>
  BY DEF RequestReturn
<1>3. /\ f.kind = "request" /\ ReadFrame(h, c, h.mode) /\ Below = <<h>> /\ Frames(stack) = {f} \cup {h}
      /\ Without({"upgradesOthers"}) /\ h.mode = "stop" => k.status # "http"
      /\ Without({"upgradesOthers"}) /\ loop.upgraded # NoSocket => k.status # "http"
  BY <1>2, WithinIs DEF AtTop
<1>4. h.kind = "read" /\ h.socket = c
  BY <1>3 DEF ReadFrame
<1>5. Sound(k, c, {f} \cup {h}, closed, loop, log[c]) /\ Kept(k, c, {f} \cup {h}, closed)
  BY <1>1, <1>3 DEF Sound
<1>6. /\ stuck => sock' = [sock EXCEPT ![c] = Closed(q)]
      /\ stays /\ ~stuck /\ q.pending /\ q.inStream # 0 => sock' = [sock EXCEPT ![c] = [q EXCEPT !.timer = TRUE]]
      /\ ~stuck /\ ~(stays /\ ~stuck /\ q.pending /\ q.inStream # 0) => sock' = [sock EXCEPT ![c] = q]
      /\ stack' = (IF stays /\ ~stuck THEN Below ELSE stopped)
      /\ log' = (IF stuck THEN Losing(c) ELSE log)
  BY DEF RequestReturn
<1>7. PICK g : ReadFrame(g, c, "stop") /\ stopped = <<g>>
  BY <1>2, StoppingIs
<1>8. g.kind = "read" /\ g.mode = "stop" /\ ReadFrame(g, c, g.mode)
  BY <1>7 DEF ReadFrame
<1>9. sock[c] = k
  OBVIOUS
<1>10. /\ log' \in [Sockets -> Seq(Events)] /\ \A d \in Sockets \ {c} : log'[d] = log[d]
       /\ ~stuck => log'[c] = log[c]
  BY <1>1, <1>6, LosingIs
<1>11. CASE k.status # "http"
  <2>1. q = [k EXCEPT !.handles = {}]
    BY <1>11 DEF Guarded
  <2> HIDE DEF k, f, h, q
  <2>2. /\ q \in Socket /\ q.status = k.status /\ q.handles = {} /\ q.onWritable = k.onWritable /\ q.wanted = k.wanted
    BY <1>1, <2>1 DEF Socket
  <2>3. q.status # "http" /\ ~stuck /\ ~stays
    BY <1>11, <2>2
  <2>4. sock' = [sock EXCEPT ![c] = q] /\ stack' = <<g>>
    BY <1>6, <1>7, <2>3
  <2>5. q.status \in {"websocket", "closed"} /\ q.onWritable = 0 /\ q.wanted = 0
    <3>1. /\ ~Has({f} \cup {h}, c, "aborted") /\ ~Has({f} \cup {h}, c, "writable")
      BY <1>3, <1>4 DEF Has
    <3>2. k.status \in {"closing", "websocket", "closed"} /\ 0 # Placeholder
      BY <1>1, <1>11, SocketFields, HttpAssumption DEF Placeholder
    <3> QED BY <1>5, <2>2, <3>1, <3>2 DEF Kept
  <2>6. Sound(q, c, {g} \cup {g}, closed, loop, log'[c])
    BY <1>8, <2>2, <2>5, GoneSound
  <2> QED BY <1>2, <1>8, <1>10, <2>2, <2>3, <2>4, <2>6, ParsesOn
<1>12. CASE k.status = "http" /\ stuck
  <2> HIDE DEF k, f, h, stuck, stays
  <2>1. Guards(k, q)
    BY <1>1, <1>5, <1>12, GuardedIs
  <2> HIDE DEF q
  <2>2. q.pending /\ q.onAborted = 0 /\ q.status = "http"
    BY <1>12 DEF stuck, stays
  <2>3. q.handles = {} /\ ~q.tellsJS /\ q \in Socket
    <3>1. k.request = 0 => k.handles = {}
      <4>1. k.handles \subseteq {k.request} /\ k.handles \in SUBSET (1 .. MaxRequests)
        BY <1>1, <1>5, SocketFields DEF Kept
      <4> QED BY <4>1
    <3>2. k.handles = {} /\ k.onAborted = 0
      BY <2>1, <2>2, <3>1 DEF Guards
    <3>3. ~k.tellsJS
      BY <1>5, <1>12, <3>2 DEF Kept
    <3> QED BY <2>1, <3>2, <3>3 DEF Guards
  <2> DEFINE m == Closed(q)
  <2>4. /\ m \in Socket /\ m.status = "closed" /\ m.handles = {} /\ m.onWritable = 0 /\ m.wanted = 0
    <3>1. /\ Closed(q) \in Socket /\ Closed(q).handles = q.handles \ {q.onAborted}
          /\ Closed(q).status = "closed" /\ Closed(q).onWritable = 0 /\ Closed(q).wanted = 0
      BY <2>2, <2>3, ClosedIs
    <3> QED BY <2>3, <3>1
  <2> HIDE DEF m
  <2>5. Sound(m, c, {g} \cup {g}, closed, loop, log'[c])
    BY <1>8, <2>4, GoneSound
  <2>6. sock' = [sock EXCEPT ![c] = m] /\ stack' = <<g>>
    BY <1>6, <1>7, <1>12 DEF m
  <2> QED BY <1>2, <1>8, <1>10, <2>4, <2>5, <2>6, ParsesOn
<1>13. CASE k.status = "http" /\ ~stuck
  <2> HIDE DEF k, f, h
  <2>1. Guards(k, q) /\ Guards(k, [q EXCEPT !.timer = TRUE])
    BY <1>1, <1>5, <1>13, GuardedIs
  <2>2. q.status = "http"
    BY <1>13, <2>1 DEF Guards
  <2>3. PICK m : sock' = [sock EXCEPT ![c] = m] /\ Guards(k, m)
    BY <1>6, <1>13, <2>1
  <2>4. m \in Socket /\ m.status = "http" /\ sock[c].status = "http"
    BY <1>9, <1>13, <2>3 DEF Guards
  <2> HIDE DEF q, stuck, stays
  <2>5. \A b : b.kind = "read" => Sound(m, c, {b} \cup {b}, closed, loop, log'[c])
    <3>1. log'[c] = log[c]
      BY <1>10, <1>13
    <3> QED BY <1>1, <1>3, <1>4, <1>5, <1>13, <2>3, <3>1, GuardsSound
  <2>6. CASE stays
    <3>1. stack' = <<h>>
      BY <1>3, <1>6, <1>13, <2>6
    <3>2. h.mode = "stop" /\ Without({"upgradesOthers"}) => m.status # "http"
      BY <1>3, <1>13
    <3> QED BY <1>2, <1>3, <1>4, <1>10, <2>3, <2>4, <2>5, <3>1, <3>2, ParsesOn
  <2>7. CASE ~stays
    <3>1. stack' = <<g>>
      BY <1>6, <1>7, <2>7
    <3>2. g.mode = "stop" /\ Without({"upgradesOthers"}) => m.status # "http"
      BY <1>3, <1>13, <2>2, <2>7 DEF stays
    <3> QED BY <1>2, <1>8, <1>10, <2>3, <2>4, <2>5, <3>1, <3>2, ParsesOn
  <2> QED BY <2>6, <2>7
<1> QED BY <1>11, <1>12, <1>13

\* The parser has come to an end: its socket, or the one that took its place, is uncorked.
LEMMA ReadEndKeeps == ASSUME IInv, NEW c \in Sockets, ReadEnd(c) PROVE IInv'
<1> DEFINE u == IF Top.mode = "stop" /\ loop.upgraded # NoSocket THEN loop.upgraded ELSE c
           k == sock[u]
           m(w) == IF Top.mode = "parse" THEN ClosedIfDone(Armed(w)) ELSE w.k
           l2 == loop'
<1>1. /\ AtTop("read", c) /\ Top.mode \in {"parse", "stop"} /\ stack' = Below /\ UNCHANGED <<calls, closed, log>>
  BY DEF ReadEnd, Parsing
<1>2. PICK w \in Uncorked(u, k) :
        /\ sock' = [sock EXCEPT ![u] = m(w)]
        /\ loop' = [w.loop EXCEPT !.parsing = FALSE, !.upgraded = IF Top.mode = "stop" THEN NoSocket ELSE @]
  BY DEF ReadEnd
<1>3. /\ sock \in [Sockets -> Socket] /\ loop \in Shared /\ calls \in 0 .. MaxCalls /\ closed \in BOOLEAN
      /\ log \in [Sockets -> Seq(Events)] /\ Global
  BY Pieces
<1>4. /\ Top.kind = "read" /\ Frames(stack) = {Top} /\ Below = <<>> /\ Top.socket = c
      /\ Top.mode # "stop" => sock[c].status = "http"
      /\ Without({"upgradesOthers"}) /\ loop.corked # NoSocket => loop.corked = c
      /\ Without({"upgradesOthers"}) /\ loop.upgraded # NoSocket => loop.upgraded = c
      /\ Without({"upgradesOthers"}) /\ Top.mode = "stop" => sock[c].status # "http"
  BY <1>1, AloneIs
<1>5. u \in Sockets /\ (Without({"upgradesOthers"}) => u = c) /\ (Top.mode = "parse" => u = c)
  BY <1>3, <1>4 DEF Shared
<1>6. k \in Socket /\ Sound(k, u, Frames(stack), closed, loop, log[u])
  BY <1>5, Pieces
<1>7. Outcome(u, w) /\ Corked(w) # u
  BY <1>3, <1>5, <1>6, UncorkedIs
<1>8. w.loop \in Shared /\ Passes(u, loop, w.loop)
  BY <1>7 DEF Outcome, Passes
<1>9. /\ loop' \in Shared /\ loop'.corked = Corked(w) /\ loop'.bytes = w.loop.bytes /\ ~loop'.parsing
      /\ loop'.upgraded = IF Top.mode = "stop" THEN NoSocket ELSE loop.upgraded
  <2> DEFINE v == w.loop
             e == IF Top.mode = "stop" THEN NoSocket ELSE v.upgraded
  <2>1. v \in Shared /\ v.upgraded = loop.upgraded /\ loop' = [v EXCEPT !.parsing = FALSE, !.upgraded = e]
    BY <1>2, <1>8 DEF Passes
  <2>2. e \in Sockets \cup {NoSocket}
    BY <2>1 DEF Shared
  <2>3. e = IF Top.mode = "stop" THEN NoSocket ELSE loop.upgraded
    BY <2>1
  <2> HIDE DEF v, e
  <2>4. /\ loop' \in Shared /\ loop'.corked = v.corked /\ loop'.bytes = v.bytes /\ loop'.parsing = FALSE
        /\ loop'.upgraded = e
    BY <2>1, <2>2 DEF Shared
  <2> QED BY <2>3, <2>4 DEF v, Corked
<1>10. stack' = <<>> /\ Frames(stack') = {} /\ Nested(stack') /\ stack' \in Seq(AnyFrame)
  BY <1>1, <1>4, FewFrames
<1>11. \A d \in Sockets : SameCalls(d, Frames(stack), Frames(stack'))
  BY <1>4, <1>10 DEF SameCalls, Has
<1>12. /\ \A d \in Sockets \ {u} : SameCork(d, loop, loop')
       /\ loop'.bytes => loop'.corked # NoSocket
  <2>1. /\ \A d \in Sockets \ {u} : SameCork(d, loop, w.loop)
        /\ w.loop.bytes => w.loop.corked # NoSocket
    BY <1>3, <1>5, <1>8, PassesOthers DEF Global
  <2> QED BY <1>9, <2>1 DEF SameCork, Corked
<1>13. Without({"upgradesOthers"}) => loop'.corked = NoSocket /\ loop'.upgraded = NoSocket
  <2>1. ASSUME Without({"upgradesOthers"}) PROVE loop'.corked = NoSocket
    <3>1. Corked(w) # NoSocket => Corked(w) = loop.corked
      BY <1>8 DEF Passes, Corked
    <3> QED BY <1>4, <1>5, <1>7, <1>9, <2>1, <3>1
  <2>2. ASSUME Without({"upgradesOthers"}) PROVE loop'.upgraded = NoSocket
    <3>1. loop.upgraded # NoSocket => sock[loop.upgraded].status # "http"
      BY <1>3, <2>2 DEF Global, Lending
    <3> QED BY <1>4, <1>9, <2>2, <3>1
  <2> QED BY <2>1, <2>2
<1>14. Global'
  <2>1. Reading' /\ Closing' /\ Ending' /\ Corking'
    BY <1>10 DEF Reading, Closing, Ending, Corking
  <2>2. Without({"upgradesOthers"}) => Lending'
    BY <1>10, <1>13 DEF Lending
  <2>3. Without({"upgradesOthers"})' <=> Without({"upgradesOthers"})
    BY DEF Without
  <2> QED BY <1>9, <1>10, <1>12, <2>1, <2>2, <2>3 DEF Global
<1>15. sock[c] = k \/ u # c
  OBVIOUS
<1>16. l2.corked = Corked(w)
  BY <1>9
<1> HIDE DEF l2, k, u
<1>17. m(w) \in Socket /\ Sound(m(w), u, Frames(stack'), closed, l2, log[u])
  <2>1. CASE Top.mode = "parse"
    <3>1. Settles(k, Armed(w)) /\ (Polls(k, u, loop) => Polls(Armed(w), u, l2))
      BY <1>3, <1>5, <1>6, <1>16, UncorkSettles
    <3>2. k.status = "http" /\ m(w) = ClosedIfDone(Armed(w))
      BY <1>4, <1>5, <1>15, <2>1
    <3>3. SameCalls(u, Frames(stack), Frames(stack'))
      BY <1>5, <1>11
    <3> QED BY <1>6, <3>1, <3>2, <3>3, SettlesSound
  <2>2. CASE Top.mode = "stop"
    <3>1. Settles(k, w.k) /\ (Polls(k, u, loop) => Polls(w.k, u, l2))
      BY <1>3, <1>5, <1>6, <1>16, UncorkSettles
    <3>2. m(w) = w.k /\ w.k.status = k.status /\ w.k \in Socket
      BY <2>2, <3>1 DEF Settles
    <3>3. SameCalls(u, Frames(stack), Frames(stack'))
      BY <1>5, <1>11
    <3>4. Without({"upgradesOthers"}) => Ends(w.k, u, l2)
      BY <1>4, <1>5, <1>15, <2>2, <3>2 DEF Ends
    <3> QED BY <1>6, <3>1, <3>2, <3>3, <3>4, SettlesSound
  <2> QED BY <1>1, <2>1, <2>2
<1> DEFINE n == m(w)
<1>18. sock' = [sock EXCEPT ![u] = n] /\ n \in Socket /\ Sound(n, u, Frames(stack'), closed', loop', log'[u])
  BY <1>1, <1>2, <1>17 DEF l2
<1> HIDE DEF n, m
<1> QED BY <1>1, <1>3, <1>5, <1>9, <1>10, <1>11, <1>12, <1>14, <1>18, Changes

-----------------------------------------------------------------------------
(* The theorems.                                                           *)

\* The invariant holds at the start.
LEMMA InitInv == Init => IInv
<1> SUFFICES ASSUME Init PROVE IInv
  OBVIOUS
<1>1. /\ 0 \in 0 .. MaxRequests /\ 0 \in 0 .. MaxBody /\ 0 \in 0 .. BodySize /\ 0 \in 0 .. Placeholder
      /\ 0 \in 0 .. MaxCalls /\ 0 # Placeholder
  BY HttpAssumption DEF Placeholder
<1>2. Opened \in Socket
  BY <1>1 DEF Opened, Socket
<1>3. sock \in [Sockets -> Socket] /\ \A c \in Sockets : sock[c] = Opened
  BY <1>2 DEF Init
<1>4. loop \in Shared /\ loop.corked = NoSocket /\ ~loop.bytes /\ ~loop.parsing /\ loop.upgraded = NoSocket
  BY DEF Init, Shared
<1>5. stack = <<>> /\ stack \in Seq(AnyFrame) /\ Frames(stack) = {} /\ Nested(stack)
  BY FewFrames DEF Init
<1>6. log \in [Sockets -> Seq(Events)] /\ \A c \in Sockets : log[c] = <<>>
  BY DEF Init
<1>7. calls \in 0 .. MaxCalls /\ closed \in BOOLEAN
  BY <1>1 DEF Init
<1>8. Typed
  BY <1>3, <1>4, <1>5, <1>6, <1>7, TypedIs
<1>9. Global
  BY <1>4, <1>5 DEF Global, Reading, Closing, Ending, Corking, Lending
<1>10. ASSUME NEW c \in Sockets PROVE Sound(sock[c], c, Frames(stack), closed, loop, log[c])
  <2> DEFINE k == sock[c]
  <2>1. /\ k.status = "http" /\ k.timer /\ ~k.buffered /\ ~k.paused /\ ~k.pending /\ ~k.last /\ ~k.head
        /\ k.onWritable = 0 /\ k.wanted = 0 /\ k.onAborted = 0 /\ ~k.tellsJS /\ k.inStream = 0 /\ k.handles = {}
    BY <1>3 DEF Opened
  <2>2. Kept(k, c, {}, closed)
    BY <1>1, <2>1 DEF Kept
  <2>3. Fed(k, c, {}) /\ Timely(k) /\ Polls(k, c, loop) /\ Ends(k, c, loop) /\ Told(k, log[c])
    BY <1>6, <2>1 DEF Fed, Timely, Polls, Ends, ReadyToClose, Told
  <2> HIDE DEF k
  <2>4. Sound(k, c, Frames(stack), closed, loop, log[c])
    BY <1>5, <2>2, <2>3 DEF Sound
  <2> QED BY <2>4 DEF k
<1> QED BY <1>8, <1>9, <1>10 DEF IInv

\* Every step keeps it.
LEMMA StepKeeps == IInv /\ [Next]_vars => IInv'
<1> SUFFICES ASSUME IInv, [Next]_vars PROVE IInv'
  OBVIOUS
<1>1. ASSUME NEW c \in Sockets, End(c) \/ EndWithoutBody(c) \/ TryEnd(c) \/ Write(c) \/ OnWritable(c) \/ OnAborted(c) \/ OnData(c)
      PROVE  IInv'
  BY <1>1, EndKeeps, EndWithoutBodyKeeps, TryEndKeeps, WriteKeeps, OnWritableKeeps, OnAbortedKeeps, OnDataKeeps
<1>2. ASSUME NEW c \in Sockets, Pause(c) \/ Resume(c) \/ Close(c) \/ Cork(c) \/ Upgrade(c)
      PROVE  IInv'
  BY <1>2, PauseKeeps, ResumeKeeps, CloseKeeps, CorkKeeps, UpgradeKeeps
<1>3. CASE Call
  BY <1>1, <1>2, <1>3, AppCloseKeeps DEF Call
<1>4. ASSUME NEW c \in Sockets, ReadBegin(c) \/ Request(c) \/ Refuse(c) \/ RequestReturn(c) \/ Data(c) \/ DataReturn(c)
      PROVE  IInv'
  BY <1>4, ReadBeginKeeps, RequestKeeps, RefuseKeeps, RequestReturnKeeps, DataKeeps, DataReturnKeeps
<1>5. ASSUME NEW c \in Sockets, ParseError(c) \/ ReadEnd(c) \/ Drain(c) \/ Writable(c) \/ WritableReturn(c)
      PROVE  IInv'
  BY <1>5, ParseErrorKeeps, ReadEndKeeps, DrainKeeps, WritableKeeps, WritableReturnKeeps
<1>6. ASSUME NEW c \in Sockets, AbortedReturn(c) \/ OpenReturn(c) \/ CorkReturn(c) \/ Lost(c) \/ AppCloseStep(c)
      PROVE  IInv'
  BY <1>6, AbortedReturnKeeps, OpenReturnKeeps, CorkReturnKeeps, LostKeeps, AppCloseStepKeeps
<1>7. CASE UNCHANGED vars
  BY <1>7 DEF vars, IInv, Typed, TypeOK, Global, Reading, Closing, Ending, Corking, Lending, Top
<1> QED BY <1>3, <1>4, <1>5, <1>6, <1>7, AppCloseReturnKeeps DEF Next

\* The invariant holds of every behaviour of the server.
THEOREM Inductive == Spec => []IInv
BY InitInv, StepKeeps, PTL DEF Spec

\* What the invariant says of the properties.
LEMMA Invariants ==
  /\ IInv => TypeOK /\ HandlerKept /\ NoStaleHandle
  /\ Without({"upgradesOthers"}) /\ IInv => Returned /\ CloseHonoured
  /\ Without({"registersLate"}) /\ IInv => BodyToOwner
  /\ Without(Untimed) /\ IInv => IdleTimed
  /\ Without(Unpolls) /\ IInv => DrainPolled
<1> SUFFICES ASSUME IInv
             PROVE  /\ TypeOK /\ HandlerKept /\ NoStaleHandle
                    /\ Without({"upgradesOthers"}) => Returned /\ CloseHonoured
                    /\ Without({"registersLate"}) => BodyToOwner
                    /\ Without(Untimed) => IdleTimed
                    /\ Without(Unpolls) => DrainPolled
  OBVIOUS
<1>1. /\ sock \in [Sockets -> Socket] /\ loop \in Shared /\ stack \in Seq(AnyFrame) /\ Nested(stack) /\ Global
      /\ \A c \in Sockets : Sound(sock[c], c, Frames(stack), closed, loop, log[c])
      /\ \A c \in Sockets : Kept(sock[c], c, Frames(stack), closed)
  BY Pieces
<1>2. TypeOK
  BY DEF IInv, Typed
<1>3. \A c, kind : Has(Frames(stack), c, kind) => OnStack(c, kind)
  BY DEF Has, OnStack, Frames
<1>4. HandlerKept
  BY <1>1, <1>3 DEF HandlerKept, Kept
<1>5. NoStaleHandle
  <2> SUFFICES ASSUME NEW c \in Sockets, sock[c].handles # {}
               PROVE  /\ sock[c].handles = {sock[c].request}
                      /\ (sock[c].status = "http" /\ sock[c].pending) \/ (closed /\ OnStack(c, "request"))
    BY DEF NoStaleHandle
  <2> QED BY <1>1, <1>3 DEF Kept
<1>6. ASSUME Without({"upgradesOthers"}) PROVE AtRest
  <2> SUFFICES ASSUME stack = <<>> PROVE loop.corked = NoSocket /\ loop.upgraded = NoSocket /\ ~loop.parsing
    BY DEF AtRest
  <2>1. Frames(stack) = {} /\ ~Lent(stack, loop.corked)
    BY FewFrames, LentNever
  <2> QED BY <1>1, <1>6, <2>1 DEF Global, Lending, Has
<1>7. ASSUME Without({"upgradesOthers"}) PROVE CloseHonoured
  <2> SUFFICES ASSUME stack = <<>>, NEW c \in Sockets, sock[c].status = "http", sock[c].last, ~sock[c].pending
               PROVE  sock[c].buffered
    BY DEF CloseHonoured
  <2>1. loop.corked # c
    BY <1>6, <1>7, HttpAssumption DEF AtRest
  <2>2. Ends(sock[c], c, loop)
    BY <1>1, <1>7 DEF Sound
  <2> QED BY <2>1, <2>2 DEF Ends, ReadyToClose
<1>8. ASSUME Without({"registersLate"}) PROVE BodyToOwner
  <2> SUFFICES ASSUME stack # <<>>, Top.kind = "data" PROVE Top.handler = sock[Top.socket].request
    BY DEF BodyToOwner
  <2>1. Top \in Frames(stack)
    BY <1>1, PopFrames DEF Top
  <2>2. Top.socket \in Sockets
    <3>1. PICK i \in DOMAIN stack : stack[i] = Top
      BY <2>1 DEF Frames
    <3> QED BY <1>1, <3>1 DEF Nested
  <2>3. Fed(sock[Top.socket], Top.socket, Frames(stack))
    BY <1>1, <1>8, <2>2 DEF Sound
  <2> QED BY <2>1, <2>3 DEF Fed
<1>9. ASSUME Without(Untimed) PROVE IdleTimed
  <2> SUFFICES ASSUME NEW c \in Sockets, sock[c].status = "http", ~sock[c].timer PROVE sock[c].pending /\ Holds(c)
    BY DEF IdleTimed
  <2>1. Timely(sock[c])
    BY <1>1, <1>9 DEF Sound
  <2> QED BY <2>1 DEF Timely, Holds
<1>10. ASSUME Without(Unpolls) PROVE DrainPolled
  <2> SUFFICES ASSUME NEW c \in Sockets, sock[c].status = "http", sock[c].buffered
               PROVE  "write" \in sock[c].poll \/ sock[c].paused
    BY DEF DrainPolled
  <2>1. Polls(sock[c], c, loop)
    BY <1>1, <1>10 DEF Sound
  <2> QED BY <2>1 DEF Polls
<1> QED BY <1>2, <1>4, <1>5, <1>6, <1>7, <1>8, <1>9, <1>10 DEF Returned

\* Whatever the application and its clients do, in whatever order: a handle that
\* still reaches a response is that of the request under way, on a connection
\* that is open (or that app.close() closed within the request handler itself),
\* so no call ever reaches the response of another request or a socket that is gone.
THEOREM HandlesAreFresh == Spec => []NoStaleHandle
BY Inductive, Invariants, PTL

\* The onWritable handler that callOnWritable has borrowed comes back, unless
\* the application set another or the response is over; the cork buffer, the
\* parser and the note of an upgrade are given back before the loop goes on.
THEOREM LentIsReturned == ASSUME Without({"upgradesOthers"}) PROVE Spec => []Returned
<1>1. IInv => Returned
  BY Invariants
<1> QED BY <1>1, Inductive, PTL

\* No data handler is called with the body of another request.
THEOREM BodyReachesOwner == ASSUME Without({"registersLate"}) PROVE Spec => []BodyToOwner
<1>1. IInv => BodyToOwner
  BY Invariants
<1> QED BY <1>1, Inductive, PTL

\* Every open connection the application does not have to answer has its timeout
\* armed, between events.
THEOREM IdleIsTimed == ASSUME Without(Untimed) PROVE Spec => []IdleTimed
<1>1. IInv => IdleTimed
  BY Invariants
<1> QED BY <1>1, Inductive, PTL

\* A connection with backpressure is polled for writable events until it is
\* drained, unless the application has paused it.
THEOREM BackpressureIsPolled == ASSUME Without(Unpolls) PROVE Spec => []DrainPolled
<1>1. IInv => DrainPolled
  BY Invariants
<1> QED BY <1>1, Inductive, PTL

\* "Connection: close" is honoured once the response is complete and sent,
\* whether the write, the uncork or the drain sends the last of it.
THEOREM CloseIsHonoured == ASSUME Without({"upgradesOthers"}) PROVE Spec => []CloseHonoured
<1>1. IInv => CloseHonoured
  BY Invariants
<1> QED BY <1>1, Inductive, PTL

-----------------------------------------------------------------------------
(* Refinement.                                                             *)

\* What an open connection answers is the request it was told last.
LEMMA ToldIs ==
  ASSUME Without({"upgradesClose"}), IInv, NEW c \in Sockets, sock[c].status = "http"
  PROVE  IF sock[c].pending THEN Abstract!Begun(c) ELSE ~Abstract!Begun(c) /\ ~Abstract!Over(c)
<1>1. Told(sock[c], log[c])
  BY Pieces DEF Sound
<1> QED BY <1>1 DEF Told, Abstract!Begun, Abstract!Over

\* A response that is complete answers the request that was begun.
LEMMA AnswerImplements ==
  ASSUME Without({"upgradesClose"}), IInv, NEW c \in Sockets, sock[c].status = "http", NEW u, log' = Answered(c, u)
  PROVE  [Abstract!Next]_log
<1>1. CASE sock[c].pending /\ ~u.pending
  <2>1. Abstract!Begun(c)
    BY <1>1, ToldIs
  <2>2. Abstract!Then(c, "answered")
    BY <1>1 DEF Answered, Abstract!Then
  <2> QED BY <2>1, <2>2 DEF Abstract!Answer, Abstract!Next
<1>2. CASE ~(sock[c].pending /\ ~u.pending)
  BY <1>2 DEF Answered
<1> QED BY <1>1, <1>2

\* A connection that is closed while a response is open loses that request.
LEMMA LossImplements ==
  ASSUME Without({"upgradesClose"}), IInv, NEW c \in Sockets, log' = Losing(c)
  PROVE  [Abstract!Next]_log
<1>1. CASE sock[c].status = "http" /\ sock[c].pending
  <2>1. Abstract!Begun(c)
    BY <1>1, ToldIs
  <2>2. Abstract!Then(c, "aborted") \/ Abstract!Then(c, "dropped")
    BY <1>1 DEF Losing, Abstract!Then
  <2> QED BY <2>1, <2>2 DEF Abstract!Lose, Abstract!Next
<1>2. CASE ~(sock[c].status = "http" /\ sock[c].pending)
  BY <1>2 DEF Losing
<1> QED BY <1>1, <1>2

\* A request is dispatched when the one before is settled.
LEMMA RequestImplements ==
  ASSUME Without({"upgradesClose"}), IInv, NEW c \in Sockets, Request(c)
  PROVE  [Abstract!Next]_log
<1>1. /\ AtTop("read", c) /\ Top.mode = "parse" /\ ~sock[c].pending
      /\ log' = [log EXCEPT ![c] = Append(@, "request")]
  BY DEF Request, Parsing, TooEarly
<1>2. sock[c].status = "http"
  BY <1>1, AloneIs
<1>3. ~Abstract!Begun(c) /\ ~Abstract!Over(c)
  BY <1>1, <1>2, ToldIs
<1>4. Abstract!Then(c, "request")
  BY <1>1 DEF Abstract!Then
<1> QED BY <1>3, <1>4 DEF Abstract!Begin, Abstract!Next

\* An upgrade settles the request it upgrades, if its connection was not to
\* close after the response.
LEMMA UpgradeImplements ==
  ASSUME Without({"upgradesClose"}), IInv, NEW c \in Sockets, Upgrade(c)
  PROVE  [Abstract!Next]_log
<1> DEFINE k == sock[c]
           a == [sock[c] EXCEPT !.handles = {}]
           e(w) == [log EXCEPT ![c] = IF w.loop.corked # c /\ ReadyToClose(MarkDone(w.k))
                                    THEN @ \o <<"answered", "upgraded">> ELSE Append(@, "upgraded")]
<1>1. PICK w \in Written(c, a) : log' = e(w)
  BY DEF Upgrade
<1>2. k.status = "http" /\ Holds(c) /\ ~k.last
  <2>1. EndsNow(c) /\ (k.last => "upgradesClose" \in Scenarios)
    BY DEF Upgrade
  <2> QED BY <2>1, Writing DEF EndsNow, Without
<1>3. k \in Socket /\ k.pending
  BY <1>2, Held
<1>4. loop \in Shared
  BY Pieces
<1>5. a \in Socket /\ a.last = k.last
  BY <1>3, FreedIs DEF Freed
<1>6. w.k \in Sent(a)
  BY <1>4, <1>5, WrittenIs
<1>7. w.k \in Socket /\ ~w.k.last
  BY <1>2, <1>5, <1>6, SentIs DEF Alike
<1>8. ~ReadyToClose(MarkDone(w.k))
  BY <1>7, MarkDoneIs DEF ReadyToClose
<1>9. Abstract!Then(c, "upgraded")
  BY <1>1, <1>8 DEF Abstract!Then
<1>10. Abstract!Begun(c)
  BY <1>2, <1>3, ToldIs
<1> QED BY <1>9, <1>10 DEF Abstract!Lose, Abstract!Next

\* A call of the application.
LEMMA CallImplements ==
  ASSUME Without({"upgradesClose"}), IInv, Call
  PROVE  [Abstract!Next]_log
<1>1. ASSUME NEW c \in Sockets, End(c) PROVE [Abstract!Next]_log
  <2>1. sock[c].status = "http" /\ \E u : log' = Answered(c, u)
    BY <1>1 DEF End, EndsNow, WritesNow
  <2> QED BY <2>1, AnswerImplements
<1>2. ASSUME NEW c \in Sockets, TryEnd(c) PROVE [Abstract!Next]_log
  <2>1. sock[c].status = "http" /\ \E u : log' = Answered(c, u)
    BY <1>2 DEF TryEnd, EndsNow, WritesNow
  <2> QED BY <2>1, AnswerImplements
<1>6. ASSUME NEW c \in Sockets, EndWithoutBody(c) PROVE [Abstract!Next]_log
  <2>1. sock[c].status = "http" /\ \E u : log' = Answered(c, u)
    BY <1>6 DEF EndWithoutBody, EndsNow, WritesNow
  <2> QED BY <2>1, AnswerImplements
<1>3. ASSUME NEW c \in Sockets, Close(c) PROVE [Abstract!Next]_log
  <2>1. log' = Losing(c)
    BY <1>3 DEF Close
  <2> QED BY <2>1, LossImplements
<1>4. ASSUME NEW c \in Sockets, Write(c) \/ OnWritable(c) \/ OnAborted(c) \/ OnData(c) \/ Pause(c) \/ Resume(c) \/ Cork(c)
      PROVE  UNCHANGED log
  BY <1>4 DEF Write, OnWritable, OnAborted, OnData, Pause, Resume, Cork
<1>5. AppClose => UNCHANGED log
  BY DEF AppClose
<1> QED BY <1>1, <1>2, <1>3, <1>4, <1>5, <1>6, UpgradeImplements DEF Call

\* A connection hands its requests over one at a time, settles each once and
\* has nothing to say after its end, as Exchanges requires.
THEOREM ExchangesImplemented == ASSUME Without({"upgradesClose"}) PROVE Spec => ImplementsExchanges
<1>1. Init => Abstract!Init
  BY DEF Init, Abstract!Init
<1>2. IInv /\ [Next]_vars => [Abstract!Next]_log
  <2> SUFFICES ASSUME IInv, [Next]_vars PROVE [Abstract!Next]_log
    OBVIOUS
  <2>1. CASE Call
    BY <2>1, CallImplements
  <2>2. ASSUME NEW c \in Sockets, Refuse(c) \/ ParseError(c) \/ Lost(c) \/ AppCloseStep(c)
        PROVE  [Abstract!Next]_log
    <3>1. log' = Losing(c)
      BY <2>2 DEF Refuse, ParseError, Lost, AppCloseStep
    <3> QED BY <3>1, LossImplements
  <2>3. ASSUME NEW c \in Sockets, RequestReturn(c) PROVE [Abstract!Next]_log
    <3>1. log' = Losing(c) \/ log' = log
      BY <2>3 DEF RequestReturn
    <3> QED BY <3>1, LossImplements
  <2>4. ASSUME NEW c \in Sockets, ReadBegin(c) \/ Data(c) \/ DataReturn(c) \/ ReadEnd(c) \/ Drain(c)
        PROVE  UNCHANGED log
    BY <2>4 DEF ReadBegin, Data, DataReturn, ReadEnd, Drain
  <2>5. ASSUME NEW c \in Sockets,
               Writable(c) \/ WritableReturn(c) \/ AbortedReturn(c) \/ OpenReturn(c) \/ CorkReturn(c)
        PROVE  UNCHANGED log
    BY <2>5 DEF Writable, WritableReturn, AbortedReturn, OpenReturn, CorkReturn
  <2>6. AppCloseReturn \/ UNCHANGED vars => UNCHANGED log
    BY DEF AppCloseReturn, vars
  <2> QED BY <2>1, <2>2, <2>3, <2>4, <2>5, <2>6, RequestImplements DEF Next
<1> QED BY <1>1, <1>2, Inductive, PTL DEF Spec, ImplementsExchanges, Abstract!Spec

=============================================================================
