--------------------------- MODULE WebSocketSend ---------------------------
(***************************************************************************)
(* What a WebSocket does with its AsyncSocket: send, end, cork and close of *)
(* src/native/uwebsockets/WebSocket.h, the socket events of                *)
(* WebSocketContext.h, the drain callback of App.h, and how the loop polls *)
(* for writable (usockets/loop.c).                                         *)
(*                                                                         *)
(* Application code runs between loop events and inside handlers; "stack"  *)
(* holds the functions that wait for it to return, newest first.           *)
(***************************************************************************)
EXTENDS AsyncSocket

CONSTANTS
  Subscribed,      \* the sockets that have a Subscriber
  MaxBackpressure, \* 0: no limit
  Sizes,           \* sizes of the application's messages
  PublishSize,     \* size of published messages; larger ones are sent at once
  Header,          \* size of a frame header
  CloseSize,       \* size of a close frame
  PingSize,        \* size of a ping frame
  MaxBatch,        \* bound: messages published to a socket between two drains
  MaxSent,         \* bound: bytes sent on a socket
  MaxFrames,       \* bound: depth of the stack
  CorkCalls,       \* what the application calls in the function given to cork,
  DrainCalls,      \* in its drain handler,
  DroppedCalls     \* and in its dropped handler

\* drain: a send or an end that finds published messages in front of it.
Calls == {"send", "sendLong", "drain", "publish", "cork", "end", "close"}

ASSUME WebSocketSendAssumption ==
  /\ Subscribed \subseteq Sockets
  /\ MaxBackpressure \in Nat
  /\ Sizes \subseteq Nat
  /\ PublishSize \in Nat
  /\ Header \in Nat \ {0}
  /\ CloseSize \in Nat \ {0}
  /\ PingSize \in Nat \ {0}
  /\ MaxBatch \in Nat
  /\ MaxSent \in Nat
  /\ MaxFrames \in Nat
  /\ CorkCalls \cup DrainCalls \cup DroppedCalls \subseteq Calls

VARIABLES
  io,          \* the state of the AsyncSockets
  ending,      \* isShuttingDown
  timedOut,    \* hasTimedOut
  needsUncork, \* captured by the drain callback, one for all subscribers
  sent,        \* history: bytes the application or the library has sent
  stack,
  fault        \* what terminates the process or is undefined behaviour

vars == <<io, ending, timedOut, needsUncork, sent, stack, fault>>

Faults == {"none", "cork buffer of another socket", "buffer of a closed socket"}

\* consume, cork, writable and dropped wait for application code; send and end
\* wait for the batch on top of them, a batch for the dropped frame on top.
Frame == [kind : {"consume", "cork", "writable", "batch", "dropped", "send", "end"},
          sub  : Sockets,
          left : Nat,        \* batch: messages to go
          first: BOOLEAN,    \* batch: the next message is the first
          size : Nat]        \* send: of the message

Blank(kind, s) == [kind |-> kind, sub |-> s, left |-> 0, first |-> FALSE, size |-> 0]

Idle  == stack = <<>>
Top   == Head(stack)
Below == Tail(stack)
Running(kind) == stack # <<>> /\ Top.kind = kind
OnStack(kind, s) == \E i \in DOMAIN stack : stack[i].kind = kind /\ stack[i].sub = s

CallsIn(kind) == CASE kind = "cork"     -> CorkCalls
                   [] kind = "writable" -> DrainCalls
                   [] kind = "dropped"  -> DroppedCalls
                   [] OTHER             -> Calls

MayCall(c) ==
  /\ Idle \/ \E kind \in {"consume", "cork", "writable", "dropped"} : Running(kind)
  /\ \A i \in DOMAIN stack : c \in CallsIn(stack[i].kind)

\* Variant: a socket that is shutting down is like any other.
LiveIfOpen(s) == s \in io.open

\* The application has a handle to s until it ends or closes it.
Live(s) == s \in io.open /\ s \notin ending

NewBytes(s, n) == [i \in 1 .. n |-> <<s, sent[s] + i>>]

-----------------------------------------------------------------------------
(* WebSocket::send.                                                        *)

OverLimit(s) == MaxBackpressure # 0 /\ MaxBackpressure < GetBufferedAmount(io, s)

Sent(i, status) == [io |-> i, status |-> status]

\* The long path writes header and payload at once, past the cork buffer.
TakesLongPath(i, s, n) ==
  /\ n >= CorkSize
  /\ s \notin Subscribed
  /\ GetBufferedAmount(i, s) = 0
  /\ i.cork = <<>>

SendLong(i, s, frame) ==
  {LET w == Written2(i, s, frame, k)
   IN  IF k = Len(frame) THEN Sent(w, "success")
       ELSE Sent(UncorkWithoutSending(Buffered(w, s, Rest(frame, k)), s), "backpressure") :
   k \in Accepted(i, s, frame)}

SendBuffered(i, s, frame) ==
  LET p == Place(i, s, frame)
  IN  {Sent(o.io, IF o.failed THEN "backpressure" ELSE "success") :
       o \in CASE p.needs = "nothing" -> {Outcome(p.io, FALSE)}
               [] p.needs = "uncork"  -> Uncork(p.io, s, <<>>)
               [] p.needs = "drain"   -> Write(p.io, s, <<>>)}

\* send of a message of n bytes once it is neither dropped nor behind others.
SendFrame(i, s, n, frame) ==
  IF TakesLongPath(i, s, n) THEN SendLong(i, s, frame) ELSE SendBuffered(i, s, frame)

\* Messages published to s that a send on s has to drain first.
Behind(s) ==
  IF s \in Subscribed /\ ~OnStack("batch", s) /\ MayCall("drain") THEN 0 .. MaxBatch ELSE {0}

\* The bound on what is sent leaves room for the batch in front of a message.
Room(s, k, n) == sent[s] + k * (PublishSize + Header) + n <= MaxSent

BatchFrame(s, k) == [Blank("batch", s) EXCEPT !.left = k, !.first = TRUE]

\* A send over the limit is dropped: nothing changes, and its dropped handler
\* can do no more than its caller.
SendMessage(s, n) ==
  /\ MayCall(IF n >= CorkSize THEN "sendLong" ELSE "send")
  /\ Live(s)
  /\ ~OverLimit(s)
  /\ \E k \in Behind(s) :
       /\ Room(s, k, n + Header)
       /\ \/ /\ k = 0
             /\ sent' = [sent EXCEPT ![s] = @ + n + Header]
             /\ \E o \in SendFrame(io, s, n, NewBytes(s, n + Header)) : io' = o.io
             /\ UNCHANGED stack
          \/ /\ k > 0
             /\ Len(stack) + 2 <= MaxFrames
             /\ stack' = <<BatchFrame(s, k), [Blank("send", s) EXCEPT !.size = n]>> \o stack
             /\ UNCHANGED <<io, sent>>
  /\ UNCHANGED <<ending, timedOut, needsUncork, fault>>

\* send goes on after the drain; s may have been closed by a dropped handler.
FinishSend ==
  /\ Running("send")
  /\ LET s == Top.sub
         n == Top.size
     IN  IF s \notin io.open
         THEN /\ fault' = "buffer of a closed socket"
              /\ UNCHANGED <<io, sent>>
         ELSE /\ \E o \in SendFrame(io, s, n, NewBytes(s, n + Header)) : io' = o.io
              /\ sent' = [sent EXCEPT ![s] = @ + n + Header]
              /\ UNCHANGED fault
  /\ stack' = Below
  /\ UNCHANGED <<ending, timedOut, needsUncork>>

-----------------------------------------------------------------------------
(* WebSocket::end, close and cork.                                         *)

\* Variant: FIN whenever the socket is not corked.
FinNowAlways(i, s, status) == i.corked # s

\* "ok" is the send status as a boolean: BACKPRESSURE is 0, DROPPED is 2.
FinNow(i, s, status) == i.corked # s /\ status # "backpressure"

\* The close frame, or its drop, and FIN unless that has to wait.
SendClose(s, outcomes) ==
  \E o \in outcomes :
    /\ io' = IF FinNow(o.io, s, o.status) THEN Shutdown(o.io, s) ELSE o.io
    /\ sent' = IF o.status = "dropped" THEN sent ELSE [sent EXCEPT ![s] = @ + CloseSize]

\* end; on_long_timeout calls it as well.
End(s) ==
  /\ MayCall("end")
  /\ Live(s)
  /\ ending' = ending \cup {s}
  /\ IF OverLimit(s)
     THEN SendClose(s, {Sent(io, "dropped")}) /\ UNCHANGED stack
     ELSE \E k \in Behind(s) :
            /\ Room(s, k, CloseSize)
            /\ \/ /\ k = 0
                  /\ SendClose(s, SendFrame(io, s, 0, NewBytes(s, CloseSize)))
                  /\ UNCHANGED stack
               \/ /\ k > 0
                  /\ Len(stack) + 2 <= MaxFrames
                  /\ stack' = <<BatchFrame(s, k), Blank("end", s)>> \o stack
                  /\ UNCHANGED <<io, sent>>
  /\ UNCHANGED <<timedOut, needsUncork, fault>>

FinishEnd ==
  /\ Running("end")
  /\ SendClose(Top.sub, SendFrame(io, Top.sub, 0, NewBytes(Top.sub, CloseSize)))
  /\ stack' = Below
  /\ UNCHANGED <<ending, timedOut, needsUncork, fault>>

\* close by the application, or by the loop on FIN or an error.
Close(s) ==
  /\ s \in io.open
  /\ Idle \/ (MayCall("close") /\ s \notin ending)
  /\ io' = Closed(io, s)
  /\ ending' = ending \cup {s}
  /\ UNCHANGED <<timedOut, needsUncork, sent, stack, fault>>

\* ws.cork; if the cork buffer is not free its function is simply called.
CorkCall(s) ==
  /\ MayCall("cork")
  /\ Live(s)
  /\ CanCork(io)
  /\ Len(stack) < MaxFrames
  /\ io' = Cork(io, s)
  /\ stack' = <<Blank("cork", s)>> \o stack
  /\ UNCHANGED <<ending, timedOut, needsUncork, sent, fault>>

FinishCork ==
  /\ Running("cork")
  /\ \E o \in Uncork(io, Top.sub, <<>>) : io' = o.io
  /\ stack' = Below
  /\ UNCHANGED <<ending, timedOut, needsUncork, sent, fault>>

-----------------------------------------------------------------------------
(* The drain callback of the TopicTree (App.h).                            *)

\* A drain of s alone: the loop's, or that of a publish that finds no room in
\* the index array of s.  (In a drain publish only defers.)
Batch(s, k) ==
  /\ MayCall("publish")
  /\ Live(s)
  /\ s \in Subscribed
  /\ \A i \in DOMAIN stack : stack[i].kind # "batch"
  /\ Room(s, k, 0)
  /\ Len(stack) < MaxFrames
  /\ stack' = <<BatchFrame(s, k)>> \o stack
  /\ UNCHANGED <<io, ending, timedOut, needsUncork, sent, fault>>

\* Variant: the last message is not noticed.
UncorksNever(f) == FALSE

UncorksAfter(f) == f.left = 1

\* The first message corks if it can, the last one uncorks.
BatchMessage ==
  /\ Running("batch")
  /\ Top.left > 0
  /\ ~OverLimit(Top.sub)
  /\ LET s     == Top.sub
         corks == Top.first /\ CanCork(io)
         start == IF corks THEN Cork(io, s) ELSE io
         last  == Top.left = 1
     IN  /\ needsUncork' = (needsUncork \/ corks)
         /\ \E o \in SendBuffered(start, s, NewBytes(s, PublishSize + Header)) :
              IF UncorksAfter(Top) /\ needsUncork'
              THEN \E u \in Uncork(o.io, s, <<>>) : io' = u.io
              ELSE io' = o.io
         /\ sent' = [sent EXCEPT ![s] = @ + PublishSize + Header]
         /\ stack' = IF last THEN Below
                     ELSE <<[Top EXCEPT !.left = @ - 1, !.first = FALSE]>> \o Below
  /\ UNCHANGED <<ending, timedOut, fault>>

\* A message over the limit is dropped: the dropped handler is called unless
\* the socket is shutting down.
BatchDrops ==
  /\ Running("batch")
  /\ Top.left > 0
  /\ OverLimit(Top.sub)
  /\ Len(stack) < MaxFrames
  /\ LET s     == Top.sub
         corks == Top.first /\ CanCork(io)
     IN  /\ io' = IF corks THEN Cork(io, s) ELSE io
         /\ needsUncork' = (needsUncork \/ corks)
         /\ stack' = LET batch == <<[Top EXCEPT !.left = 0]>> \o Below
                     IN  IF s \in ending THEN batch ELSE <<Blank("dropped", s)>> \o batch
  /\ UNCHANGED <<ending, timedOut, sent, fault>>

DroppedReturn ==
  /\ Running("dropped")
  /\ stack' = Below
  /\ UNCHANGED <<io, ending, timedOut, needsUncork, sent, fault>>

\* After a drop the callback uncorks and the drain is over.
FinishBatch ==
  /\ Running("batch")
  /\ Top.left = 0
  /\ IF needsUncork THEN \E o \in Uncork(io, Top.sub, <<>>) : io' = o.io ELSE UNCHANGED io
  /\ needsUncork' = FALSE
  /\ stack' = Below
  /\ UNCHANGED <<ending, timedOut, sent, fault>>

-----------------------------------------------------------------------------
(* Events of the loop.                                                     *)

\* Data has arrived: cork and call the message handlers.  A socket that is
\* shutting down ignores it.
Consume(s) ==
  /\ Idle
  /\ Live(s)
  /\ timedOut' = timedOut \ {s}
  /\ IF CorkTerminates(io, s)
     THEN fault' = "cork buffer of another socket" /\ UNCHANGED <<io, stack>>
     ELSE /\ io' = Cork(io, s)
          /\ stack' = <<Blank("consume", s)>>
          /\ UNCHANGED fault
  /\ UNCHANGED <<ending, needsUncork, sent>>

\* Variant: FIN is left to the peer.
FinNever(i, s) == i

\* FIN for a socket that is shutting down once nothing is left of it.
FinIfDrained(i, s) ==
  IF s \in ending /\ GetBufferedAmount(i, s) = 0 THEN Shutdown(i, s) ELSE i

FinishConsume ==
  /\ Running("consume")
  /\ \E o \in Uncork(io, Top.sub, <<>>) : io' = FinIfDrained(o.io, Top.sub)
  /\ stack' = Below
  /\ UNCHANGED <<ending, timedOut, needsUncork, sent, fault>>

\* Variant: a failed write is forgotten.
StopPollingAlways(i, s) == IF s \in i.open THEN [i EXCEPT !.polls = @ \ {s}] ELSE i

\* After on_writable the loop stops polling for writable unless a write failed.
StopPolling(i, s) ==
  IF s \in i.open /\ (~i.failed \/ s \in i.shut) THEN [i EXCEPT !.polls = @ \ {s}] ELSE i

\* The kernel has room: on_writable, up to the drain handler.
Writable(s) ==
  /\ Idle
  /\ s \in io.polls
  /\ \E o \in Write([io EXCEPT !.failed = FALSE], s, <<>>) :
       LET before   == GetBufferedAmount(io, s)
           after    == GetBufferedAmount(o.io, s)
           progress == before = 0 \/ before > after
       IN  /\ timedOut' = IF progress THEN timedOut \ {s} ELSE timedOut
           /\ IF progress /\ s \notin ending
              THEN io' = o.io /\ stack' = <<Blank("writable", s)>>
              ELSE io' = StopPolling(FinIfDrained(o.io, s), s) /\ UNCHANGED stack
  /\ UNCHANGED <<ending, needsUncork, sent, fault>>

FinishWritable ==
  /\ Running("writable")
  /\ io' = StopPolling(io, Top.sub)
  /\ stack' = Below
  /\ UNCHANGED <<ending, timedOut, needsUncork, sent, fault>>

\* Nothing was received for idleTimeout seconds: ping, then give up.
Timeout(s) ==
  /\ Idle
  /\ s \in io.open
  /\ IF Live(s) /\ s \notin timedOut
     THEN /\ sent[s] + PingSize <= MaxSent
          /\ timedOut' = timedOut \cup {s}
          /\ \E o \in Write(io, s, NewBytes(s, PingSize)) : io' = o.io
          /\ sent' = [sent EXCEPT ![s] = @ + PingSize]
          /\ UNCHANGED ending
     ELSE /\ io' = Closed(io, s)
          /\ ending' = ending \cup {s}
          /\ UNCHANGED <<timedOut, sent>>
  /\ UNCHANGED <<needsUncork, stack, fault>>

-----------------------------------------------------------------------------
Init ==
  /\ io = [open |-> Sockets, shut |-> {}, polls |-> {}, failed |-> FALSE,
           wire |-> [s \in Sockets |-> <<>>], buffer |-> [s \in Sockets |-> <<>>],
           removed |-> [s \in Sockets |-> 0], corked |-> NoSocket, cork |-> <<>>]
  /\ ending = {}
  /\ timedOut = {}
  /\ needsUncork = FALSE
  /\ sent = [s \in Sockets |-> 0]
  /\ stack = <<>>
  /\ fault = "none"

Application ==
  \E s \in Sockets :
    \/ \E n \in Sizes : SendMessage(s, n)
    \/ \E k \in 1 .. MaxBatch : Batch(s, k)
    \/ End(s) \/ Close(s) \/ CorkCall(s)

Events == \E s \in Sockets : Consume(s) \/ Writable(s) \/ Timeout(s)

Library ==
  FinishSend \/ FinishEnd \/ BatchMessage \/ BatchDrops \/ FinishBatch

\* A handler returns to the function that called it.
Return == FinishConsume \/ FinishCork \/ FinishWritable \/ DroppedReturn

Next == fault = "none" /\ (Application \/ Events \/ Library \/ Return)

Spec == Init /\ [][Next]_vars

\* A socket reported writable takes at least one byte of what is waiting.
TakesSome(s) == Writable(s) /\ (GetBufferedAmount(io, s) > 0 => io'.wire # io.wire)

\* Handlers return and the library goes on; the loop keeps reporting sockets
\* that the kernel has room for (between handlers, hence strong fairness).
Fairness ==
  /\ WF_vars(fault = "none" /\ Library)
  /\ SF_vars(fault = "none" /\ Return)
  /\ \A s \in Sockets : SF_vars(fault = "none" /\ TakesSome(s))

FairSpec == Spec /\ Fairness

-----------------------------------------------------------------------------
(* Properties.                                                             *)

TypeOK ==
  /\ io \in IO
  /\ ending \in SUBSET Sockets
  /\ timedOut \in SUBSET Sockets
  /\ needsUncork \in BOOLEAN
  /\ sent \in [Sockets -> Nat]
  /\ stack \in Seq(Frame)
  /\ fault \in Faults

\* What s has sent and the kernel has not taken, oldest first.
Unsent(s) == io.buffer[s] \o (IF io.corked = s THEN io.cork ELSE <<>>)

\* The three places a byte can be in are one FIFO: nothing is lost, doubled,
\* reordered or written to another socket (AsyncSocket.h:268 "Always drain if
\* possible").
InOrder ==
  \A s \in io.open : io.wire[s] \o Unsent(s) = [i \in 1 .. sent[s] |-> <<s, i>>]

\* Loop.h:62 "After every event loop iteration, we must not hold the cork
\* buffer": nobody holds it, and nothing is in it, between two events.
CorkReleased == Idle => io.corked = NoSocket /\ io.cork = <<>>

\* cork() is never called with bytes of another socket in the buffer.
NoForeignCork == fault # "cork buffer of another socket"

\* The one cork buffer of the loop (Loop.h:62) is given back by whoever took it
\* and lent to one socket at a time: either would terminate the process.
CorkKept == CorkReleased /\ NoForeignCork

\* getBufferedAmount, "the bytes buffered in backpressure" (types.ts:271), is
\* off by no more than its share of bytes that are gone.
BufferedAmountClose ==
  \A s \in Sockets : io.removed[s] * EraseShare <= GetBufferedAmount(io, s)

\* Whatever part of whatever write is taken, every byte sent is written or in
\* one of the places that come before the kernel, in order, and
\* getBufferedAmount counts those that wait.
BytesAccounted == TypeOK /\ InOrder /\ BufferedAmountClose

\* WebSocket::send does not go on with a socket its drain has closed.
NoUseAfterClose == fault # "buffer of a closed socket"

\* A socket with backpressure is polled for writable, or nothing would ever
\* write it (types.ts:289: send answers 0 for "built up backpressure that will
\* drain over time").
BackpressurePolled ==
  Idle => \A s \in io.open \ io.shut : io.buffer[s] # <<>> => s \in io.polls

\* FIN comes after everything that was sent, never in front of it.
FinLast == \A s \in io.shut \cap io.open : Unsent(s) = <<>>

\* An ended socket gets its FIN "if uncork was successful, or when drainage is
\* complete" (WebSocket.h:229).
FinFollowsEnd ==
  Idle => \A s \in io.open \cap ending : s \in io.shut \/ s \in io.polls

\* Nothing is sent on a socket once it has been ended: "Gracefully closes this
\* WebSocket" (types.ts:266).
NothingAfterEnd == [][\A s \in ending : ~OnStack("end", s) => sent'[s] = sent[s]]_vars

\* The function given to cork runs with the socket corked, "packing many sends
\* into one single syscall" (types.ts:264).
CorkHolds == \A i \in DOMAIN stack : stack[i].kind = "cork" => io.corked = stack[i].sub

Streams == INSTANCE ByteStreams WITH
  unsent <- [s \in Sockets |-> IF s \in io.open THEN Unsent(s) ELSE <<>>],
  wire <- io.wire, open <- io.open, finished <- io.shut

\* Every WebSocket implements a byte stream that ends after its last byte.
ImplementsStreams == Streams!Spec

\* An ended WebSocket gets its FIN.
EndedFinishes == \A s \in Sockets : s \in ending ~> s \in io.shut \/ s \notin io.open

=============================================================================
