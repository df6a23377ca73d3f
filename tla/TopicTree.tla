----------------------------- MODULE TopicTree -----------------------------
(***************************************************************************)
(* The publish/subscribe core of the library: src/native/uwebsockets/      *)
(* TopicTree.h, with the way WebSocket.h and App.h drive it.               *)
(*                                                                         *)
(* Everything runs on one thread.  What makes the code hard is re-entry:   *)
(* draining a subscriber calls WebSocket::send, send may find the socket   *)
(* over its backpressure limit and call the application's dropped handler, *)
(* and that handler may call back into the tree that is being walked.  The *)
(* C++ call stack is therefore the variable "stack", newest frame first;   *)
(* application code runs when the stack is empty (some event handler) or   *)
(* when the newest frame is a dropped handler, and everything between two  *)
(* points where application code can run is one step or a few.             *)
(*                                                                         *)
(* A Subscriber is identified with its WebSocket.  Message contents are    *)
(* abstracted to the position of the publish or send call in call order.   *)
(***************************************************************************)
EXTENDS Integers, Sequences, FiniteSets

CONSTANTS
  Subscribers,    \* addresses of Subscriber objects (malloc may reuse one)
  Topics,         \* topic names
  NoSub,          \* the null Subscriber *
  NoTopic,        \* the null Topic *
  MaxIndices,     \* capacity of messageIndices, 32 in the code
  MaxOutgoing,    \* UINT16_MAX in the code
  MaxCalls,       \* bound: publish and send calls of a behaviour
  MaxDeferred,    \* bound: length of pendingOps
  MaxHandlers,    \* bound: dropped handlers nested in one another
  Applications    \* what applications call from their dropped handler

Calls == {"subscribe", "unsubscribe", "publish", "send", "end", "close"}

ASSUME TopicTreeAssumption ==
  /\ NoSub \notin Subscribers
  /\ NoTopic \notin Topics
  /\ IsFiniteSet(Subscribers)
  /\ MaxIndices \in Nat \ {0}
  /\ MaxOutgoing \in Nat \ {0}
  /\ MaxCalls \in Nat
  /\ MaxDeferred \in Nat
  /\ MaxHandlers \in Nat
  /\ Applications \subseteq SUBSET Calls

VARIABLES
  status,         \* is the Subscriber allocated, and is it queued for delete
  topicsOf,       \* Subscriber::topics
  members,        \* the unordered_set a Topic is
  topics,         \* the names in TopicTree::topics
  indices,        \* messageIndices[0 .. numMessageIndices - 1]
  prev, next,     \* the links of the drainable list
  drainable,      \* drainableSubscribers, the head of that list
  outgoing,       \* outgoingMessages
  drainingDepth,
  iteratingTopic,
  pending,
  applying,
  pendingFree,
  pendingOps,
  stack,          \* the C++ call stack, newest frame first
  lastCall,       \* publish and send calls so far: names the messages
  full,           \* sockets whose backpressure exceeds maxBackpressure
  delivered,      \* history: messages written to each WebSocket
  fault,          \* undefined behaviour the code has run into, if any
  handlerCalls    \* the application this is: never changes

treeVars  == <<status, topicsOf, members, topics>>
listVars  == <<indices, prev, next, drainable>>
deferVars == <<pending, pendingFree, pendingOps>>
nested    == <<drainingDepth, iteratingTopic, applying>>
sockets   == <<lastCall, full, delivered>>
vars == <<treeVars, listVars, outgoing, deferVars, nested, stack, sockets, fault,
          handlerCalls>>

-----------------------------------------------------------------------------
(* Frames of the call stack.                                               *)

Message == 1 .. MaxCalls

Handles == {"dropped", "send", "drain"}           \* frames for one WebSocket
Walks   == {"publishStart", "publish", "publishBig"}
Drains  == {"drain", "drainAll", "publish", "publishBig"}  \* count in drainingDepth

FrameRecord ==
  [kind : Handles \cup Walks \cup Drains \cup {"apply"},
   sub  : Subscribers \cup {NoSub},   \* drained, sent to, or the sender
   topic: Topics \cup {NoTopic},
   msg  : 0 .. MaxCalls,
   todo : SUBSET Subscribers,         \* members still to be visited
   left : Seq(Nat),                   \* indices drainImpl has not sent
   cur  : Subscribers \cup {NoSub},   \* publish: the one being drained
                                      \* drainAll: the saved next
   used : BOOLEAN,                    \* referencedMessage
   op   : Nat]                        \* apply: position in pendingOps

Frame == {f \in FrameRecord :
            /\ f.kind \in Handles \/ f.left # <<>> => f.sub \in Subscribers
            /\ f.kind \in Walks => f.topic \in Topics
            /\ f.kind = "apply" => f.op > 0}

Blank(kind) == [kind |-> kind, sub |-> NoSub, topic |-> NoTopic, msg |-> 0,
                todo |-> {}, left |-> <<>>, cur |-> NoSub, used |-> FALSE, op |-> 0]

DroppedFrame(s) == [Blank("dropped") EXCEPT !.sub = s]
SendFrame(s, m) == [Blank("send") EXCEPT !.sub = s, !.msg = m]
DrainFrame(s)   == [Blank("drain") EXCEPT !.sub = s, !.left = indices[s]]
ApplyFrame      == [Blank("apply") EXCEPT !.op = 1]

Idle     == stack = <<>>
Running(kind) == stack # <<>> /\ Head(stack).kind = kind
Push(f)  == <<f>> \o stack
Below    == Tail(stack)
Top(f)   == <<f>> \o Below

\* Application code runs in any event handler or in a dropped handler.
MayCall(c) == Idle \/ (Running("dropped") /\ c \in handlerCalls)

HandlerDepth == Cardinality({i \in DOMAIN stack : stack[i].kind = "dropped"})

-----------------------------------------------------------------------------
(* Membership.                                                             *)

Live(s)        == status[s] = "live"
WasFreed(s)    == status[s] = "doomed"
Detached(s, t) == WasFreed(s) \/ t \notin topicsOf[s]

Op(kind, s, t) == [kind |-> kind, sub |-> s, topic |-> t, msg |-> 0]

SubscribePending(t, from) ==
  \E i \in from .. Len(pendingOps) :
    pendingOps[i].kind = "subscribe" /\ pendingOps[i].topic = t

DeferOp(op) ==
  /\ pendingOps' = Append(pendingOps, op)
  /\ pending' = TRUE

\* Variant: the last one out always removes the topic.
EraseEmptyTopic(s, t, from) ==
  /\ members' = [members EXCEPT ![t] = @ \ {s}]
  /\ topics' = IF members[t] \subseteq {s} THEN topics \ {t} ELSE topics

\* eraseFromTopic: the last one out removes the topic, unless a subscription
\* to it is still queued.
EraseFromTopic(s, t, from) ==
  /\ members' = [members EXCEPT ![t] = @ \ {s}]
  /\ topics' = IF members[t] \subseteq {s} /\ ~(pending /\ SubscribePending(t, from))
               THEN topics \ {t} ELSE topics

NumSubscribers(t) ==
  Cardinality(members[t])
    + Cardinality({i \in DOMAIN pendingOps : pendingOps[i].kind = "subscribe" /\ pendingOps[i].topic = t})
    - Cardinality({i \in DOMAIN pendingOps : pendingOps[i].kind = "unsubscribe" /\ pendingOps[i].topic = t})

\* Variant: changes to the topic being iterated are made at once.
NeverDeferred(t) == FALSE

\* The topic a publish is iterating must not change under it.
Deferred(t) == t = iteratingTopic

\* WebSocket::subscribe creates the Subscriber on first use.  The WebSocket may
\* have backpressure by then: an upgrade keeps that of the HTTP socket.
Subscribe(s, t) ==
  /\ MayCall("subscribe")
  /\ status[s] # "doomed"
  /\ t \notin topicsOf[s]
  /\ status' = [status EXCEPT ![s] = "live"]
  /\ IF Live(s) THEN UNCHANGED <<full, delivered>>
     ELSE /\ delivered' = [delivered EXCEPT ![s] = <<>>]
          /\ full' \in {full, full \cup {s}}
  /\ topics' = topics \cup {t}
  /\ topicsOf' = [topicsOf EXCEPT ![s] = @ \cup {t}]
  /\ \/ /\ Deferred(t)
        /\ Len(pendingOps) < MaxDeferred
        /\ DeferOp(Op("subscribe", s, t))
        /\ UNCHANGED <<members, pendingFree>>
     \/ /\ ~Deferred(t)
        /\ members' = [members EXCEPT ![t] = @ \cup {s}]
        /\ UNCHANGED deferVars
  /\ UNCHANGED <<listVars, outgoing, nested, stack, lastCall, fault>>

Unsubscribe(s, t) ==
  /\ MayCall("unsubscribe")
  /\ Live(s)
  /\ t \in topicsOf[s]
  /\ topicsOf' = [topicsOf EXCEPT ![s] = @ \ {t}]
  /\ \/ /\ Deferred(t)
        /\ Len(pendingOps) < MaxDeferred
        /\ DeferOp(Op("unsubscribe", s, t))
        /\ UNCHANGED <<members, topics, pendingFree>>
     \/ /\ ~Deferred(t)
        /\ EraseFromTopic(s, t, 1)
        /\ UNCHANGED deferVars
  /\ UNCHANGED <<status, listVars, outgoing, nested, stack, sockets, fault>>

-----------------------------------------------------------------------------
(* The list of drainable subscribers, and leaving a draining section.      *)

NeedsDrainage(s) == indices[s] # <<>>

HeadWithout(s) == IF drainable = s THEN next[s] ELSE drainable

Unlink(s) ==
  /\ next' = IF prev[s] # NoSub THEN [next EXCEPT ![prev[s]] = next[s]] ELSE next
  /\ prev' = IF next[s] # NoSub THEN [prev EXCEPT ![next[s]] = prev[s]] ELSE prev
  /\ drainable' = HeadWithout(s)

LinkFirst(s) ==
  /\ next' = [next EXCEPT ![s] = drainable]
  /\ prev' = [n \in Subscribers |-> IF n = s THEN NoSub
                                    ELSE IF n = drainable THEN s ELSE prev[n]]
  /\ drainable' = s

\* Variant: a draining section is not counted.
EnterUncounted == UNCHANGED drainingDepth

EnterDraining == drainingDepth' = drainingDepth + 1

\* Variant: the outermost section forgets what was deferred.
LeaveWithoutApplying(rest) ==
  /\ drainingDepth' = drainingDepth - 1
  /\ stack' = rest
  /\ UNCHANGED applying

\* leaveDraining: the outermost section applies what was deferred.
LeaveDraining(rest) ==
  LET applyPending == drainingDepth = 1 /\ pending /\ ~applying
  IN  /\ drainingDepth' = drainingDepth - 1
      /\ applying' = (applying \/ applyPending)
      /\ stack' = IF applyPending THEN <<ApplyFrame>> \o rest
                  ELSE rest

\* drain(s) up to its first callback.  numMessageIndices is zeroed before any
\* callback so that the send in the callback does not drain again.
BeginDrain(s, rest) ==
  /\ EnterDraining
  /\ Unlink(s)
  /\ indices' = [indices EXCEPT ![s] = <<>>]
  /\ stack' = <<DrainFrame(s)>> \o rest

Draining == Running("drain") \/ Running("drainAll")

\* A write may take the socket's backpressure over the limit.
Written(s, msgs) ==
  /\ delivered' = [delivered EXCEPT ![s] = @ \o msgs]
  /\ full' \in {full, full \cup {s}}

\* drainImpl calls back with the next message: it is written (or buffered),
\* or the socket is over maxBackpressure and its dropped handler runs, after
\* which the remaining messages are given up.
DrainMessage ==
  /\ Draining
  /\ Head(stack).left # <<>>
  /\ LET f == Head(stack)
         i == Head(f.left)
     IN  IF i < Len(outgoing)
         THEN /\ \/ /\ f.sub \notin full
                    /\ Written(f.sub, <<outgoing[i + 1]>>)
                    /\ stack' = Top([f EXCEPT !.left = Tail(@)])
                 \/ /\ f.sub \in full
                    /\ stack' = <<DroppedFrame(f.sub)>> \o Top([f EXCEPT !.left = <<>>])
                    /\ UNCHANGED <<full, delivered>>
              /\ UNCHANGED fault
         ELSE /\ fault' = "outgoingMessages read past its end"
              /\ UNCHANGED <<stack, full, delivered>>
  /\ UNCHANGED <<treeVars, listVars, outgoing, deferVars, nested, lastCall>>

\* Variant: the queue is cleared although others refer into it.
ClearQueue(head) == <<>>

\* The queue is given up once nobody is in the list.
ClearIfUnused(head) == IF head = NoSub THEN <<>> ELSE outgoing

FinishDrain ==
  /\ Running("drain")
  /\ Head(stack).left = <<>>
  /\ outgoing' = ClearIfUnused(drainable)
  /\ LeaveDraining(Below)
  /\ UNCHANGED <<treeVars, listVars, deferVars, iteratingTopic, sockets, fault>>

\* drain() of the whole list, from the loop's pre and post handlers (App.h
\* 376-386) or from a publish that finds the queue full.  It walks a saved
\* next pointer: callbacks may unlink the current or the following entries.
DrainAllFrame == [Blank("drainAll") EXCEPT !.cur = drainable]

LoopDrain ==
  /\ Idle
  /\ drainable # NoSub
  /\ EnterDraining
  /\ stack' = Push(DrainAllFrame)
  /\ UNCHANGED <<treeVars, listVars, outgoing, deferVars, iteratingTopic,
                 applying, sockets, fault>>

DrainNext ==
  /\ Running("drainAll")
  /\ Head(stack).left = <<>>
  /\ Head(stack).cur # NoSub
  /\ LET s == Head(stack).cur
     IN  /\ stack' = Top([Head(stack) EXCEPT !.cur = next[s], !.sub = s,
                                             !.left = IF WasFreed(s) THEN <<>> ELSE indices[s]])
         /\ indices' = IF WasFreed(s) THEN indices ELSE [indices EXCEPT ![s] = <<>>]
  /\ UNCHANGED <<treeVars, prev, next, drainable, outgoing, deferVars, nested,
                 sockets, fault>>

FinishDrainAll ==
  /\ Running("drainAll")
  /\ Head(stack).left = <<>>
  /\ Head(stack).cur = NoSub
  /\ drainable' = NoSub
  /\ outgoing' = <<>>
  /\ LeaveDraining(Below)
  /\ UNCHANGED <<treeVars, indices, prev, next, deferVars, iteratingTopic,
                 sockets, fault>>

\* The dropped handler returns and WebSocket::send answers DROPPED.  In a
\* drain the callback then uncorks (App.h 355-362), which may flush.
HandlerReturn ==
  /\ Running("dropped")
  /\ stack' = Below
  /\ \/ UNCHANGED full
     \/ /\ Below # <<>>
        /\ Below[1].kind \in {"drain", "drainAll"}
        /\ full' = full \ {Head(stack).sub}
  /\ UNCHANGED <<treeVars, listVars, outgoing, deferVars, nested, lastCall,
                 delivered, fault>>

-----------------------------------------------------------------------------
(* WebSocket::send, end and close.                                         *)

\* Variant: the send does not drain first.
NeverBehind(s) == FALSE

\* Messages published to s are still to be written.
Behind(s) == NeedsDrainage(s)

\* send of message m on top of the frames "rest": dropped before anything
\* else when the socket is over its limit; otherwise what was published to it
\* earlier is drained first "to stay synced".
BeginSend(s, m, rest) ==
  \/ /\ s \in full
     /\ stack' = <<DroppedFrame(s)>> \o rest
     /\ UNCHANGED <<listVars, drainingDepth>>
  \/ /\ s \notin full
     /\ IF Behind(s) THEN BeginDrain(s, <<SendFrame(s, m)>> \o rest)
        ELSE /\ stack' = <<SendFrame(s, m)>> \o rest
             /\ UNCHANGED <<listVars, drainingDepth>>

Send(s) ==
  /\ MayCall("send")
  /\ Live(s)
  /\ lastCall < MaxCalls
  /\ HandlerDepth < MaxHandlers
  /\ lastCall' = lastCall + 1
  /\ BeginSend(s, lastCall + 1, stack)
  /\ UNCHANGED <<treeVars, outgoing, deferVars, iteratingTopic, applying, full,
                 delivered, fault>>

\* The rest of send, after the drain; the socket may have been closed by a
\* dropped handler meanwhile, and then AsyncSocket::write has nowhere to go.
FinishSend ==
  /\ Running("send")
  /\ LET f == Head(stack)
     IN  IF Live(f.sub) THEN Written(f.sub, <<f.msg>>) ELSE UNCHANGED <<full,
                                                                        delivered>>
  /\ stack' = Below
  /\ UNCHANGED <<treeVars, listVars, outgoing, deferVars, nested, lastCall,
                 fault>>

\* Variant: the size is compared with one too many.
LeftByNearlyAll(s) == {t \in topicsOf[s] : Cardinality(members[t]) <= 2}

LeftByAll(s) == {t \in topicsOf[s] : Cardinality(members[t]) = 1}

\* destroySubscriber for an unlinked s: leave every topic, removing those
\* whose size is one, and delete s.
Destroy(s) ==
  /\ members' = [t \in Topics |-> IF t \in LeftByAll(s) THEN {}
                                  ELSE IF t \in topicsOf[s] THEN members[t] \ {s}
                                  ELSE members[t]]
  /\ topics' = topics \ LeftByAll(s)
  /\ topicsOf' = [topicsOf EXCEPT ![s] = {}]
  /\ status' = [status EXCEPT ![s] = "none"]

\* freeSubscriber, called when the socket closes: at once, or deferred while
\* a drain, a publish or an applyPending is on the call stack.
FreeSubscriber(s) ==
  /\ IF NeedsDrainage(s) THEN Unlink(s) ELSE UNCHANGED <<prev, next, drainable>>
  /\ indices' = [indices EXCEPT ![s] = <<>>]
  /\ IF drainingDepth > 0 \/ applying
     THEN /\ pendingFree' = Append(pendingFree, s)
          /\ status' = [status EXCEPT ![s] = "doomed"]
          /\ pending' = TRUE
          /\ UNCHANGED <<topicsOf, members, topics, pendingOps>>
     ELSE Destroy(s) /\ UNCHANGED deferVars

\* ws.close(), the connection is lost, or ws.end() drains nothing.
Close(s) ==
  /\ MayCall("close") \/ (MayCall("end") /\ (s \in full \/ ~NeedsDrainage(s)))
  /\ Live(s)
  /\ FreeSubscriber(s)
  /\ full' = full \ {s}
  /\ UNCHANGED <<outgoing, nested, stack, lastCall, delivered, fault>>

\* ws.end() with published messages waiting on a socket under its limit: the
\* close frame is sent, so they are drained first, without a dropped handler
\* because the socket is shutting down; "kept" of them fit.  Then it is freed.
\* (Otherwise nothing is drained, and end frees the subscriber as Close does.)
End(s) ==
  /\ MayCall("end")
  /\ Live(s)
  /\ NeedsDrainage(s)
  /\ s \notin full
  /\ IF \A i \in DOMAIN indices[s] : indices[s][i] < Len(outgoing)
     THEN \E kept \in 1 .. Len(indices[s]) :
            /\ delivered' = [delivered EXCEPT ![s] =
                               @ \o [i \in 1 .. kept |-> outgoing[indices[s][i] + 1]]]
            /\ FreeSubscriber(s)
            /\ outgoing' = ClearIfUnused(drainable')
            /\ UNCHANGED fault
     ELSE /\ fault' = "outgoingMessages read past its end"
          /\ UNCHANGED <<treeVars, listVars, outgoing, deferVars, delivered>>
  /\ UNCHANGED <<nested, stack, lastCall, full>>

\* The loop reports s writable and its backpressure has gone down.
Writable(s) ==
  /\ Idle
  /\ s \in full
  /\ full' = full \ {s}
  /\ UNCHANGED <<treeVars, listVars, outgoing, deferVars, nested, stack,
                 lastCall, delivered, fault>>

-----------------------------------------------------------------------------
(* publish, publishBig and applyPending.                                   *)

PublishFrame(kind, sender, t, m) ==
  [Blank(kind) EXCEPT !.sub = sender, !.topic = t, !.msg = m]

\* publish outside of any draining section, up to its first callback: a full
\* queue is drained first.  The caller has looked the topic up already.
BeginPublish(sender, t, m, rest) ==
  LET start == <<PublishFrame("publishStart", sender, t, m)>> \o rest
  IN  IF Len(outgoing) >= MaxOutgoing /\ drainable # NoSub
      THEN /\ stack' = <<DrainAllFrame>> \o start
           /\ EnterDraining
      ELSE /\ stack' = start
           /\ UNCHANGED drainingDepth

\* app.publish (sender NoSub) or ws.publish.  Inside a draining section the
\* publish is deferred.
Publish(sender, t) ==
  /\ MayCall("publish")
  /\ sender # NoSub => Live(sender)
  /\ t \in topics
  /\ lastCall < MaxCalls
  /\ lastCall' = lastCall + 1
  /\ \/ /\ drainingDepth > 0
        /\ Len(pendingOps) < MaxDeferred
        /\ DeferOp([Op("publish", sender, t) EXCEPT !.msg = lastCall + 1])
        /\ UNCHANGED <<pendingFree, drainingDepth, stack>>
     \/ /\ drainingDepth = 0
        /\ BeginPublish(sender, t, lastCall + 1, stack)
        /\ UNCHANGED deferVars
  /\ UNCHANGED <<treeVars, listVars, outgoing, iteratingTopic, applying, full,
                 delivered, fault>>

\* A message of at least the cork buffer's size is sent to every member at
\* once; App.h and WebSocket.h only take this path outside of draining.
PublishBig(sender, t) ==
  /\ MayCall("publish")
  /\ sender # NoSub => Live(sender)
  /\ t \in topics
  /\ drainingDepth = 0
  /\ lastCall < MaxCalls
  /\ lastCall' = lastCall + 1
  /\ EnterDraining
  /\ iteratingTopic' = t
  /\ stack' = Push([PublishFrame("publishBig", sender, t, lastCall + 1)
                      EXCEPT !.todo = members[t]])
  /\ UNCHANGED <<treeVars, listVars, outgoing, deferVars, applying, full,
                 delivered, fault>>

\* publish enters its loop over the topic it looked up before the drain.
StartIterating ==
  /\ Running("publishStart")
  /\ LET f == Head(stack)
     IN  IF f.topic \in topics
         THEN /\ EnterDraining
              /\ iteratingTopic' = f.topic
              /\ stack' = Top([f EXCEPT !.kind = "publish", !.todo = members[f.topic]])
              /\ UNCHANGED fault
         ELSE /\ fault' = "iteration over a deleted topic"
              /\ UNCHANGED <<drainingDepth, iteratingTopic, stack>>
  /\ UNCHANGED <<treeVars, listVars, outgoing, deferVars, applying, sockets>>

Skipped(f, s) == s = f.sub \/ (pending /\ Detached(s, f.topic))

\* The index is a uint16_t.
NextIndex == Len(outgoing) % (MaxOutgoing + 1)

\* Variant: the subscriber is linked on its second index.
LinksLate(s) == Len(indices[s]) = 1

LinksNow(s) == ~NeedsDrainage(s)

Reference(f, s) ==
  /\ indices' = [indices EXCEPT ![s] = Append(@, NextIndex)]
  /\ IF LinksNow(s) THEN LinkFirst(s) ELSE UNCHANGED <<prev, next, drainable>>
  /\ stack' = Top([f EXCEPT !.todo = @ \ {s}, !.cur = NoSub, !.used = TRUE])

\* One round of publish's loop; the order of an unordered_set is arbitrary.
\* A full subscriber is drained first, and looked at again after the drain.
PublishVisit ==
  /\ Running("publish")
  /\ LET f == Head(stack)
     IN  \E s \in f.todo :
           /\ f.cur \in {NoSub, s}
           /\ \/ /\ Skipped(f, s)
                 /\ stack' = Top([f EXCEPT !.todo = @ \ {s}, !.cur = NoSub])
                 /\ UNCHANGED <<listVars, drainingDepth>>
              \/ /\ ~Skipped(f, s)
                 /\ Len(indices[s]) = MaxIndices
                 /\ BeginDrain(s, Top([f EXCEPT !.cur = s]))
              \/ /\ ~Skipped(f, s)
                 /\ Len(indices[s]) < MaxIndices
                 /\ Reference(f, s)
                 /\ UNCHANGED drainingDepth
  /\ UNCHANGED <<treeVars, outgoing, deferVars, iteratingTopic, applying,
                 sockets, fault>>

FinishPublish ==
  /\ Running("publish")
  /\ Head(stack).todo = {}
  /\ iteratingTopic' = NoTopic
  /\ outgoing' = IF Head(stack).used THEN Append(outgoing, Head(stack).msg) ELSE outgoing
  /\ LeaveDraining(Below)
  /\ UNCHANGED <<treeVars, listVars, deferVars, sockets, fault>>

\* publishBig sends to one member after the other.
PublishBigVisit ==
  /\ Running("publishBig")
  /\ LET f == Head(stack)
     IN  \E s \in f.todo :
           LET rest == Top([f EXCEPT !.todo = @ \ {s}])
           IN  IF Skipped(f, s)
               THEN /\ stack' = rest
                    /\ UNCHANGED <<listVars, drainingDepth>>
               ELSE BeginSend(s, f.msg, rest)
  /\ UNCHANGED <<treeVars, outgoing, deferVars, iteratingTopic, applying,
                 sockets, fault>>

FinishPublishBig ==
  /\ Running("publishBig")
  /\ Head(stack).todo = {}
  /\ iteratingTopic' = NoTopic
  /\ LeaveDraining(Below)
  /\ UNCHANGED <<treeVars, listVars, outgoing, deferVars, sockets, fault>>

\* applyPending takes the deferred calls in call order; what they defer in
\* turn is appended and taken in the same loop.  An applied entry is nulled.
ApplyOp ==
  /\ Running("apply")
  /\ LET f  == Head(stack)
         op == pendingOps[f.op]
         rest == Top([f EXCEPT !.op = @ + 1])
     IN  /\ f.op <= Len(pendingOps)
         /\ pendingOps' = [pendingOps EXCEPT ![f.op].kind = "applied"]
         /\ \/ /\ op.kind = "subscribe"
               /\ members' = [members EXCEPT ![op.topic] = @ \cup {op.sub}]
               /\ stack' = rest
               /\ UNCHANGED <<topics, drainingDepth>>
            \/ /\ op.kind = "unsubscribe"
               /\ EraseFromTopic(op.sub, op.topic, f.op + 1)
               /\ stack' = rest
               /\ UNCHANGED drainingDepth
            \/ /\ op.kind = "publish"
               /\ IF op.topic \in topics
                  THEN BeginPublish(op.sub, op.topic, op.msg, rest)
                  ELSE stack' = rest /\ UNCHANGED drainingDepth
               /\ UNCHANGED <<members, topics>>
  /\ UNCHANGED <<status, topicsOf, listVars, outgoing, pending, pendingFree,
                 iteratingTopic, applying, sockets, fault>>

\* freePendingSubscribers, one subscriber at a time, once no call is left.
FreePending ==
  /\ Running("apply")
  /\ Head(stack).op > Len(pendingOps)
  /\ pendingFree # <<>>
  /\ Destroy(Head(pendingFree))
  /\ pendingFree' = Tail(pendingFree)
  /\ UNCHANGED <<listVars, outgoing, pending, pendingOps, nested, stack,
                 sockets, fault>>

FinishApply ==
  /\ Running("apply")
  /\ Head(stack).op > Len(pendingOps)
  /\ pendingFree = <<>>
  /\ pendingOps' = <<>>
  /\ pending' = FALSE
  /\ applying' = FALSE
  /\ stack' = Below
  /\ UNCHANGED <<treeVars, listVars, outgoing, pendingFree, drainingDepth,
                 iteratingTopic, sockets, fault>>

-----------------------------------------------------------------------------
Init ==
  /\ status = [s \in Subscribers |-> "none"]
  /\ topicsOf = [s \in Subscribers |-> {}]
  /\ members = [t \in Topics |-> {}]
  /\ topics = {}
  /\ indices = [s \in Subscribers |-> <<>>]
  /\ prev = [s \in Subscribers |-> NoSub]
  /\ next = [s \in Subscribers |-> NoSub]
  /\ drainable = NoSub
  /\ outgoing = <<>>
  /\ drainingDepth = 0
  /\ iteratingTopic = NoTopic
  /\ pending = FALSE
  /\ applying = FALSE
  /\ pendingFree = <<>>
  /\ pendingOps = <<>>
  /\ stack = <<>>
  /\ lastCall = 0
  /\ full = {}
  /\ delivered = [s \in Subscribers |-> <<>>]
  /\ fault = "none"
  /\ handlerCalls \in Applications

\* What the application does.
Application ==
  \/ \E s \in Subscribers, t \in Topics : Subscribe(s, t) \/ Unsubscribe(s, t)
  \/ \E s \in Subscribers \cup {NoSub}, t \in Topics : Publish(s, t) \/ PublishBig(s, t)
  \/ \E s \in Subscribers : Send(s) \/ Close(s) \/ End(s)

\* What the library does once it has been called.
Library ==
  \/ DrainMessage \/ FinishDrain \/ DrainNext \/ FinishDrainAll \/ FinishSend
  \/ StartIterating \/ PublishVisit \/ FinishPublish
  \/ PublishBigVisit \/ FinishPublishBig
  \/ ApplyOp \/ FreePending \/ FinishApply

\* Nothing is said of executions past undefined behaviour.
Step(Action) == fault = "none" /\ Action /\ UNCHANGED handlerCalls

Loop == LoopDrain \/ \E s \in Subscribers : Writable(s)

Next == Step(Application \/ Library \/ HandlerReturn \/ Loop)

Spec == Init /\ [][Next]_vars

\* The library's steps follow from one another, application handlers return,
\* and the event loop keeps draining (it is only reached between handlers).
Fairness ==
  /\ WF_vars(Step(Library))
  /\ SF_vars(Step(HandlerReturn))
  /\ SF_vars(Step(LoopDrain))

FairSpec == Spec /\ Fairness

-----------------------------------------------------------------------------
(* Properties.                                                             *)

Faults == {"none", "outgoingMessages read past its end", "iteration over a deleted topic"}

PendingOp ==
  {op \in [kind : {"subscribe", "unsubscribe", "publish", "applied"},
           sub : Subscribers \cup {NoSub}, topic : Topics, msg : 0 .. MaxCalls] :
     op.kind \in {"subscribe", "unsubscribe"} => op.sub \in Subscribers}

\* Every variable has its type; a subscriber's indices fit their array and
\* their width, and drainingDepth never goes below zero.
TypeOK ==
  /\ status \in [Subscribers -> {"none", "live", "doomed"}]
  /\ topicsOf \in [Subscribers -> SUBSET Topics]
  /\ members \in [Topics -> SUBSET Subscribers]
  /\ topics \in SUBSET Topics
  /\ indices \in [Subscribers -> Seq(0 .. MaxOutgoing)]
  /\ \A s \in Subscribers : Len(indices[s]) <= MaxIndices
  /\ prev \in [Subscribers -> Subscribers \cup {NoSub}]
  /\ next \in [Subscribers -> Subscribers \cup {NoSub}]
  /\ drainable \in Subscribers \cup {NoSub}
  /\ outgoing \in Seq(0 .. MaxCalls)
  /\ drainingDepth \in Nat
  /\ iteratingTopic \in Topics \cup {NoTopic}
  /\ pending \in BOOLEAN
  /\ applying \in BOOLEAN
  /\ pendingFree \in Seq(Subscribers)
  /\ pendingOps \in Seq(PendingOp)
  /\ stack \in Seq(Frame)
  /\ lastCall \in 0 .. MaxCalls
  /\ full \in SUBSET Subscribers
  /\ delivered \in [Subscribers -> Seq(0 .. MaxCalls)]
  /\ fault \in Faults
  /\ handlerCalls \in Applications

\* The deferred calls on the pair (s, t) that are still to be applied.
Queued(s, t) ==
  {i \in DOMAIN pendingOps : /\ pendingOps[i].kind \in {"subscribe", "unsubscribe"}
                             /\ pendingOps[i].sub = s
                             /\ pendingOps[i].topic = t}

\* s is in t when t is in topicsOf[s], or the last deferred call on the pair
\* will make it so.
Agree ==
  \A s \in Subscribers, t \in Topics :
    \/ /\ Queued(s, t) = {}
       /\ s \in members[t] <=> t \in topicsOf[s]
    \/ \E i \in Queued(s, t) :
         /\ \A j \in Queued(s, t) : j <= i
         /\ pendingOps[i].kind = "subscribe" <=> t \in topicsOf[s]

\* numSubscribers looks through what is deferred; it counts the closed sockets
\* not yet freed.
CountsSubscribers ==
  \A t \in Topics :
    NumSubscribers(t) = Cardinality({s \in Subscribers : t \in topicsOf[s]})

\* Subscriber::topics, the topics' sets and numSubscribers agree, whatever is
\* deferred: what "in call order" (types.ts:313) needs of the data structures.
Coherent == Agree /\ CountsSubscribers

\* No pointer outlives what it points to: members, links, queued frees and
\* saved cursors are allocated Subscribers, Subscriber::topics are topics the
\* tree still owns.
NoDanglingPointer ==
  LET allocated == {s \in Subscribers : status[s] # "none"}
  IN  /\ \A t \in Topics : members[t] \subseteq allocated
      /\ \A s \in Subscribers : topicsOf[s] \subseteq topics
      /\ \A s \in Subscribers : topicsOf[s] # {} \/ NeedsDrainage(s) => s \in allocated
      /\ drainable \in allocated \cup {NoSub}
      /\ \A i \in DOMAIN pendingFree : pendingFree[i] \in allocated
      /\ \A i \in DOMAIN pendingOps :
           pendingOps[i].kind \in {"subscribe", "unsubscribe"} =>
             pendingOps[i].sub \in allocated /\ pendingOps[i].topic \in topics
      /\ \A i \in DOMAIN stack :
           stack[i].kind = "drainAll" => stack[i].cur \in allocated \cup {NoSub}

\* The topic a publish is walking is neither changed nor removed under it.
TopicPinned ==
  [][iteratingTopic # NoTopic /\ iteratingTopic' = iteratingTopic =>
       /\ members'[iteratingTopic] = members[iteratingTopic]
       /\ iteratingTopic \in topics']_vars

\* All drainingDepth and flags come back to rest with the call stack.
AtRest ==
  Idle => /\ drainingDepth = 0
          /\ iteratingTopic = NoTopic
          /\ ~pending /\ ~applying
          /\ pendingOps = <<>> /\ pendingFree = <<>>

\* The drain callback never reads a message that is not in the queue.
QueueReadInRange == fault # "outgoingMessages read past its end"

\* publish does not walk a topic that was deleted after it was looked up.
TopicOutlivesPublish == fault # "iteration over a deleted topic"

\* A WebSocket gets what was published and sent to it in call order, nothing
\* twice (the comment "to stay synced", WebSocket.h:119).
DeliveredInCallOrder ==
  \A s \in Subscribers : \A i, j \in DOMAIN delivered[s] :
    i < j => delivered[s][i] < delivered[s][j]

\* Pre and post handlers "empty" the batches (App.h:376-385): a loop iteration
\* starts with a queue somebody waits for, or with an empty one.
QueueEmptied == Idle /\ drainable = NoSub => outgoing = <<>>

\* numSubscribers answers the sockets subscribed to t (types.ts:216).
CountsOpenSockets ==
  \A t \in Topics :
    NumSubscribers(t) = Cardinality({s \in Subscribers : Live(s) /\ t \in topicsOf[s]})

\* Mailbox of s: what an interrupted drain has left, then its indices.  The
\* message of the publish under way has an index before it is in the queue.
Left(s) ==
  LET drains == {i \in DOMAIN stack : stack[i].sub = s /\ stack[i].left # <<>>}
  IN  IF drains = {} THEN <<>> ELSE stack[CHOOSE i \in drains : TRUE].left

current ==
  LET walks == {k \in DOMAIN stack : stack[k].kind = "publish"}
  IN  IF walks = {} THEN 0 ELSE stack[CHOOSE k \in walks : TRUE].msg

Resolve(i) == IF i < Len(outgoing) THEN outgoing[i + 1] ELSE current

mail == [s \in Subscribers |->
           [k \in 1 .. Len(Left(s) \o indices[s]) |-> Resolve((Left(s) \o indices[s])[k])]]

Boxes == INSTANCE Mailboxes

\* Shared queue, indices, early clearing and re-entry together implement one
\* FIFO mailbox per WebSocket.
ImplementsMailboxes == Boxes!Spec

\* Everything published is written or given up in the end.
EverythingDrained == \A s \in Subscribers : mail[s] # <<>> ~> mail[s] = <<>>

=============================================================================
