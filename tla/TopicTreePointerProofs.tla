----------------------- MODULE TopicTreePointerProofs -----------------------
(***************************************************************************)
(* TopicTree keeps its pointers: the list of drainable subscribers, the    *)
(* cursors saved by drains, and what subscribers and topics say of each    *)
(* other, whatever is deferred.                                            *)
(***************************************************************************)
EXTENDS TopicTreeProofs, WellFoundedInduction

\* No application takes a subscription back, makes it again and publishes, all
\* from its dropped handlers: that breaks "in call order" (types.ts:313).
KeepsOrder == \A calls \in Applications : ~({"subscribe", "unsubscribe", "publish"} \subseteq calls)

-----------------------------------------------------------------------------
(* The inductive invariant.                                                *)

\* Frames that are only pushed outside of draining sections.
Grounds == {"apply", "publishStart", "drainAll", "publish", "publishBig"}

Grounded(st) ==
  \A i, j \in 1 .. Len(st) : st[i].kind \in Grounds /\ i < j => st[j].kind \notin Drains

\* Where the walks over the list are, what publishes have not visited yet, and
\* where applyPending is.
Frames(st)  == {st[i] : i \in 1 .. Len(st)}
Cursors(st) == {f.cur : f \in {g \in Frames(st) : g.kind = "drainAll"}}
Positions(st) == {f.op : f \in {g \in Frames(st) : g.kind = "apply"}}
ToVisit(st) == UNION {f.todo : f \in {g \in Frames(st) : g.kind \in Iterations}}

\* Addresses that malloc may not hand out again, and the subscribers with
\* messages to drain.
Allocated == {s \in Subscribers : status[s] # "none"}
Waiting   == {s \in Subscribers : NeedsDrainage(s)}

\* V is a list in the order r of its elements, of which those of N still need
\* drainage.  A link may lead past elements that are drained already, never past
\* one of N: what comes after p is q, what comes before p is q, and a walk that
\* begins at p meets all of N.
After(V, N, r, p, q) ==
  IF q = NoSub THEN \A n \in N : r[n] <= r[p]
  ELSE q \in V /\ r[p] < r[q] /\ \A n \in N : r[n] <= r[p] \/ r[q] <= r[n]

Before(V, N, r, p, q) ==
  IF q = NoSub THEN \A n \in N : r[p] <= r[n]
  ELSE q \in V /\ r[q] < r[p] /\ \A n \in N : r[n] <= r[q] \/ r[p] <= r[n]

From(V, N, r, p) == IF p = NoSub THEN N = {} ELSE p \in V /\ \A n \in N : r[p] <= r[n]

Ordered(V, N, r, nx, pv, first) ==
  /\ N \subseteq V
  /\ \A p, q \in V : r[p] = r[q] => p = q
  /\ \A p \in V : After(V, N, r, p, nx[p])
  /\ \A p \in N : Before(V, N, r, p, pv[p])
  /\ From(V, N, r, first)

\* The list of the drainable subscribers.  While drain() walks it, it may hold
\* some that are drained, and links out of it may be saved (C).
Linked(C, A, N, nx, pv, first) ==
  \E V \in SUBSET A, r \in [Subscribers -> Int] :
    /\ Ordered(V, N, r, nx, pv, first)
    /\ V = N \/ C # {}
    /\ \A c \in C : From(V, N, r, c)

ListInv == Linked(Cursors(stack), Allocated, Waiting, next, prev, drainable)

\* A freed subscriber is queued once, only live ones have something to drain,
\* and one that is not allocated is in no topic.
FreedInv ==
  /\ \A s \in Subscribers :
       status[s] = "doomed" <=> \E i \in 1 .. Len(pendingFree) : pendingFree[i] = s
  /\ \A i, j \in 1 .. Len(pendingFree) : pendingFree[i] = pendingFree[j] => i = j
  /\ \A s \in Subscribers : status[s] # "live" => indices[s] = <<>>
  /\ \A s \in Subscribers : status[s] = "none" => topicsOf[s] = {}

\* What a publish still has to visit is allocated.
VisitInv == ToVisit(stack) \subseteq Allocated

Moves == {"subscribe", "unsubscribe"}

\* The deferred calls Q of one subscriber on one topic make it from a member (m)
\* or not a subscriber (n) or not, one after the other.
Alternate(ops, Q, m, n) ==
  /\ Q = {} => (m <=> n)
  /\ \A i \in Q : (\A j \in Q : i <= j) => (ops[i].kind = "unsubscribe" <=> m)
  /\ \A i \in Q : (\A j \in Q : j <= i) => (ops[i].kind = "subscribe" <=> n)
  /\ \A i, j \in Q : i < j /\ (\A k \in Q : k <= i \/ j <= k) => ops[i].kind # ops[j].kind

Matched(s, t) ==
  Alternate(pendingOps, Queued(s, t), s \in members[t], t \in topicsOf[s])

MemberInv == \A s \in Subscribers, t \in Topics : Matched(s, t)

\* Deferred calls and Subscriber::topics are about subscribers and topics that
\* exist.
QueueInv ==
  /\ \A i \in 1 .. Len(pendingOps) :
       pendingOps[i].kind \in Moves =>
         status[pendingOps[i].sub] # "none" /\ pendingOps[i].topic \in topics
  /\ \A s \in Subscribers : topicsOf[s] \subseteq topics

\* What applyPending has passed is applied.
AppliedInv ==
  \A o \in Positions(stack) :
    /\ o <= Len(pendingOps) + 1
    /\ \A i \in 1 .. Len(pendingOps) : i < o => pendingOps[i].kind = "applied"

\* Which calls can be deferred together.
CallsInv ==
  /\ \A kind \in Moves : kind \notin handlerCalls =>
       \A i \in 1 .. Len(pendingOps) : pendingOps[i].kind # kind
  /\ "publish" \notin handlerCalls =>
       /\ applying => Running("apply")
       /\ \A i \in 1 .. Len(pendingOps) :
            /\ pendingOps[i].kind # "publish"
            /\ pendingOps[i].kind \in Moves => applying \/ pendingOps[i].topic = iteratingTopic

PointerInv ==
  /\ Grounded(stack) /\ ListInv /\ FreedInv /\ VisitInv
  /\ MemberInv /\ QueueInv /\ AppliedInv /\ CallsInv /\ CountsSubscribers

-----------------------------------------------------------------------------
(* Natural numbers.                                                        *)

\* A well-founded order that contains < has a least element in every set.
LEMMA LeastOf ==
  ASSUME NEW S \in SUBSET Nat, S # {}, NEW R, IsWellFoundedOn(R, Nat),
         \A m, n \in Nat : m < n => <<m, n>> \in R
  PROVE  \E m \in S : \A n \in S : m <= n
<1> DEFINE Least(T) == \E m \in T : \A n \in T : ~(<<n, m>> \in R)
<1>0. Least(S)
  BY ONLY S \in SUBSET Nat, S # {}, IsWellFoundedOn(R, Nat), WFMin
<1>1. PICK m \in S : \A n \in S : ~(<<n, m>> \in R)
  BY <1>0
<1>2. \A n \in S : ~(n < m)
  BY <1>1
<1> QED BY <1>2

\* Every set of naturals that is not empty has a least element.
LEMMA LeastNatural ==
  ASSUME NEW S \in SUBSET Nat, S # {}
  PROVE  \E m \in S : \A n \in S : m <= n
<1> DEFINE R == OpToRel(<, Nat)
<1>1. IsWellFoundedOn(R, Nat)
  BY NatLessThanWellFounded
<1>2. \A m, n \in Nat : m < n => <<m, n>> \in R
  BY DEF OpToRel
<1> HIDE DEF R
<1> QED BY <1>1, <1>2, LeastOf

\* And a greatest one, if it is bounded.
LEMMA GreatestNatural ==
  ASSUME NEW S \in SUBSET Nat, S # {}, NEW b \in Nat, \A n \in S : n <= b
  PROVE  \E m \in S : \A n \in S : n <= m
<1> DEFINE U == {n \in Nat : \A k \in S : k <= n}
<1>1. PICK m \in U : \A n \in U : m <= n
  BY LeastNatural
<1>2. m \in S
  <2> SUFFICES ASSUME m \notin S PROVE FALSE
    OBVIOUS
  <2>1. \A k \in S : k <= m - 1 /\ m - 1 \in Nat
    OBVIOUS
  <2>2. m - 1 \in U
    BY <2>1
  <2> QED BY <1>1, <2>2
<1> QED BY <1>1, <1>2

-----------------------------------------------------------------------------
(* The stack.                                                              *)

\* Pushing a frame on a grounded stack.
LEMMA GroundedPush ==
  ASSUME NEW st \in Seq(Frame), NEW f \in Frame
  PROVE  Grounded(<<f>> \o st) <=> Grounded(st) /\ (f.kind \in Grounds => Count(Drains, st) = 0)
<1> DEFINE up == <<f>> \o st
<1>0. /\ Len(up) = Len(st) + 1 /\ Len(st) \in Nat
      /\ up[1] = f
      /\ \A i \in 1 .. Len(st) : up[i + 1] = st[i]
  BY PushElements
<1> HIDE DEF up
<1>1. ASSUME Grounded(up) PROVE Grounded(st)
  <2>1. ASSUME NEW i \in 1 .. Len(st), NEW j \in 1 .. Len(st), st[i].kind \in Grounds, i < j
        PROVE  st[j].kind \notin Drains
    <3>1. /\ i + 1 \in 1 .. Len(up) /\ j + 1 \in 1 .. Len(up) /\ i + 1 < j + 1
          /\ up[i + 1] = st[i] /\ up[j + 1] = st[j]
      BY <1>0, <2>1
    <3> QED BY <1>1, <2>1, <3>1 DEF Grounded
  <2> QED BY <2>1 DEF Grounded
<1>2. ASSUME Grounded(up), f.kind \in Grounds PROVE Count(Drains, st) = 0
  <2>1. ASSUME NEW j \in 1 .. Len(st) PROVE st[j].kind \notin Drains
    <3>1. 1 \in 1 .. Len(up) /\ j + 1 \in 1 .. Len(up) /\ 1 < j + 1 /\ up[j + 1] = st[j]
      BY <1>0
    <3> QED BY <1>0, <1>2, <3>1 DEF Grounded
  <2> QED BY <2>1, ZeroCount
<1>3. ASSUME Grounded(st), f.kind \in Grounds => Count(Drains, st) = 0 PROVE Grounded(up)
  <2>1. ASSUME NEW i \in 1 .. Len(up), NEW j \in 1 .. Len(up), up[i].kind \in Grounds, i < j
        PROVE  up[j].kind \notin Drains
    <3>1. j - 1 \in 1 .. Len(st) /\ up[j] = st[j - 1]
      BY <1>0, <2>1
    <3>2. CASE i = 1
      BY <1>0, <1>3, <2>1, <3>1, <3>2, CountZero
    <3>3. CASE i # 1
      <4>1. i - 1 \in 1 .. Len(st) /\ up[i] = st[i - 1] /\ i - 1 < j - 1
        BY <1>0, <2>1, <3>3
      <4> QED BY <1>3, <2>1, <3>1, <4>1 DEF Grounded
    <3> QED BY <3>2, <3>3
  <2> QED BY <2>1 DEF Grounded
<1> QED BY <1>1, <1>2, <1>3 DEF up

\* The frames of a stack with one more.
LEMMA FramesPush ==
  ASSUME NEW st \in Seq(Frame), NEW f \in Frame
  PROVE  Frames(<<f>> \o st) = Frames(st) \cup {f}
<1> DEFINE up == <<f>> \o st
<1>0. /\ Len(up) = Len(st) + 1 /\ Len(st) \in Nat
      /\ up[1] = f
      /\ \A i \in 1 .. Len(st) : up[i + 1] = st[i]
  BY PushElements
<1> HIDE DEF up
<1>1. ASSUME NEW i \in 1 .. Len(up) PROVE up[i] \in Frames(st) \cup {f}
  <2>1. i = 1 \/ (i - 1 \in 1 .. Len(st) /\ up[i] = st[i - 1])
    BY <1>0
  <2> QED BY <1>0, <2>1 DEF Frames
<1>2. ASSUME NEW i \in 1 .. Len(st) PROVE st[i] \in Frames(up)
  <2>1. i + 1 \in 1 .. Len(up) /\ up[i + 1] = st[i]
    BY <1>0
  <2> QED BY <2>1 DEF Frames
<1>3. f \in Frames(up)
  <2>1. 1 \in 1 .. Len(up) /\ up[1] = f
    BY <1>0
  <2> QED BY <2>1 DEF Frames
<1>4. Frames(up) = Frames(st) \cup {f}
  BY <1>1, <1>2, <1>3 DEF Frames
<1> QED BY <1>4 DEF up

\* What is pushed with a frame.
LEMMA SetsPush ==
  ASSUME NEW st \in Seq(Frame), NEW f \in Frame
  PROVE  /\ Cursors(<<f>> \o st) = Cursors(st) \cup IF f.kind = "drainAll" THEN {f.cur} ELSE {}
         /\ Positions(<<f>> \o st) = Positions(st) \cup IF f.kind = "apply" THEN {f.op} ELSE {}
         /\ ToVisit(<<f>> \o st) = ToVisit(st) \cup IF f.kind \in Iterations THEN f.todo ELSE {}
<1>1. Frames(<<f>> \o st) = Frames(st) \cup {f}
  BY FramesPush
<1> QED BY <1>1 DEF Cursors, Positions, ToVisit

\* Outside of draining sections nobody walks.
LEMMA Quiet ==
  ASSUME NEW st \in Seq(Frame), Count(Drains, st) = 0
  PROVE  Cursors(st) = {} /\ ToVisit(st) = {}
<1>1. \A i \in 1 .. Len(st) : st[i].kind \notin Drains
  BY CountZero
<1> QED BY <1>1 DEF Cursors, ToVisit, Frames, Drains, Iterations

\* What is below a frame that is pushed outside of draining sections.
LEMMA Below0 ==
  ASSUME NEW st \in Seq(Frame), st # <<>>, Grounded(st)
  PROVE  /\ Grounded(Tail(st))
         /\ Head(st).kind \in Grounds => Count(Drains, Tail(st)) = 0
<1>1. Head(st) \in Frame /\ Tail(st) \in Seq(Frame) /\ st = <<Head(st)>> \o Tail(st)
  BY StackSplit
<1> QED BY <1>1, GroundedPush

\* A stack on which the walks are where they were: nothing new to visit, at most
\* an applyPending that begins.
Like(up, st) ==
  /\ Grounded(up)
  /\ Cursors(up) = Cursors(st)
  /\ Positions(up) \subseteq Positions(st) \cup {1}
  /\ ToVisit(up) \subseteq ToVisit(st)

\* One more frame for a WebSocket.
LEMMA PushLike ==
  ASSUME NEW st, NEW base \in Seq(Frame), NEW f \in Frame, f.kind \in Handles, Like(base, st)
  PROVE  Like(<<f>> \o base, st) /\ <<f>> \o base \in Seq(Frame)
<1>1. <<f>> \o base \in Seq(Frame)
  BY PushElements
<1>2. f.kind \notin Grounds /\ f.kind \notin Iterations
  BY DEF Handles, Grounds, Iterations
<1>3. Grounded(<<f>> \o base)
  BY <1>2, GroundedPush DEF Like
<1> QED BY <1>1, <1>2, <1>3, SetsPush DEF Like, Handles

\* One frame less, that is not of a walk over the list.
LEMMA PopLike ==
  ASSUME NEW st \in Seq(Frame), st # <<>>, Grounded(st), Head(st).kind # "drainAll"
  PROVE  Like(Tail(st), st) /\ Tail(st) \in Seq(Frame)
<1>1. Head(st) \in Frame /\ Tail(st) \in Seq(Frame) /\ st = <<Head(st)>> \o Tail(st)
  BY StackSplit
<1>2. Grounded(Tail(st))
  BY Below0
<1> DEFINE f == Head(st)
           r == Tail(st)
<1>3. f \in Frame /\ r \in Seq(Frame) /\ st = <<f>> \o r /\ Grounded(r) /\ f.kind # "drainAll"
  BY <1>1, <1>2
<1> HIDE DEF f, r
<1>4. /\ Cursors(st) = Cursors(r) \cup IF f.kind = "drainAll" THEN {f.cur} ELSE {}
      /\ Positions(st) = Positions(r) \cup IF f.kind = "apply" THEN {f.op} ELSE {}
      /\ ToVisit(st) = ToVisit(r) \cup IF f.kind \in Iterations THEN f.todo ELSE {}
  BY <1>3, SetsPush
<1> QED BY <1>3, <1>4 DEF Like, r

\* The newest frame rewritten.
LEMMA TopSets ==
  ASSUME NEW st \in Seq(Frame), st # <<>>, Grounded(st), NEW f \in Frame, f.kind = Head(st).kind
  PROVE  /\ <<f>> \o Tail(st) \in Seq(Frame)
         /\ Grounded(<<f>> \o Tail(st))
         /\ Cursors(<<f>> \o Tail(st)) = Cursors(Tail(st)) \cup IF f.kind = "drainAll" THEN {f.cur} ELSE {}
         /\ Positions(<<f>> \o Tail(st)) = Positions(Tail(st)) \cup IF f.kind = "apply" THEN {f.op} ELSE {}
         /\ ToVisit(<<f>> \o Tail(st)) = ToVisit(Tail(st)) \cup IF f.kind \in Iterations THEN f.todo ELSE {}
<1>1. Head(st) \in Frame /\ Tail(st) \in Seq(Frame) /\ st = <<Head(st)>> \o Tail(st)
  BY StackSplit
<1>2. <<f>> \o Tail(st) \in Seq(Frame)
  BY <1>1, PushElements
<1>3. Grounded(Tail(st)) /\ (Head(st).kind \in Grounds => Count(Drains, Tail(st)) = 0)
  BY Below0
<1>4. Grounded(<<f>> \o Tail(st))
  BY <1>1, <1>3, GroundedPush
<1> QED BY <1>1, <1>2, <1>4, SetsPush

\* The newest frame rewritten without moving.
LEMMA TopLike ==
  ASSUME NEW st \in Seq(Frame), st # <<>>, Grounded(st), NEW f \in Frame, f.kind = Head(st).kind,
         f.cur = Head(st).cur \/ f.kind # "drainAll", f.op = Head(st).op,
         f.todo \subseteq Head(st).todo
  PROVE  Like(<<f>> \o Tail(st), st) /\ <<f>> \o Tail(st) \in Seq(Frame)
<1>1. Head(st) \in Frame /\ Tail(st) \in Seq(Frame) /\ st = <<Head(st)>> \o Tail(st)
  BY StackSplit
<1> DEFINE g == Head(st)
           r == Tail(st)
<1>2. /\ <<f>> \o r \in Seq(Frame)
      /\ Grounded(<<f>> \o r)
      /\ Cursors(<<f>> \o r) = Cursors(r) \cup IF f.kind = "drainAll" THEN {f.cur} ELSE {}
      /\ Positions(<<f>> \o r) = Positions(r) \cup IF f.kind = "apply" THEN {f.op} ELSE {}
      /\ ToVisit(<<f>> \o r) = ToVisit(r) \cup IF f.kind \in Iterations THEN f.todo ELSE {}
  BY TopSets
<1>3. /\ g \in Frame /\ r \in Seq(Frame) /\ st = <<g>> \o r
      /\ f.kind = g.kind /\ (f.cur = g.cur \/ f.kind # "drainAll") /\ f.op = g.op /\ f.todo \subseteq g.todo
  BY <1>1
<1> HIDE DEF g, r
<1>4. /\ Cursors(st) = Cursors(r) \cup IF g.kind = "drainAll" THEN {g.cur} ELSE {}
      /\ Positions(st) = Positions(r) \cup IF g.kind = "apply" THEN {g.op} ELSE {}
      /\ ToVisit(st) = ToVisit(r) \cup IF g.kind \in Iterations THEN g.todo ELSE {}
  BY <1>3, SetsPush
<1> QED BY <1>2, <1>3, <1>4 DEF Like, r

\* The fields drains and publishes do not write.
LEMMA KeptFields ==
  ASSUME NEW f \in Frame
  PROVE  /\ \A l : LET g == [f EXCEPT !.left = l] IN
              g.kind = f.kind /\ g.cur = f.cur /\ g.op = f.op /\ g.todo = f.todo
         /\ \A c : LET g == [f EXCEPT !.cur = c] IN
              g.kind = f.kind /\ g.op = f.op /\ g.todo = f.todo
         /\ \A M : LET g == [f EXCEPT !.todo = M] IN
              g.kind = f.kind /\ g.op = f.op /\ g.todo = M
         /\ \A M, c : LET g == [f EXCEPT !.todo = M, !.cur = c] IN
              g.kind = f.kind /\ g.op = f.op /\ g.todo = M
         /\ \A M, c : LET g == [f EXCEPT !.todo = M, !.cur = c, !.used = TRUE] IN
              g.kind = f.kind /\ g.op = f.op /\ g.todo = M
  BY DEF Frame, FrameRecord

\* A stack is like itself.
LEMMA SelfLike ==
  ASSUME NEW st, Grounded(st)
  PROVE  Like(st, st)
  BY DEF Like

\* Leaving a draining section other than the walk over the list.
LEMMA LeaveLike ==
  ASSUME TypeOK, StackInv, Grounded(stack), stack # <<>>,
         Head(stack).kind \in Drains \ {"drainAll"}, LeaveDraining(Tail(stack))
  PROVE  Like(stack', stack)
<1>1. stack \in Seq(Frame) /\ applying \in BOOLEAN
  BY DEF TypeOK
<1>2. Like(Tail(stack), stack) /\ Tail(stack) \in Seq(Frame)
  BY <1>1, PopLike
<1>3. CASE stack' = Tail(stack)
  BY <1>2, <1>3
<1>4. CASE drainingDepth = 1 /\ stack' = <<ApplyFrame>> \o Tail(stack)
  <2>1. ApplyFrame \in Frame /\ ApplyFrame.kind = "apply" /\ ApplyFrame.op = 1
    BY NewFrames DEF ApplyFrame, Blank
  <2>2. Count(Drains, Tail(stack)) = 0
    <3>1. \E t : Sound(Tail(stack), drainingDepth - 1, applying, t)
      BY <1>1, SoundPop DEF StackInv, Drains, Iterations
    <3> QED BY <1>4, <3>1 DEF Sound
  <2> DEFINE f == ApplyFrame
             r == Tail(stack)
  <2>3. f \in Frame /\ f.kind = "apply" /\ f.op = 1 /\ r \in Seq(Frame) /\ Count(Drains, r) = 0
        /\ Like(r, stack) /\ stack' = <<f>> \o r
    BY <1>2, <1>4, <2>1, <2>2
  <2> HIDE DEF f, r
  <2>4. Grounded(<<f>> \o r)
    BY <2>3, GroundedPush DEF Like
  <2> QED BY <2>3, <2>4, SetsPush DEF Like, Iterations
<1> QED BY <1>3, <1>4 DEF LeaveDraining

\* Beginning to drain one subscriber.
LEMMA BeginDrainLike ==
  ASSUME TypeOK, NEW s \in Subscribers, NEW rest \in Seq(Frame), Like(rest, stack),
         BeginDrain(s, rest)
  PROVE  Like(stack', stack)
<1>1. DrainFrame(s) \in Frame /\ DrainFrame(s).kind = "drain" /\ stack' = <<DrainFrame(s)>> \o rest
  BY NewFrames DEF BeginDrain
<1> QED BY <1>1, PushLike DEF Handles

\* Beginning to send.
LEMMA BeginSendLike ==
  ASSUME TypeOK, NEW s \in Subscribers, NEW m \in 0 .. MaxCalls, NEW rest \in Seq(Frame),
         Like(rest, stack), BeginSend(s, m, rest)
  PROVE  Like(stack', stack)
<1>1. /\ DroppedFrame(s) \in Frame /\ DroppedFrame(s).kind = "dropped"
      /\ SendFrame(s, m) \in Frame /\ SendFrame(s, m).kind = "send"
  BY NewFrames
<1>2. Like(<<DroppedFrame(s)>> \o rest, stack)
  BY <1>1, PushLike DEF Handles
<1>3. Like(<<SendFrame(s, m)>> \o rest, stack) /\ <<SendFrame(s, m)>> \o rest \in Seq(Frame)
  BY <1>1, PushLike DEF Handles
<1>4. CASE BeginDrain(s, <<SendFrame(s, m)>> \o rest)
  BY <1>3, <1>4, BeginDrainLike
<1> QED BY <1>2, <1>3, <1>4 DEF BeginSend

\* Beginning to publish, outside of draining sections.
LEMMA BeginPublishSets ==
  ASSUME TypeOK, NEW s \in Subscribers \cup {NoSub}, NEW t \in Topics, NEW m \in 0 .. MaxCalls,
         NEW rest \in Seq(Frame), Grounded(rest), Count(Drains, rest) = 0, BeginPublish(s, t, m, rest)
  PROVE  /\ Grounded(stack')
         /\ Cursors(stack') \in {{}, {drainable}}
         /\ Positions(stack') = Positions(rest)
         /\ ToVisit(stack') = {}
<1> DEFINE f == PublishFrame("publishStart", s, t, m)
           g == DrainAllFrame
           start == <<f>> \o rest
<1>1. f \in Frame /\ f.kind = "publishStart"
  BY PublishFrames DEF Walks
<1>2. g \in Frame /\ g.kind = "drainAll" /\ g.cur = drainable
  BY NewFrames DEF DrainAllFrame, Blank
<1>3. Cursors(rest) = {} /\ ToVisit(rest) = {}
  BY Quiet
<1>4. stack' = start \/ stack' = <<g>> \o start
  BY DEF BeginPublish
<1> HIDE DEF f, g
<1>5. /\ start \in Seq(Frame) /\ Grounded(start) /\ Count(Drains, start) = 0
      /\ Cursors(start) = {} /\ ToVisit(start) = {} /\ Positions(start) = Positions(rest)
  <2>1. start \in Seq(Frame)
    BY <1>1, PushElements
  <2>2. Grounded(start)
    BY <1>1, GroundedPush
  <2>3. Count(Drains, start) = 0
    <3>1. Count(Drains, <<f>> \o rest) = Count(Drains, rest) + IF f.kind \in Drains THEN 1 ELSE 0
      BY <1>1, CountPush
    <3> QED BY <1>1, <3>1 DEF Drains
  <2> QED BY <1>1, <1>3, <2>1, <2>2, <2>3, SetsPush DEF Iterations
<1> HIDE DEF start
<1>6. Grounded(<<g>> \o start)
  BY <1>2, <1>5, GroundedPush
<1>7. Cursors(<<g>> \o start) = {drainable} /\ ToVisit(<<g>> \o start) = {}
      /\ Positions(<<g>> \o start) = Positions(rest)
  <2>1. /\ Cursors(<<g>> \o start) = Cursors(start) \cup IF g.kind = "drainAll" THEN {g.cur} ELSE {}
        /\ Positions(<<g>> \o start) = Positions(start) \cup IF g.kind = "apply" THEN {g.op} ELSE {}
        /\ ToVisit(<<g>> \o start) = ToVisit(start) \cup IF g.kind \in Iterations THEN g.todo ELSE {}
    BY <1>2, <1>5, SetsPush
  <2> QED BY <1>2, <1>5, <2>1 DEF Iterations
<1> QED BY <1>4, <1>5, <1>6, <1>7

\* The steps that move no walk and begin none.
LEMMA LikeSteps ==
  ASSUME TypeOK, StackInv, Grounded(stack),
         \/ \E s \in Subscribers : Send(s)
         \/ DrainMessage \/ FinishDrain \/ FinishSend \/ HandlerReturn
         \/ PublishVisit \/ FinishPublish \/ PublishBigVisit \/ FinishPublishBig \/ FinishApply
  PROVE  Like(stack', stack)
<1> DEFINE f == Head(stack)
<1>0. stack \in Seq(Frame) /\ (stack # <<>> => f \in Frame)
  BY HeadFrame DEF TypeOK
<1>1. ASSUME NEW s \in Subscribers, Send(s) PROVE Like(stack', stack)
  <2>1. lastCall + 1 \in 0 .. MaxCalls /\ BeginSend(s, lastCall + 1, stack)
    BY <1>1, TopicTreeAssumption DEF Send, TypeOK
  <2> QED BY <1>0, <2>1, SelfLike, BeginSendLike
<1>2. CASE DrainMessage
  <2>1. stack # <<>> /\ f.kind \in {"drain", "drainAll"} /\ f.left # <<>>
    BY <1>2 DEF DrainMessage, Draining, Running
  <2>2. \/ UNCHANGED stack
        \/ stack' = <<[f EXCEPT !.left = Tail(f.left)]>> \o Tail(stack)
        \/ stack' = <<DroppedFrame(f.sub)>> \o (<<[f EXCEPT !.left = <<>>]>> \o Tail(stack))
    BY <1>2 DEF DrainMessage, Top, Below
  <2> DEFINE g == [f EXCEPT !.left = Tail(f.left)]
             h == [f EXCEPT !.left = <<>>]
             d == DroppedFrame(f.sub)
  <2>3. /\ g \in Frame /\ g.kind = f.kind /\ g.cur = f.cur /\ g.op = f.op /\ g.todo = f.todo
        /\ h \in Frame /\ h.kind = f.kind /\ h.cur = f.cur /\ h.op = f.op /\ h.todo = f.todo
        /\ d \in Frame /\ d.kind = "dropped"
    <3>1. /\ g \in Frame /\ g.kind = f.kind
          /\ h \in Frame /\ h.kind = f.kind
          /\ d \in Frame /\ d.kind = "dropped"
      BY <1>0, <2>1, DrainFrames, NewFrames
    <3>2. f \in Frame
      BY <1>0, <2>1
    <3> HIDE DEF f
    <3>3. /\ g.cur = f.cur /\ g.op = f.op /\ g.todo = f.todo
          /\ h.cur = f.cur /\ h.op = f.op /\ h.todo = f.todo
      BY <3>2, KeptFields
    <3> QED BY <3>1, <3>3
  <2> HIDE DEF g, h, d
  <2>4. Like(<<g>> \o Tail(stack), stack)
    BY <1>0, <2>1, <2>3, TopLike
  <2>5. Like(<<h>> \o Tail(stack), stack) /\ <<h>> \o Tail(stack) \in Seq(Frame)
    BY <1>0, <2>1, <2>3, TopLike
  <2>6. Like(<<d>> \o (<<h>> \o Tail(stack)), stack)
    BY <2>3, <2>5, PushLike DEF Handles
  <2> QED BY <2>2, <2>4, <2>6, SelfLike DEF g, h, d
<1>3. CASE FinishDrain \/ FinishPublish \/ FinishPublishBig
  BY <1>3, LeaveLike DEF FinishDrain, FinishPublish, FinishPublishBig, Running, Below, Drains
<1>4. CASE FinishSend \/ HandlerReturn \/ FinishApply
  <2>1. stack # <<>> /\ f.kind # "drainAll" /\ stack' = Tail(stack)
    BY <1>4 DEF FinishSend, HandlerReturn, FinishApply, Running, Below
  <2> QED BY <1>0, <2>1, PopLike
<1>5. CASE PublishVisit
  <2>1. stack # <<>> /\ f.kind = "publish"
    BY <1>5 DEF PublishVisit, Running
  <2>2. f \in Frame /\ f.todo \in SUBSET Subscribers /\ f.kind \in Walks
    BY <1>0, <2>1 DEF Frame, FrameRecord, Walks
  <2>3. PICK s \in f.todo :
          \/ stack' = Top([f EXCEPT !.todo = f.todo \ {s}, !.cur = NoSub])
          \/ BeginDrain(s, Top([f EXCEPT !.cur = s]))
          \/ stack' = Top([f EXCEPT !.todo = f.todo \ {s}, !.cur = NoSub, !.used = TRUE])
    BY <1>5 DEF PublishVisit, Reference
  <2> DEFINE M == f.todo \ {s}
             g == [f EXCEPT !.todo = M, !.cur = NoSub]
             h == [f EXCEPT !.cur = s]
             k == [f EXCEPT !.todo = M, !.cur = NoSub, !.used = TRUE]
  <2>4. s \in Subscribers /\ M \in SUBSET Subscribers /\ M \subseteq f.todo
        /\ NoSub \in Subscribers \cup {NoSub}
    BY <2>2, <2>3
  <2>5. /\ g \in Frame /\ g.kind = f.kind /\ g.op = f.op /\ g.todo \subseteq f.todo
        /\ h \in Frame /\ h.kind = f.kind /\ h.op = f.op /\ h.todo \subseteq f.todo
        /\ k \in Frame /\ k.kind = f.kind /\ k.op = f.op /\ k.todo \subseteq f.todo
    <3>1. f \in Frame
      BY <2>2
    <3> HIDE DEF f, M
    <3>2. g.op = f.op /\ g.todo = M /\ h.op = f.op /\ h.todo = f.todo /\ k.op = f.op /\ k.todo = M
      BY <3>1, KeptFields
    <3>3. h \in Frame /\ h.kind = f.kind
      BY <2>2, <2>4, WalkFrames
    <3>4. /\ g \in Frame /\ g.kind = f.kind
          /\ k \in Frame /\ k.kind = f.kind
      BY <2>2, <2>4 DEF Frame, FrameRecord, Handles, Walks
    <3> QED BY <2>4, <3>2, <3>3, <3>4
  <2>6. stack' = <<g>> \o Tail(stack) \/ BeginDrain(s, <<h>> \o Tail(stack)) \/ stack' = <<k>> \o Tail(stack)
    BY <2>3 DEF Top, Below
  <2> HIDE DEF g, h, k
  <2>7. Like(<<g>> \o Tail(stack), stack)
    BY <1>0, <2>1, <2>5, TopLike
  <2>8. Like(<<h>> \o Tail(stack), stack) /\ <<h>> \o Tail(stack) \in Seq(Frame)
    BY <1>0, <2>1, <2>5, TopLike
  <2>9. Like(<<k>> \o Tail(stack), stack)
    BY <1>0, <2>1, <2>5, TopLike
  <2> QED BY <2>4, <2>6, <2>7, <2>8, <2>9, BeginDrainLike
<1>6. CASE PublishBigVisit
  <2>1. stack # <<>> /\ f.kind = "publishBig"
    BY <1>6 DEF PublishBigVisit, Running
  <2>2. f \in Frame /\ f.todo \in SUBSET Subscribers /\ f.kind \in Walks /\ f.msg \in 0 .. MaxCalls
    BY <1>0, <2>1 DEF Frame, FrameRecord, Walks
  <2>3. PICK s \in f.todo :
          \/ stack' = Top([f EXCEPT !.todo = f.todo \ {s}])
          \/ BeginSend(s, f.msg, Top([f EXCEPT !.todo = f.todo \ {s}]))
    BY <1>6 DEF PublishBigVisit
  <2> DEFINE M == f.todo \ {s}
             g == [f EXCEPT !.todo = M]
  <2>4. s \in Subscribers /\ M \in SUBSET Subscribers /\ M \subseteq f.todo
    BY <2>2, <2>3
  <2>5. g \in Frame /\ g.kind = f.kind /\ g.op = f.op /\ g.todo \subseteq f.todo
    <3> HIDE DEF f, M
    <3>1. g.op = f.op /\ g.todo = M
      BY <2>2, KeptFields
    <3>2. g \in Frame /\ g.kind = f.kind
      BY <2>2, <2>4 DEF Frame, FrameRecord, Handles, Walks
    <3> QED BY <2>4, <3>1, <3>2
  <2>6. stack' = <<g>> \o Tail(stack) \/ BeginSend(s, f.msg, <<g>> \o Tail(stack))
    BY <2>3 DEF Top, Below
  <2> HIDE DEF g
  <2>7. Like(<<g>> \o Tail(stack), stack) /\ <<g>> \o Tail(stack) \in Seq(Frame)
    BY <1>0, <2>1, <2>5, TopLike
  <2> QED BY <2>2, <2>4, <2>6, <2>7, BeginSendLike
<1> QED BY <1>1, <1>2, <1>3, <1>4, <1>5, <1>6

\* Outside of draining sections.
LEMMA Calm ==
  ASSUME TypeOK, StackInv, drainingDepth = 0
  PROVE  Count(Drains, stack) = 0 /\ Cursors(stack) = {} /\ ToVisit(stack) = {}
<1>1. stack \in Seq(Frame) /\ Count(Drains, stack) = 0
  BY DEF TypeOK, StackInv, Sound
<1> QED BY <1>1, Quiet

\* Below a frame that is only pushed outside of draining sections.
LEMMA BelowGround ==
  ASSUME TypeOK, StackInv, Grounded(stack), stack # <<>>, Head(stack).kind \in Grounds
  PROVE  /\ Tail(stack) \in Seq(Frame)
         /\ Grounded(Tail(stack))
         /\ Count(Drains, Tail(stack)) = 0
         /\ Cursors(Tail(stack)) = {} /\ ToVisit(Tail(stack)) = {}
         /\ Head(stack).kind \notin Drains => drainingDepth = 0
         /\ Head(stack).kind \in Drains => drainingDepth = 1
         /\ Head(stack).kind # "drainAll" => Cursors(stack) = {}
         /\ Head(stack).kind = "drainAll" => Cursors(stack) = {Head(stack).cur}
<1>1. stack \in Seq(Frame)
  BY DEF TypeOK
<1>2. Head(stack) \in Frame /\ Tail(stack) \in Seq(Frame) /\ stack = <<Head(stack)>> \o Tail(stack)
  BY <1>1, StackSplit
<1>3. Grounded(Tail(stack)) /\ Count(Drains, Tail(stack)) = 0
  BY <1>1, Below0
<1>4. Cursors(Tail(stack)) = {} /\ ToVisit(Tail(stack)) = {}
  BY <1>2, <1>3, Quiet
<1> DEFINE f == Head(stack)
           r == Tail(stack)
<1>5. f \in Frame /\ r \in Seq(Frame) /\ stack = <<f>> \o r /\ Count(Drains, r) = 0 /\ Cursors(r) = {}
  BY <1>2, <1>3, <1>4
<1> HIDE DEF f, r
<1>6. drainingDepth = IF f.kind \in Drains THEN 1 ELSE 0
  <2>1. drainingDepth = Count(Drains, stack)
    BY DEF StackInv, Sound
  <2>2. Count(Drains, stack) = Count(Drains, r) + IF f.kind \in Drains THEN 1 ELSE 0
    BY <1>5, CountPush
  <2> QED BY <1>5, <2>1, <2>2
<1>7. Cursors(stack) = Cursors(r) \cup IF f.kind = "drainAll" THEN {f.cur} ELSE {}
  BY <1>5, SetsPush
<1> QED BY <1>2, <1>3, <1>4, <1>5, <1>6, <1>7 DEF f, r

\* There is one applyPending at most.
LEMMA OnePosition ==
  ASSUME TypeOK, StackInv, stack # <<>>, Head(stack).kind = "apply"
  PROVE  Positions(Tail(stack)) = {} /\ Positions(stack) = {Head(stack).op} /\ applying
<1>0. applying \in BOOLEAN
  BY DEF TypeOK
<1>1. Sound(Tail(stack), 0, FALSE, NoTopic) /\ applying
  BY <1>0, SoundPop DEF StackInv
<1>2. Tail(stack) \in Seq(Frame) /\ Count({"apply"}, Tail(stack)) = 0
  BY <1>1 DEF Sound
<1>3. \A i \in 1 .. Len(Tail(stack)) : Tail(stack)[i].kind \notin {"apply"}
  BY <1>2, CountZero
<1>4. Positions(Tail(stack)) = {}
  BY <1>3 DEF Positions, Frames
<1> DEFINE f == Head(stack)
           r == Tail(stack)
<1>5. f \in Frame /\ r \in Seq(Frame) /\ stack = <<f>> \o r /\ Positions(r) = {} /\ f.kind = "apply"
  BY <1>2, <1>4, StackSplit DEF TypeOK
<1> HIDE DEF f, r
<1>6. Positions(stack) = Positions(r) \cup IF f.kind = "apply" THEN {f.op} ELSE {}
  BY <1>5, SetsPush
<1> QED BY <1>1, <1>5, <1>6 DEF f, r

\* The loop drains, or something is published outside of draining sections.
LEMMA BeginSteps ==
  ASSUME TypeOK, StackInv, Grounded(stack),
         \/ LoopDrain
         \/ \E s \in Subscribers \cup {NoSub}, t \in Topics, m \in 0 .. MaxCalls :
              drainingDepth = 0 /\ BeginPublish(s, t, m, stack)
  PROVE  /\ Grounded(stack')
         /\ Cursors(stack) = {}
         /\ Cursors(stack') \in {{}, {drainable}}
         /\ Positions(stack') = Positions(stack)
         /\ ToVisit(stack') = {}
<1>0. stack \in Seq(Frame)
  BY DEF TypeOK
<1>1. CASE LoopDrain
  <2> DEFINE g == DrainAllFrame
  <2>1. g \in Frame /\ g.kind = "drainAll" /\ g.cur = drainable
    BY NewFrames DEF DrainAllFrame, Blank
  <2>2. drainingDepth = 0
    BY <1>1, SoundTypes DEF LoopDrain, Idle, StackInv
  <2>3. Count(Drains, stack) = 0 /\ Cursors(stack) = {} /\ ToVisit(stack) = {}
    BY <2>2, Calm
  <2>4. stack' = <<g>> \o stack
    BY <1>1 DEF LoopDrain, Push
  <2> HIDE DEF g
  <2>5. Grounded(<<g>> \o stack)
    BY <1>0, <2>1, <2>3, GroundedPush
  <2>6. /\ Cursors(<<g>> \o stack) = Cursors(stack) \cup IF g.kind = "drainAll" THEN {g.cur} ELSE {}
        /\ Positions(<<g>> \o stack) = Positions(stack) \cup IF g.kind = "apply" THEN {g.op} ELSE {}
        /\ ToVisit(<<g>> \o stack) = ToVisit(stack) \cup IF g.kind \in Iterations THEN g.todo ELSE {}
    BY <1>0, <2>1, SetsPush
  <2> QED BY <2>1, <2>3, <2>4, <2>5, <2>6 DEF Iterations
<1>2. ASSUME NEW s \in Subscribers \cup {NoSub}, NEW t \in Topics, NEW m \in 0 .. MaxCalls,
             drainingDepth = 0, BeginPublish(s, t, m, stack)
      PROVE  /\ Grounded(stack')
             /\ Cursors(stack) = {}
             /\ Cursors(stack') \in {{}, {drainable}}
             /\ Positions(stack') = Positions(stack)
             /\ ToVisit(stack') = {}
  <2>1. Count(Drains, stack) = 0 /\ Cursors(stack) = {}
    BY <1>2, Calm
  <2> QED BY <1>0, <1>2, <2>1, BeginPublishSets
<1> QED BY <1>1, <1>2

\* applyPending moves to the next call.
LEMMA ApplySteps ==
  ASSUME TypeOK, StackInv, Grounded(stack), ApplyOp
  PROVE  /\ Grounded(stack')
         /\ Cursors(stack) = {}
         /\ Cursors(stack') \in {{}, {drainable}}
         /\ Positions(stack') = {Head(stack).op + 1}
         /\ ToVisit(stack') = {}
<1> DEFINE f == Head(stack)
           r == Tail(stack)
           g == [f EXCEPT !.op = f.op + 1]
           op == pendingOps[f.op]
<1>1. stack # <<>> /\ f.kind = "apply" /\ f.op <= Len(pendingOps) /\ stack \in Seq(Frame)
  BY DEF ApplyOp, Running, TypeOK
<1>2. f \in Frame /\ g \in Frame /\ g.kind = "apply" /\ g.op = f.op + 1
  BY <1>1, HeadFrame, DrainFrames DEF Frame, FrameRecord
<1>3. /\ r \in Seq(Frame) /\ Grounded(r) /\ Count(Drains, r) = 0
      /\ Cursors(r) = {} /\ ToVisit(r) = {} /\ Cursors(stack) = {} /\ Positions(r) = {}
  BY <1>1, BelowGround, OnePosition DEF Grounds
<1>4. \/ stack' = <<g>> \o r
      \/ BeginPublish(op.sub, op.topic, op.msg, <<g>> \o r)
  BY DEF ApplyOp, Top, Below
<1>5. op.sub \in Subscribers \cup {NoSub} /\ op.topic \in Topics /\ op.msg \in 0 .. MaxCalls
  BY <1>1, OpAtFrame DEF PendingOp
<1> HIDE DEF op, g, f, r
<1>6. /\ <<g>> \o r \in Seq(Frame) /\ Grounded(<<g>> \o r)
      /\ Count(Drains, <<g>> \o r) = 0
      /\ Positions(<<g>> \o r) = {f.op + 1} /\ Cursors(<<g>> \o r) = {} /\ ToVisit(<<g>> \o r) = {}
  <2>1. <<g>> \o r \in Seq(Frame)
    BY <1>2, <1>3, PushElements
  <2>2. Grounded(<<g>> \o r)
    BY <1>2, <1>3, GroundedPush
  <2>3. Count(Drains, <<g>> \o r) = Count(Drains, r) + IF g.kind \in Drains THEN 1 ELSE 0
    BY <1>2, <1>3, CountPush
  <2>4. /\ Cursors(<<g>> \o r) = Cursors(r) \cup IF g.kind = "drainAll" THEN {g.cur} ELSE {}
        /\ Positions(<<g>> \o r) = Positions(r) \cup IF g.kind = "apply" THEN {g.op} ELSE {}
        /\ ToVisit(<<g>> \o r) = ToVisit(r) \cup IF g.kind \in Iterations THEN g.todo ELSE {}
    BY <1>2, <1>3, SetsPush
  <2> QED BY <1>2, <1>3, <2>1, <2>2, <2>3, <2>4 DEF Drains, Iterations
<1>7. CASE BeginPublish(op.sub, op.topic, op.msg, <<g>> \o r)
  <2> DEFINE b == <<g>> \o r
  <2> HIDE DEF b
  <2>1. /\ Grounded(stack') /\ Cursors(stack') \in {{}, {drainable}}
        /\ Positions(stack') = Positions(b) /\ ToVisit(stack') = {}
    BY <1>5, <1>6, <1>7, BeginPublishSets DEF b
  <2> QED BY <1>3, <1>6, <2>1 DEF b, f
<1> QED BY <1>3, <1>4, <1>6, <1>7 DEF f

\* A publish begins to iterate its topic.
LEMMA IterateSteps ==
  ASSUME TypeOK, StackInv, Grounded(stack), NEW t \in Topics,
         \/ \E s \in Subscribers \cup {NoSub} : PublishBig(s, t)
         \/ StartIterating /\ Head(stack).topic = t
  PROVE  /\ Grounded(stack')
         /\ Cursors(stack) = {} /\ Cursors(stack') = {}
         /\ Positions(stack') = Positions(stack)
         /\ ToVisit(stack') \subseteq members[t]
<1>0. stack \in Seq(Frame)
  BY DEF TypeOK
<1>1. ASSUME NEW s \in Subscribers \cup {NoSub}, PublishBig(s, t)
      PROVE  /\ Grounded(stack')
             /\ Cursors(stack) = {} /\ Cursors(stack') = {}
             /\ Positions(stack') = Positions(stack)
             /\ ToVisit(stack') \subseteq members[t]
  <2> DEFINE g == [PublishFrame("publishBig", s, t, lastCall + 1) EXCEPT !.todo = members[t]]
  <2>1. g \in Frame /\ g.kind = "publishBig" /\ g.todo = members[t]
    <3>1. lastCall + 1 \in 0 .. MaxCalls /\ members[t] \in SUBSET Subscribers
      BY <1>1, TopicTreeAssumption DEF PublishBig, TypeOK
    <3> DEFINE h == PublishFrame("publishBig", s, t, lastCall + 1)
    <3>2. h \in Frame /\ h.kind = "publishBig" /\ h.kind \in Walks
      BY <3>1, PublishFrames DEF Walks
    <3> HIDE DEF h
    <3>3. [h EXCEPT !.todo = members[t]] \in Frame /\ [h EXCEPT !.todo = members[t]].kind = "publishBig"
      BY <3>1, <3>2, WalkFrames, TopicTreeAssumption
    <3>4. [h EXCEPT !.todo = members[t]].todo = members[t]
      BY <3>2, KeptFields
    <3> QED BY <3>3, <3>4 DEF h
  <2>2. stack' = <<g>> \o stack /\ drainingDepth = 0
    BY <1>1 DEF PublishBig, Push
  <2>3. Count(Drains, stack) = 0 /\ Cursors(stack) = {} /\ ToVisit(stack) = {}
    BY <2>2, Calm
  <2> HIDE DEF g
  <2>4. Grounded(<<g>> \o stack)
    BY <1>0, <2>1, <2>3, GroundedPush
  <2>5. /\ Cursors(<<g>> \o stack) = Cursors(stack) \cup IF g.kind = "drainAll" THEN {g.cur} ELSE {}
        /\ Positions(<<g>> \o stack) = Positions(stack) \cup IF g.kind = "apply" THEN {g.op} ELSE {}
        /\ ToVisit(<<g>> \o stack) = ToVisit(stack) \cup IF g.kind \in Iterations THEN g.todo ELSE {}
    BY <1>0, <2>1, SetsPush
  <2> QED BY <2>1, <2>2, <2>3, <2>4, <2>5 DEF Iterations
<1>2. CASE StartIterating /\ Head(stack).topic = t
  <2> DEFINE f == Head(stack)
             r == Tail(stack)
             M == members[t]
             g == [f EXCEPT !.kind = "publish", !.todo = M]
  <2>1. stack # <<>> /\ f.kind = "publishStart" /\ f \in Frame
    BY <1>2, HeadFrame DEF StartIterating, Running
  <2>2. /\ r \in Seq(Frame) /\ Grounded(r) /\ Count(Drains, r) = 0
        /\ Cursors(r) = {} /\ ToVisit(r) = {} /\ Cursors(stack) = {}
        /\ drainingDepth = 0
    BY <2>1, BelowGround DEF Grounds, Drains
  <2>3. CASE stack' = stack
    BY <2>2, <2>3, Calm
  <2>4. CASE stack' = <<g>> \o r
    <3>1. M \in SUBSET Subscribers /\ f.kind \in Walks
      BY <2>1 DEF TypeOK, Walks
    <3>2. stack = <<f>> \o r
      BY <1>0, <2>1, StackSplit
    <3> HIDE DEF f, M, r
    <3>3. g \in Frame /\ g.kind = "publish" /\ g.todo = M
      <4>1. g \in Frame /\ g.kind = "publish"
        BY <2>1, <3>1, WalkFrames, TopicTreeAssumption
      <4> QED BY <2>1, <4>1 DEF Frame, FrameRecord
    <3> HIDE DEF g
    <3>4. Grounded(<<g>> \o r)
      BY <2>2, <3>3, GroundedPush
    <3>5. /\ Cursors(<<g>> \o r) = Cursors(r) \cup IF g.kind = "drainAll" THEN {g.cur} ELSE {}
          /\ Positions(<<g>> \o r) = Positions(r) \cup IF g.kind = "apply" THEN {g.op} ELSE {}
          /\ ToVisit(<<g>> \o r) = ToVisit(r) \cup IF g.kind \in Iterations THEN g.todo ELSE {}
      BY <2>2, <3>3, SetsPush
    <3>6. Positions(<<f>> \o r) = Positions(r) \cup IF f.kind = "apply" THEN {f.op} ELSE {}
      BY <2>1, <2>2, SetsPush
    <3> QED BY <2>1, <2>2, <2>4, <3>2, <3>3, <3>4, <3>5, <3>6 DEF Iterations, M
  <2> QED BY <1>2, <2>3, <2>4 DEF StartIterating, Top, Below
<1> QED BY <1>1, <1>2

\* The walk over the list moves on, or ends.
LEMMA WalkSteps ==
  ASSUME TypeOK, StackInv, Grounded(stack), DrainNext \/ FinishDrainAll
  PROVE  /\ Grounded(stack')
         /\ Cursors(stack) = {Head(stack).cur}
         /\ DrainNext => Head(stack).cur \in Subscribers /\ Cursors(stack') = {next[Head(stack).cur]}
         /\ FinishDrainAll => Cursors(stack') = {}
         /\ Positions(stack') \subseteq Positions(stack) \cup {1}
         /\ ToVisit(stack') = {}
<1> DEFINE f == Head(stack)
           r == Tail(stack)
<1>1. stack # <<>> /\ f.kind = "drainAll" /\ f \in Frame
  BY HeadFrame DEF DrainNext, FinishDrainAll, Running
<1>2. /\ r \in Seq(Frame) /\ Grounded(r) /\ Count(Drains, r) = 0
      /\ Cursors(r) = {} /\ ToVisit(r) = {} /\ Cursors(stack) = {f.cur}
  BY <1>1, BelowGround DEF Grounds
<1>3. stack = <<f>> \o r
  BY <1>1, StackSplit DEF TypeOK
<1>4. Positions(r) \subseteq Positions(stack)
  <2> HIDE DEF f, r
  <2>1. Positions(<<f>> \o r) = Positions(r) \cup IF f.kind = "apply" THEN {f.op} ELSE {}
    BY <1>1, <1>2, SetsPush
  <2> QED BY <1>3, <2>1
<1>5. CASE DrainNext
  <2> DEFINE s == f.cur
             l == IF WasFreed(s) THEN <<>> ELSE indices[s]
             c == next[s]
             g == [f EXCEPT !.cur = c, !.sub = s, !.left = l]
  <2>1. s \in Subscribers
    BY <1>1, <1>5 DEF DrainNext, Frame, FrameRecord
  <2>2. next[s] \in Subscribers \cup {NoSub} /\ l \in Seq(Nat) /\ stack' = <<g>> \o r
    <3>1. next[s] \in Subscribers \cup {NoSub}
      BY <2>1 DEF TypeOK
    <3>2. l \in Seq(Nat)
      BY <2>1, IndexList
    <3> QED BY <1>5, <3>1, <3>2 DEF DrainNext, Top, Below
  <2>3. g \in Frame /\ g.kind = "drainAll" /\ g.cur = next[s]
    <3>0. f \in Frame /\ f.kind = "drainAll" /\ c \in Subscribers \cup {NoSub} /\ l \in Seq(Nat)
      BY <1>1, <2>2
    <3> HIDE DEF f, s, l, c
    <3>1. g \in Frame /\ g.kind = "drainAll" /\ g.cur = c
      BY <2>1, <3>0 DEF Frame, FrameRecord, Handles, Walks, Drains
    <3> QED BY <3>1 DEF c
  <2>4. ~FinishDrainAll
    BY <1>5 DEF DrainNext, FinishDrainAll
  <2> HIDE DEF g, r
  <2>5. Grounded(<<g>> \o r)
    BY <1>2, <2>3, GroundedPush
  <2>6. /\ Cursors(<<g>> \o r) = Cursors(r) \cup IF g.kind = "drainAll" THEN {g.cur} ELSE {}
        /\ Positions(<<g>> \o r) = Positions(r) \cup IF g.kind = "apply" THEN {g.op} ELSE {}
        /\ ToVisit(<<g>> \o r) = ToVisit(r) \cup IF g.kind \in Iterations THEN g.todo ELSE {}
    BY <1>2, <2>3, SetsPush
  <2> QED BY <1>2, <1>4, <2>1, <2>2, <2>3, <2>4, <2>5, <2>6 DEF Iterations
<1>6. CASE FinishDrainAll
  <2> DEFINE a == ApplyFrame
  <2>1. a \in Frame /\ a.kind = "apply" /\ a.op = 1
    BY NewFrames DEF ApplyFrame, Blank
  <2>2. stack' = r \/ stack' = <<a>> \o r
    BY <1>6 DEF FinishDrainAll, LeaveDraining, Below
  <2>3. ~DrainNext
    BY <1>6 DEF DrainNext, FinishDrainAll
  <2> HIDE DEF a, r
  <2>4. Grounded(<<a>> \o r)
    BY <1>2, <2>1, GroundedPush
  <2>5. /\ Cursors(<<a>> \o r) = Cursors(r) \cup IF a.kind = "drainAll" THEN {a.cur} ELSE {}
        /\ Positions(<<a>> \o r) = Positions(r) \cup IF a.kind = "apply" THEN {a.op} ELSE {}
        /\ ToVisit(<<a>> \o r) = ToVisit(r) \cup IF a.kind \in Iterations THEN a.todo ELSE {}
    BY <1>2, <2>1, SetsPush
  <2> QED BY <1>2, <1>4, <2>1, <2>2, <2>3, <2>4, <2>5 DEF Iterations
<1> QED BY <1>5, <1>6

\* Every step keeps the order of the frames.
LEMMA GroundedStep == TypeOK /\ StackInv /\ Grounded(stack) /\ [Next]_vars => Grounded(stack')
<1> SUFFICES ASSUME TypeOK, StackInv, Grounded(stack), [Next]_vars PROVE Grounded(stack')
  OBVIOUS
<1>1. CASE UNCHANGED stack
  BY <1>1
<1>2. CASE \/ \E s \in Subscribers, t \in Topics : Subscribe(s, t) \/ Unsubscribe(s, t)
           \/ \E s \in Subscribers : Close(s) \/ End(s) \/ Writable(s)
           \/ FreePending \/ UNCHANGED vars
  BY <1>1, <1>2 DEF Subscribe, Unsubscribe, Close, End, Writable, FreePending, vars, nested
<1>3. CASE \/ \E s \in Subscribers : Send(s)
           \/ DrainMessage \/ FinishDrain \/ FinishSend \/ HandlerReturn
           \/ PublishVisit \/ FinishPublish \/ PublishBigVisit \/ FinishPublishBig \/ FinishApply
  BY <1>3, LikeSteps DEF Like
<1>4. ASSUME NEW s \in Subscribers \cup {NoSub}, NEW t \in Topics, Publish(s, t)
      PROVE  Grounded(stack')
  <2>1. CASE drainingDepth = 0 /\ BeginPublish(s, t, lastCall + 1, stack)
    <3>1. lastCall + 1 \in 0 .. MaxCalls
      BY <1>4, TopicTreeAssumption DEF Publish, TypeOK
    <3> QED BY <2>1, <3>1, BeginSteps
  <2> QED BY <1>1, <1>4, <2>1 DEF Publish
<1>5. CASE LoopDrain
  BY <1>5, BeginSteps
<1>6. CASE ApplyOp
  BY <1>6, ApplySteps
<1>7. ASSUME NEW s \in Subscribers \cup {NoSub}, NEW t \in Topics, PublishBig(s, t)
      PROVE  Grounded(stack')
  BY <1>7, IterateSteps
<1>8. CASE StartIterating
  <2>1. Head(stack).topic \in Topics
    BY <1>8, HeadFrame DEF StartIterating, Running, Frame, FrameRecord, Walks
  <2> QED BY <1>8, <2>1, IterateSteps
<1>9. CASE DrainNext \/ FinishDrainAll
  BY <1>9, WalkSteps
<1> QED BY <1>2, <1>3, <1>4, <1>5, <1>6, <1>7, <1>8, <1>9 DEF Next, Step, Loop, Application, Library

-----------------------------------------------------------------------------
(* The list of drainable subscribers.                                      *)

\* What meets all of N meets all of a part of it.
LEMMA OrderedLess ==
  ASSUME NEW V \in SUBSET Subscribers, NEW r \in [Subscribers -> Int], NEW N, NEW M \in SUBSET N,
         NEW nx, NEW pv, NEW first, Ordered(V, N, r, nx, pv, first)
  PROVE  /\ Ordered(V, M, r, nx, pv, first)
         /\ \A c : From(V, N, r, c) => From(V, M, r, c)
<1>1. \A p \in V : After(V, M, r, p, nx[p])
  BY DEF Ordered, After
<1>2. \A p \in M : Before(V, M, r, p, pv[p])
  BY DEF Ordered, Before
<1>3. \A c : From(V, N, r, c) => From(V, M, r, c)
  BY DEF From
<1> QED BY <1>1, <1>2, <1>3 DEF Ordered

\* A walk that has been at s goes on after it.
LEMMA WalkOn ==
  ASSUME NEW V \in SUBSET Subscribers, NEW r \in [Subscribers -> Int], NEW N,
         NEW nx, NEW pv, NEW first, Ordered(V, N, r, nx, pv, first), NEW s \in V, From(V, N, r, s)
  PROVE  From(V, N \ {s}, r, nx[s])
<1>1. After(V, N, r, s, nx[s]) /\ N \subseteq V /\ s # NoSub
  BY TopicTreeAssumption DEF Ordered
<1>2. \A n \in N : r[s] <= r[n] /\ (r[n] <= r[s] => n = s)
  BY <1>1 DEF From, Ordered
<1> QED BY <1>1, <1>2 DEF From, After

\* The links without s, one of N.
NextWithout(s, nx, pv) == IF pv[s] # NoSub THEN [nx EXCEPT ![pv[s]] = nx[s]] ELSE nx
PrevWithout(s, nx, pv) == IF nx[s] # NoSub THEN [pv EXCEPT ![nx[s]] = pv[s]] ELSE pv
FirstWithout(s, nx, first) == IF first = s THEN nx[s] ELSE first

\* Removing one of N from the list, which keeps it among the drained ones.
LEMMA UnlinkOrdered ==
  ASSUME NEW V \in SUBSET Subscribers, NEW r \in [Subscribers -> Int], NEW N,
         NEW nx \in [Subscribers -> Subscribers \cup {NoSub}],
         NEW pv \in [Subscribers -> Subscribers \cup {NoSub}],
         NEW first, Ordered(V, N, r, nx, pv, first), NEW s \in N
  PROVE  Ordered(V, N \ {s}, r, NextWithout(s, nx, pv), PrevWithout(s, nx, pv), FirstWithout(s, nx, first))
<1> DEFINE M == N \ {s}
           nx2 == NextWithout(s, nx, pv)
           pv2 == PrevWithout(s, nx, pv)
<1>0. /\ N \subseteq V /\ s \in V /\ s \in Subscribers /\ NoSub \notin Subscribers
      /\ \A p, q \in V : r[p] = r[q] => p = q
      /\ \A p \in V : r[p] \in Int
      /\ After(V, N, r, s, nx[s])
      /\ Before(V, N, r, s, pv[s])
  BY TopicTreeAssumption DEF Ordered
<1>1. ASSUME NEW p \in V PROVE After(V, M, r, p, nx2[p])
  <2>1. After(V, M, r, p, nx[p])
    BY <1>0 DEF Ordered, After
  <2>2. CASE pv[s] = p
    <3>1. nx2[p] = nx[s] /\ p # NoSub /\ r[p] < r[s]
      BY <1>0, <2>2 DEF NextWithout, Before
    <3>2. \A n \in M : r[n] <= r[p] \/ r[s] < r[n]
      BY <1>0, <2>2, <3>1 DEF Before
    <3> QED BY <1>0, <3>1, <3>2 DEF After
  <2>3. CASE pv[s] # p
    BY <1>0, <2>1, <2>3 DEF NextWithout
  <2> QED BY <2>2, <2>3
<1>2. ASSUME NEW p \in M PROVE Before(V, M, r, p, pv2[p])
  <2>1. Before(V, M, r, p, pv[p])
    BY <1>0 DEF Ordered, Before
  <2>2. CASE nx[s] = p
    <3>1. pv2[p] = pv[s] /\ p # NoSub /\ r[s] < r[p] /\ p \in V
      BY <1>0, <2>2 DEF PrevWithout, After
    <3>2. \A n \in M : r[n] < r[s] \/ r[p] <= r[n]
      BY <1>0, <2>2, <3>1 DEF After
    <3> QED BY <1>0, <3>1, <3>2 DEF Before
  <2>3. CASE nx[s] # p
    BY <1>0, <2>1, <2>3 DEF PrevWithout
  <2> QED BY <2>2, <2>3
<1>3. From(V, M, r, FirstWithout(s, nx, first))
  <2>1. From(V, N, r, first)
    BY DEF Ordered
  <2>2. CASE first = s
    BY <1>0, <2>1, <2>2, WalkOn DEF FirstWithout
  <2>3. CASE first # s
    BY <2>1, <2>3 DEF FirstWithout, From
  <2> QED BY <2>2, <2>3
<1> HIDE DEF nx2, pv2
<1>4. Ordered(V, M, r, nx2, pv2, FirstWithout(s, nx, first))
  BY <1>0, <1>1, <1>2, <1>3 DEF Ordered
<1> QED BY <1>4 DEF nx2, pv2

\* While nobody walks the list holds those that need drainage, and no link leads
\* to one that was removed.
LEMMA UnlinkExact ==
  ASSUME NEW N \in SUBSET Subscribers, NEW r \in [Subscribers -> Int],
         NEW nx \in [Subscribers -> Subscribers \cup {NoSub}],
         NEW pv \in [Subscribers -> Subscribers \cup {NoSub}],
         NEW first, Ordered(N, N, r, nx, pv, first), NEW s \in N
  PROVE  Ordered(N \ {s}, N \ {s}, r, NextWithout(s, nx, pv), PrevWithout(s, nx, pv), FirstWithout(s, nx, first))
<1> DEFINE M == N \ {s}
           nx2 == NextWithout(s, nx, pv)
           pv2 == PrevWithout(s, nx, pv)
           f2  == FirstWithout(s, nx, first)
<1>0. /\ s \in Subscribers /\ NoSub \notin Subscribers
      /\ \A p, q \in N : r[p] = r[q] => p = q
      /\ \A p \in N : r[p] \in Int
      /\ \A p \in N : After(N, N, r, p, nx[p]) /\ Before(N, N, r, p, pv[p])
      /\ From(N, N, r, first)
  BY TopicTreeAssumption DEF Ordered
<1>1. Ordered(N, M, r, nx2, pv2, f2)
  BY UnlinkOrdered
<1>2. ASSUME NEW p \in M PROVE nx2[p] # s
  <2>1. CASE pv[s] = p
    BY <1>0, <2>1 DEF NextWithout, After
  <2>2. CASE pv[s] # p
    <3>1. nx2[p] = nx[p]
      BY <2>2 DEF NextWithout
    <3>2. ASSUME nx[p] = s PROVE FALSE
      <4>1. r[p] < r[s]
        BY <1>0, <3>2 DEF After
      <4>2. pv[s] \in N /\ r[pv[s]] < r[s] /\ r[p] <= r[pv[s]]
        BY <1>0, <4>1 DEF Before
      <4>3. r[pv[s]] <= r[p]
        BY <1>0, <3>2, <4>2 DEF After
      <4> QED BY <1>0, <2>2, <4>2, <4>3
    <3> QED BY <3>1, <3>2
  <2> QED BY <2>1, <2>2
<1>3. ASSUME NEW p \in M PROVE pv2[p] # s
  <2>1. CASE nx[s] = p
    BY <1>0, <2>1 DEF PrevWithout, Before
  <2>2. CASE nx[s] # p
    <3>1. pv2[p] = pv[p]
      BY <2>2 DEF PrevWithout
    <3>2. ASSUME pv[p] = s PROVE FALSE
      <4>1. r[s] < r[p]
        BY <1>0, <3>2 DEF Before
      <4>2. nx[s] \in N /\ r[s] < r[nx[s]] /\ r[nx[s]] <= r[p]
        BY <1>0, <4>1 DEF After
      <4>3. r[p] <= r[nx[s]]
        BY <1>0, <3>2, <4>2 DEF Before
      <4> QED BY <1>0, <2>2, <4>2, <4>3
    <3> QED BY <3>1, <3>2
  <2> QED BY <2>1, <2>2
<1>4. f2 # s
  BY <1>0 DEF FirstWithout, After
<1> HIDE DEF nx2, pv2, f2
<1>5. Ordered(M, M, r, nx2, pv2, f2)
  <2>1. \A p \in M : After(M, M, r, p, nx2[p])
    BY <1>1, <1>2 DEF Ordered, After
  <2>2. \A p \in M : Before(M, M, r, p, pv2[p])
    BY <1>1, <1>3 DEF Ordered, Before
  <2>3. From(M, M, r, f2)
    BY <1>1, <1>4 DEF Ordered, From
  <2> QED BY <1>0, <2>1, <2>2, <2>3 DEF Ordered
<1> QED BY <1>5 DEF nx2, pv2, f2

\* The links with s in front.
NextWith(s, nx, first) == [nx EXCEPT ![s] = first]
PrevWith(s, pv, first) ==
  [n \in Subscribers |-> IF n = s THEN NoSub ELSE IF n = first THEN s ELSE pv[n]]

\* Linking s in front, while nobody walks.
LEMMA LinkExact ==
  ASSUME NEW N \in SUBSET Subscribers, NEW r \in [Subscribers -> Int],
         NEW nx \in [Subscribers -> Subscribers \cup {NoSub}],
         NEW pv \in [Subscribers -> Subscribers \cup {NoSub}],
         NEW first, Ordered(N, N, r, nx, pv, first), NEW s \in Subscribers \ N
  PROVE  \E q \in [Subscribers -> Int] :
           Ordered(N \cup {s}, N \cup {s}, q, NextWith(s, nx, first), PrevWith(s, pv, first), s)
<1> DEFINE M == N \cup {s}
           nx2 == NextWith(s, nx, first)
           pv2 == PrevWith(s, pv, first)
<1>0. /\ NoSub \notin Subscribers
      /\ \A p, t \in N : r[p] = r[t] => p = t
      /\ \A p \in N : r[p] \in Int
      /\ \A p \in N : After(N, N, r, p, nx[p]) /\ Before(N, N, r, p, pv[p])
      /\ From(N, N, r, first)
  BY TopicTreeAssumption DEF Ordered
<1>1. PICK k \in Int : \A n \in N : k < r[n]
  <2>1. CASE first = NoSub
    BY <1>0, <2>1 DEF From
  <2>2. CASE first # NoSub
    <3>1. r[first] - 1 \in Int /\ \A n \in N : r[first] - 1 < r[n]
      BY <1>0, <2>2 DEF From
    <3> QED BY <3>1
  <2> QED BY <2>1, <2>2
<1> DEFINE q == [r EXCEPT ![s] = k]
<1>2. q \in [Subscribers -> Int] /\ q[s] = k /\ \A n \in N : q[n] = r[n]
  OBVIOUS
<1> HIDE DEF q
<1>3. ASSUME NEW p \in M PROVE After(M, M, q, p, nx2[p])
  <2>1. CASE p = s
    BY <1>0, <1>1, <1>2, <2>1 DEF After, From, NextWith
  <2>2. CASE p # s
    <3>1. After(N, N, r, p, nx[p]) /\ nx2[p] = nx[p] /\ p \in N
      BY <1>0, <2>2 DEF NextWith
    <3> QED BY <1>0, <1>1, <1>2, <3>1 DEF After
  <2> QED BY <2>1, <2>2
<1>4. ASSUME NEW p \in M PROVE Before(M, M, q, p, pv2[p])
  <2>1. CASE p = s
    BY <1>1, <1>2, <2>1 DEF Before, PrevWith
  <2>2. CASE p # s /\ p = first
    <3>1. pv2[p] = s /\ p \in N /\ \A n \in N : r[p] <= r[n]
      BY <1>0, <2>2 DEF From, PrevWith
    <3> QED BY <1>0, <1>1, <1>2, <3>1 DEF Before
  <2>3. CASE p # s /\ p # first
    <3>1. Before(N, N, r, p, pv[p]) /\ pv2[p] = pv[p] /\ p \in N
      BY <1>0, <2>3 DEF PrevWith
    <3>2. pv[p] # NoSub
      <4>1. first \in N /\ r[first] <= r[p]
        BY <1>0, <3>1 DEF From
      <4> QED BY <1>0, <2>3, <3>1, <4>1 DEF Before
    <3> QED BY <1>0, <1>1, <1>2, <3>1, <3>2 DEF Before
  <2> QED BY <2>1, <2>2, <2>3
<1>5. From(M, M, q, s)
  BY <1>0, <1>1, <1>2 DEF From
<1> HIDE DEF nx2, pv2
<1>6. Ordered(M, M, q, nx2, pv2, s)
  BY <1>0, <1>1, <1>2, <1>3, <1>4, <1>5 DEF Ordered
<1> QED BY <1>2, <1>6 DEF nx2, pv2

\* More addresses are allocated.
LEMMA LinkedMore ==
  ASSUME NEW C, NEW A, NEW B, A \subseteq B, NEW N, NEW nx, NEW pv, NEW first,
         Linked(C, A, N, nx, pv, first)
  PROVE  Linked(C, B, N, nx, pv, first)
  BY DEF Linked

\* A walk begins at the head of the list.
LEMMA LinkedBegin ==
  ASSUME NEW A, NEW N, NEW nx, NEW pv, NEW first, NEW C \in {{}, {first}},
         Linked({}, A, N, nx, pv, first)
  PROVE  Linked(C, A, N, nx, pv, first)
  BY DEF Linked, Ordered

\* One that needs no drainage any more leaves the list.
LEMMA UnlinkLinked ==
  ASSUME TypeOK, ListInv, NEW s \in Subscribers, NeedsDrainage(s), Unlink(s)
  PROVE  /\ Linked(Cursors(stack), Allocated, Waiting \ {s}, next', prev', drainable')
         /\ Cursors(stack) = {} =>
              Linked(Cursors(stack), Allocated \ {s}, Waiting \ {s}, next', prev', drainable')
<1> DEFINE N == Waiting
           C == Cursors(stack)
           nx == NextWithout(s, next, prev)
           pv == PrevWithout(s, next, prev)
           hd == FirstWithout(s, next, drainable)
<1>1. PICK V \in SUBSET Allocated, r \in [Subscribers -> Int] :
        /\ Ordered(V, N, r, next, prev, drainable)
        /\ V = N \/ C # {}
        /\ \A c \in C : From(V, N, r, c)
  BY DEF ListInv, Linked
<1>2. next' = nx /\ prev' = pv /\ drainable' = hd
  BY DEF Unlink, HeadWithout, NextWithout, PrevWithout, FirstWithout
<1>3. /\ next \in [Subscribers -> Subscribers \cup {NoSub}]
      /\ prev \in [Subscribers -> Subscribers \cup {NoSub}]
      /\ V \in SUBSET Subscribers /\ s \in N /\ N \in SUBSET Subscribers
  BY <1>1 DEF TypeOK, Allocated, Waiting
<1> HIDE DEF N, C, nx, pv, hd
<1>4. Ordered(V, N \ {s}, r, nx, pv, hd)
  BY <1>1, <1>3, UnlinkOrdered DEF nx, pv, hd
<1>5. \A c \in C : From(V, N \ {s}, r, c)
  BY <1>1, <1>3, OrderedLess
<1>6. CASE C # {}
  <2>1. Linked(C, Allocated, N \ {s}, nx, pv, hd)
    BY <1>4, <1>5, <1>6 DEF Linked
  <2> QED BY <1>2, <1>6, <2>1 DEF N, C
<1>7. CASE C = {}
  <2>1. Ordered(N \ {s}, N \ {s}, r, nx, pv, hd)
    BY <1>1, <1>3, <1>7, UnlinkExact DEF nx, pv, hd
  <2>2. N \ {s} \in SUBSET (Allocated \ {s}) /\ N \ {s} \in SUBSET Allocated
    BY <1>1, <1>7
  <2>3. Linked(C, Allocated \ {s}, N \ {s}, nx, pv, hd)
    BY <1>7, <2>1, <2>2 DEF Linked
  <2>4. Linked(C, Allocated, N \ {s}, nx, pv, hd)
    BY <1>7, <2>1, <2>2 DEF Linked
  <2> QED BY <1>2, <2>3, <2>4 DEF N, C
<1> QED BY <1>6, <1>7

\* Who still waits.
LEMMA WaitingWithout ==
  ASSUME TypeOK, NEW s \in Subscribers, indices' = [indices EXCEPT ![s] = <<>>]
  PROVE  Waiting' = Waiting \ {s}
  BY DEF TypeOK, Waiting, NeedsDrainage

\* A subscriber is drained.
LEMMA BeginDrainLinked ==
  ASSUME TypeOK, ListInv, NEW s \in Subscribers, NeedsDrainage(s), NEW rest, BeginDrain(s, rest),
         Cursors(stack') = Cursors(stack), UNCHANGED status
  PROVE  ListInv'
<1>1. Unlink(s) /\ indices' = [indices EXCEPT ![s] = <<>>]
  BY DEF BeginDrain
<1>2. Waiting' = Waiting \ {s} /\ Allocated' = Allocated
  BY <1>1, WaitingWithout DEF Allocated
<1>3. Linked(Cursors(stack), Allocated, Waiting \ {s}, next', prev', drainable')
  BY <1>1, UnlinkLinked
<1> QED BY <1>2, <1>3 DEF ListInv

\* Something is sent.
LEMMA BeginSendLinked ==
  ASSUME TypeOK, ListInv, NEW s \in Subscribers, NEW m, NEW rest, BeginSend(s, m, rest),
         Cursors(stack') = Cursors(stack), UNCHANGED status
  PROVE  ListInv'
<1>1. CASE UNCHANGED listVars
  <2>1. Waiting' = Waiting /\ Allocated' = Allocated
    BY <1>1 DEF listVars, Waiting, NeedsDrainage, Allocated
  <2> QED BY <1>1, <2>1 DEF ListInv, listVars
<1>2. CASE NeedsDrainage(s) /\ BeginDrain(s, <<SendFrame(s, m)>> \o rest)
  BY <1>2, BeginDrainLinked
<1> QED BY <1>1, <1>2 DEF BeginSend, Behind

\* A deleted subscriber.
LEMMA DestroyStatus ==
  ASSUME TypeOK, NEW s \in Subscribers, Destroy(s)
  PROVE  Allocated' = Allocated \ {s} /\ status' = [status EXCEPT ![s] = "none"]
  BY DEF Destroy, Allocated, TypeOK

\* Who is not in the list may be deleted while nobody walks it.
LEMMA LinkedDelete ==
  ASSUME NEW A, NEW N, NEW s, s \notin N, NEW nx, NEW pv, NEW first, Linked({}, A, N, nx, pv, first)
  PROVE  Linked({}, A \ {s}, N, nx, pv, first)
  BY DEF Linked

\* A subscriber is freed.
LEMMA FreeLinked ==
  ASSUME TypeOK, StackInv, ListInv, NEW s \in Subscribers, status[s] = "live", FreeSubscriber(s),
         UNCHANGED stack
  PROVE  ListInv'
<1>1. indices' = [indices EXCEPT ![s] = <<>>] /\ Waiting' = Waiting \ {s}
  BY WaitingWithout DEF FreeSubscriber
<1>2. \/ Allocated' = Allocated
      \/ Cursors(stack) = {} /\ Allocated' = Allocated \ {s}
  <2>1. CASE status' = [status EXCEPT ![s] = "doomed"]
    BY <2>1 DEF Allocated, TypeOK
  <2>2. CASE drainingDepth = 0 /\ Destroy(s)
    BY <2>2, Calm, DestroyStatus
  <2> QED BY <2>1, <2>2 DEF FreeSubscriber, TypeOK
<1>3. CASE NeedsDrainage(s)
  <2>1. Unlink(s)
    BY <1>3 DEF FreeSubscriber
  <2>2. /\ Linked(Cursors(stack), Allocated, Waiting \ {s}, next', prev', drainable')
        /\ Cursors(stack) = {} =>
             Linked(Cursors(stack), Allocated \ {s}, Waiting \ {s}, next', prev', drainable')
    BY <1>3, <2>1, UnlinkLinked
  <2> QED BY <1>1, <1>2, <2>2 DEF ListInv
<1>4. CASE ~NeedsDrainage(s)
  <2>1. UNCHANGED <<prev, next, drainable>> /\ s \notin Waiting /\ Waiting' = Waiting
    BY <1>1, <1>4 DEF FreeSubscriber, Waiting
  <2>2. Linked(Cursors(stack), Allocated', Waiting, next, prev, drainable)
    BY <1>2, <2>1, LinkedDelete DEF ListInv
  <2> QED BY <2>1, <2>2 DEF ListInv
<1> QED BY <1>3, <1>4

\* A publish links a subscriber that waited for nothing.
LEMMA ReferenceLinked ==
  ASSUME TypeOK, ListInv, NEW f, NEW s \in Allocated, Reference(f, s), Cursors(stack) = {},
         Cursors(stack') = {}, UNCHANGED status
  PROVE  ListInv'
<1>1. s \in Subscribers /\ Allocated' = Allocated
  BY DEF Allocated
<1>2. Waiting' = Waiting \cup {s}
  <2> DEFINE i == NextIndex
  <2>1. indices' = [indices EXCEPT ![s] = Append(indices[s], i)]
    BY DEF Reference
  <2>2. i \in 0 .. MaxOutgoing /\ indices[s] \in Seq(0 .. MaxOutgoing)
    BY <1>1, NextIndexType, TypeGroups DEF TypeOK
  <2> HIDE DEF i
  <2>3. Append(indices[s], i) # <<>>
    BY <2>2
  <2> QED BY <1>1, <2>1, <2>3 DEF Waiting, NeedsDrainage, TypeOK
<1>3. CASE NeedsDrainage(s)
  <2>1. UNCHANGED <<prev, next, drainable>> /\ Waiting' = Waiting
    BY <1>1, <1>2, <1>3 DEF Reference, LinksNow, Waiting
  <2> QED BY <1>1, <2>1 DEF ListInv
<1>4. CASE ~NeedsDrainage(s)
  <2> DEFINE N == Waiting
             M == N \cup {s}
             nx == NextWith(s, next, drainable)
             pv == PrevWith(s, prev, drainable)
  <2>1. next' = nx /\ prev' = pv /\ drainable' = s
    BY <1>4 DEF Reference, LinksNow, LinkFirst, NextWith, PrevWith
  <2>2. /\ next \in [Subscribers -> Subscribers \cup {NoSub}]
        /\ prev \in [Subscribers -> Subscribers \cup {NoSub}]
        /\ N \in SUBSET Subscribers /\ s \in Subscribers \ N
    BY <1>1, <1>4 DEF TypeOK, Waiting
  <2>3. PICK V \in SUBSET Allocated, r \in [Subscribers -> Int] : Ordered(V, N, r, next, prev, drainable) /\ V = N
    BY DEF ListInv, Linked
  <2> HIDE DEF N
  <2>4. PICK q \in [Subscribers -> Int] : Ordered(M, M, q, nx, pv, s)
    BY <2>2, <2>3, LinkExact
  <2>5. M \in SUBSET Allocated
    BY <2>3
  <2> HIDE DEF M, nx, pv
  <2>6. Linked({}, Allocated, M, nx, pv, s)
    BY <2>4, <2>5 DEF Linked
  <2> QED BY <1>1, <1>2, <2>1, <2>6 DEF ListInv, M, N
<1> QED BY <1>3, <1>4

\* What the newest frame has to visit.
LEMMA VisitHead ==
  ASSUME TypeOK, stack # <<>>, Head(stack).kind \in Iterations
  PROVE  Head(stack).todo \subseteq ToVisit(stack)
<1>1. 1 \in 1 .. Len(stack) /\ stack[1] = Head(stack)
  BY DEF TypeOK
<1> QED BY <1>1 DEF ToVisit, Frames

\* The list is unchanged, and no walk moves.
LEMMA SameList ==
  ASSUME ListInv, UNCHANGED listVars, Allocated \subseteq Allocated',
         \/ Cursors(stack') = Cursors(stack)
         \/ Cursors(stack) = {} /\ Cursors(stack') \in {{}, {drainable}}
  PROVE  ListInv'
<1>1. Waiting' = Waiting /\ UNCHANGED <<prev, next, drainable>>
  BY DEF listVars, Waiting, NeedsDrainage
<1>2. Linked(Cursors(stack'), Allocated, Waiting, next, prev, drainable)
  BY LinkedBegin DEF ListInv
<1>3. Linked(Cursors(stack'), Allocated', Waiting, next, prev, drainable)
  BY <1>2, LinkedMore
<1> QED BY <1>1, <1>3 DEF ListInv

\* The walk over the list moves on, or ends.
LEMMA WalkLinked ==
  ASSUME TypeOK, StackInv, Grounded(stack), ListInv, FreedInv, DrainNext \/ FinishDrainAll
  PROVE  ListInv'
<1> DEFINE s == Head(stack).cur
           N == Waiting
<1>1. /\ Cursors(stack) = {s}
      /\ DrainNext => s \in Subscribers /\ Cursors(stack') = {next[s]}
      /\ FinishDrainAll => Cursors(stack') = {}
  BY WalkSteps
<1>2. PICK V \in SUBSET Allocated, r \in [Subscribers -> Int] :
        Ordered(V, N, r, next, prev, drainable) /\ From(V, N, r, s)
  BY <1>1 DEF ListInv, Linked
<1>3. Allocated' = Allocated
  BY DEF DrainNext, FinishDrainAll, treeVars, Allocated
<1>4. CASE DrainNext
  <2>1. s \in Subscribers /\ s # NoSub /\ Cursors(stack') = {next[s]}
    BY <1>1, <1>4, TopicTreeAssumption
  <2>2. UNCHANGED <<prev, next, drainable>> /\ Waiting' = N \ {s}
    <3>1. CASE WasFreed(s)
      BY <1>4, <2>1, <3>1 DEF DrainNext, FreedInv, WasFreed, Waiting, NeedsDrainage
    <3>2. CASE ~WasFreed(s)
      BY <1>4, <2>1, <3>2, WaitingWithout DEF DrainNext
    <3> QED BY <3>1, <3>2
  <2> HIDE DEF s, N
  <2>3. s \in V /\ V \in SUBSET Subscribers
    BY <1>2, <2>1 DEF From, Allocated
  <2>4. Ordered(V, N \ {s}, r, next, prev, drainable)
    BY <1>2, <2>3, OrderedLess
  <2>5. From(V, N \ {s}, r, next[s])
    BY <1>2, <2>3, WalkOn
  <2>6. Linked({next[s]}, Allocated, N \ {s}, next, prev, drainable)
    BY <2>4, <2>5 DEF Linked
  <2> QED BY <1>3, <2>1, <2>2, <2>6 DEF ListInv
<1>5. CASE FinishDrainAll
  <2>1. /\ s = NoSub /\ Cursors(stack') = {} /\ drainable' = NoSub
        /\ UNCHANGED <<prev, next>> /\ Waiting' = Waiting
    BY <1>1, <1>5 DEF FinishDrainAll, Waiting, NeedsDrainage
  <2>2. N = {}
    BY <1>2, <2>1 DEF From
  <2>3. Ordered({}, {}, r, next, prev, NoSub)
    BY DEF Ordered, From
  <2>4. Linked({}, Allocated, {}, next, prev, NoSub)
    BY <2>3 DEF Linked
  <2> QED BY <1>3, <2>1, <2>2, <2>4 DEF ListInv
<1> QED BY <1>4, <1>5

\* A publish visits a subscriber.
LEMMA VisitLinked ==
  ASSUME TypeOK, StackInv, Grounded(stack), ListInv, VisitInv, PublishVisit \/ PublishBigVisit
  PROVE  ListInv'
<1> DEFINE f == Head(stack)
<1>1. stack # <<>> /\ f.kind \in Iterations /\ f.kind \in Grounds /\ f.kind # "drainAll"
  BY DEF PublishVisit, PublishBigVisit, Running, Iterations, Grounds
<1>2. Cursors(stack') = Cursors(stack) /\ Cursors(stack) = {}
  BY <1>1, LikeSteps, BelowGround DEF Like
<1>3. f.todo \subseteq Allocated /\ Allocated \subseteq Subscribers /\ UNCHANGED status
  BY <1>1, VisitHead DEF VisitInv, Allocated, PublishVisit, PublishBigVisit, treeVars
<1>4. CASE PublishVisit
  <2>1. PICK s \in f.todo :
          \/ UNCHANGED listVars
          \/ Len(indices[s]) = MaxIndices /\ BeginDrain(s, Top([f EXCEPT !.cur = s]))
          \/ Reference(f, s)
    BY <1>4 DEF PublishVisit
  <2>2. s \in Allocated /\ s \in Subscribers
    BY <1>3
  <2>3. CASE UNCHANGED listVars
    BY <1>2, <1>3, <2>3, SameList DEF Allocated
  <2>4. CASE Len(indices[s]) = MaxIndices /\ BeginDrain(s, Top([f EXCEPT !.cur = s]))
    <3>1. NeedsDrainage(s)
      BY <2>2, <2>4, TopicTreeAssumption DEF NeedsDrainage, TypeOK
    <3> QED BY <1>2, <1>3, <2>2, <2>4, <3>1, BeginDrainLinked
  <2>5. CASE Reference(f, s)
    BY <1>2, <1>3, <2>2, <2>5, ReferenceLinked
  <2> QED BY <2>1, <2>3, <2>4, <2>5
<1>5. CASE PublishBigVisit
  <2>1. PICK s \in f.todo :
          \/ UNCHANGED listVars
          \/ BeginSend(s, f.msg, Top([f EXCEPT !.todo = f.todo \ {s}]))
    BY <1>5 DEF PublishBigVisit
  <2>2. s \in Subscribers
    BY <1>3
  <2>3. CASE UNCHANGED listVars
    BY <1>2, <1>3, <2>3, SameList DEF Allocated
  <2> QED BY <1>2, <1>3, <2>1, <2>2, <2>3, BeginSendLinked
<1> QED BY <1>4, <1>5

\* Every step keeps the list.
LEMMA ListStep ==
  TypeOK /\ StackInv /\ Grounded(stack) /\ ListInv /\ FreedInv /\ VisitInv /\ [Next]_vars => ListInv'
<1> SUFFICES ASSUME TypeOK, StackInv, Grounded(stack), ListInv, FreedInv, VisitInv, [Next]_vars
             PROVE  ListInv'
  OBVIOUS
<1>1. ASSUME NEW s \in Subscribers, NEW t \in Topics, Subscribe(s, t) \/ Unsubscribe(s, t)
      PROVE  ListInv'
  <2>1. UNCHANGED <<listVars, stack>> /\ Allocated \subseteq Allocated'
    BY <1>1 DEF Subscribe, Unsubscribe, Allocated, TypeOK
  <2> QED BY <2>1, SameList
<1>2. ASSUME NEW s \in Subscribers, Close(s) \/ End(s) PROVE ListInv'
  <2>1. CASE FreeSubscriber(s)
    <3>1. status[s] = "live" /\ UNCHANGED stack
      BY <1>2 DEF Close, End, Live
    <3> QED BY <2>1, <3>1, FreeLinked
  <2>2. CASE UNCHANGED <<treeVars, listVars, stack>>
    BY <2>2, SameList DEF treeVars, Allocated
  <2> QED BY <1>2, <2>1, <2>2 DEF Close, End
<1>3. CASE UNCHANGED <<treeVars, listVars>> /\ Cursors(stack') = Cursors(stack)
  BY <1>3, SameList DEF treeVars, Allocated
<1>4. CASE \/ DrainMessage \/ FinishDrain \/ FinishSend \/ HandlerReturn
           \/ FinishPublish \/ FinishPublishBig \/ FinishApply
  <2>1. Cursors(stack') = Cursors(stack)
    BY <1>4, LikeSteps DEF Like
  <2> QED BY <1>3, <1>4, <2>1
          DEF DrainMessage, FinishDrain, FinishSend, HandlerReturn, FinishPublish, FinishPublishBig,
              FinishApply
<1>5. ASSUME NEW s \in Subscribers, Send(s) PROVE ListInv'
  <2>1. Cursors(stack') = Cursors(stack)
    BY <1>5, LikeSteps DEF Like
  <2> QED BY <1>5, <2>1, BeginSendLinked DEF Send, treeVars
<1>6. CASE UNCHANGED <<treeVars, listVars>> /\ Cursors(stack) = {} /\ Cursors(stack') \in {{}, {drainable}}
  BY <1>6, SameList DEF treeVars, Allocated
<1>7. ASSUME NEW s \in Subscribers \cup {NoSub}, NEW t \in Topics, Publish(s, t) PROVE ListInv'
  <2>1. lastCall + 1 \in 0 .. MaxCalls /\ UNCHANGED <<treeVars, listVars>>
    BY <1>7, TopicTreeAssumption DEF Publish, TypeOK
  <2>2. CASE drainingDepth = 0 /\ BeginPublish(s, t, lastCall + 1, stack)
    BY <1>6, <2>1, <2>2, BeginSteps
  <2>3. CASE UNCHANGED stack
    BY <1>3, <2>1, <2>3
  <2> QED BY <1>7, <2>2, <2>3 DEF Publish
<1>8. CASE LoopDrain
  BY <1>6, <1>8, BeginSteps DEF LoopDrain
<1>9. CASE ApplyOp
  BY <1>9, ApplySteps, SameList DEF ApplyOp, Allocated
<1>10. ASSUME NEW s \in Subscribers \cup {NoSub}, NEW t \in Topics, PublishBig(s, t) PROVE ListInv'
  <2>1. Cursors(stack) = {} /\ Cursors(stack') = {}
    BY <1>10, IterateSteps
  <2> QED BY <1>3, <1>10, <2>1 DEF PublishBig
<1>11. CASE StartIterating
  <2>1. Head(stack).topic \in Topics
    BY <1>11, HeadFrame DEF StartIterating, Running, Frame, FrameRecord, Walks
  <2>2. Cursors(stack) = {} /\ Cursors(stack') = {}
    BY <1>11, <2>1, IterateSteps
  <2> QED BY <1>3, <1>11, <2>2 DEF StartIterating
<1>12. CASE FreePending
  <2> DEFINE s == Head(pendingFree)
  <2>1. UNCHANGED <<listVars, stack>> /\ Destroy(s) /\ s \in Subscribers
    BY <1>12 DEF FreePending, TypeOK
  <2>2. Cursors(stack) = {}
    BY <1>12, BelowGround DEF FreePending, Running, Grounds
  <2>3. s \notin Waiting
    <3>1. 1 \in 1 .. Len(pendingFree) /\ pendingFree[1] = s
      BY <1>12 DEF FreePending, TypeOK
    <3>2. status[s] = "doomed"
      BY <2>1, <3>1 DEF FreedInv
    <3> QED BY <2>1, <3>2 DEF FreedInv, Waiting, NeedsDrainage
  <2>4. Allocated' = Allocated \ {s}
    BY <2>1, DestroyStatus
  <2> HIDE DEF s
  <2>5. Linked({}, Allocated \ {s}, Waiting, next, prev, drainable)
    BY <2>2, <2>3, LinkedDelete DEF ListInv
  <2> QED BY <2>1, <2>2, <2>4, <2>5 DEF ListInv, listVars, Waiting, NeedsDrainage
<1>13. CASE (\E s \in Subscribers : Writable(s)) \/ UNCHANGED vars
  BY <1>3, <1>13 DEF Writable, vars
<1> QED BY <1>1, <1>2, <1>4, <1>5, <1>7, <1>8, <1>9, <1>10, <1>11, <1>12, <1>13, WalkLinked, VisitLinked
        DEF Next, Step, Loop, Application, Library

-----------------------------------------------------------------------------
(* Freed subscribers, and what a publish has to visit.                     *)

\* Nobody is freed, nobody gets something to drain.
LEMMA FreedSame ==
  ASSUME FreedInv, UNCHANGED <<status, topicsOf, pendingFree>>,
         \A s \in Subscribers : indices[s] = <<>> => indices'[s] = <<>>
  PROVE  FreedInv'
  BY DEF FreedInv

\* Freeing a subscriber, now or later.
LEMMA FreeFreed ==
  ASSUME TypeOK, FreedInv, NEW s \in Subscribers, status[s] = "live", FreeSubscriber(s)
  PROVE  FreedInv'
<1>1. indices' = [indices EXCEPT ![s] = <<>>]
  BY DEF FreeSubscriber
<1>2. \A n \in Subscribers : status[n] # "live" \/ n = s => indices'[n] = <<>>
  BY <1>1 DEF FreedInv, TypeOK
<1>3. CASE Destroy(s) /\ UNCHANGED deferVars
  <2>1. /\ status' = [status EXCEPT ![s] = "none"] /\ topicsOf' = [topicsOf EXCEPT ![s] = {}]
        /\ pendingFree' = pendingFree
    BY <1>3 DEF Destroy, deferVars
  <2> QED BY <1>2, <2>1 DEF FreedInv, TypeOK
<1>4. CASE /\ pendingFree' = Append(pendingFree, s)
           /\ status' = [status EXCEPT ![s] = "doomed"]
           /\ UNCHANGED topicsOf
  <2> DEFINE k == Len(pendingFree)
  <2>1. /\ k \in Nat /\ Len(pendingFree') = k + 1 /\ pendingFree'[k + 1] = s
        /\ \A i \in 1 .. k : pendingFree'[i] = pendingFree[i]
    BY <1>4 DEF TypeOK
  <2>2. \A i \in 1 .. k : pendingFree[i] # s
    BY DEF FreedInv
  <2> HIDE DEF k
  <2>3. \A n \in Subscribers : status'[n] = "doomed" <=> \E i \in 1 .. k + 1 : pendingFree'[i] = n
    <3>1. \A n \in Subscribers : status[n] = "doomed" <=> \E i \in 1 .. k : pendingFree[i] = n
      BY DEF FreedInv, k
    <3>2. status'[s] = "doomed" /\ \A n \in Subscribers : n # s => status'[n] = status[n]
      BY <1>4 DEF TypeOK
    <3>3. k + 1 \in 1 .. k + 1 /\ \A i \in 1 .. k + 1 : i \in 1 .. k \/ i = k + 1
      BY <2>1
    <3>4. \A i \in 1 .. k : i \in 1 .. k + 1
      BY <2>1
    <3> QED BY <2>1, <3>1, <3>2, <3>3, <3>4
  <2>4. \A i, j \in 1 .. k + 1 : pendingFree'[i] = pendingFree'[j] => i = j
    <3>1. \A i, j \in 1 .. k : pendingFree[i] = pendingFree[j] => i = j
      BY DEF FreedInv, k
    <3>2. \A i \in 1 .. k + 1 : i \in 1 .. k \/ i = k + 1
      BY <2>1
    <3>3. ASSUME NEW i \in 1 .. k + 1, NEW j \in 1 .. k + 1, pendingFree'[i] = pendingFree'[j]
          PROVE  i = j
      <4>1. CASE i \in 1 .. k /\ j \in 1 .. k
        <5>1. pendingFree[i] = pendingFree[j]
          BY <2>1, <3>3, <4>1
        <5> QED BY <3>1, <4>1, <5>1
      <4>2. CASE i = k + 1 \/ j = k + 1
        <5>1. i \notin 1 .. k /\ j \notin 1 .. k
          BY <2>1, <2>2, <3>3, <4>2
        <5> QED BY <3>2, <5>1
      <4> QED BY <3>2, <4>1, <4>2
    <3> QED BY <3>3
  <2>5. \A n \in Subscribers : status'[n] # "live" => indices'[n] = <<>>
    BY <1>2, <1>4 DEF TypeOK
  <2>6. \A n \in Subscribers : status'[n] = "none" => topicsOf'[n] = {}
    BY <1>4 DEF FreedInv, TypeOK
  <2>7. Len(pendingFree') = k + 1
    BY <2>1
  <2> QED BY <2>3, <2>4, <2>5, <2>6, <2>7 DEF FreedInv
<1> QED BY <1>3, <1>4 DEF FreeSubscriber

\* The deferred delete of the first one queued.
LEMMA PendingFreed ==
  ASSUME TypeOK, FreedInv, FreePending
  PROVE  FreedInv'
<1> DEFINE s == Head(pendingFree)
           k == Len(pendingFree)
<1>1. /\ k \in Nat /\ k > 0 /\ pendingFree[1] = s /\ s \in Subscribers
      /\ Len(pendingFree') = k - 1 /\ \A i \in 1 .. k - 1 : pendingFree'[i] = pendingFree[i + 1]
  BY DEF FreePending, TypeOK
<1>2. /\ status' = [status EXCEPT ![s] = "none"] /\ topicsOf' = [topicsOf EXCEPT ![s] = {}]
      /\ indices' = indices
  BY DEF FreePending, Destroy, listVars
<1>3. /\ \A n \in Subscribers : status[n] = "doomed" <=> \E i \in 1 .. k : pendingFree[i] = n
      /\ \A i, j \in 1 .. k : pendingFree[i] = pendingFree[j] => i = j
  BY DEF FreedInv
<1> HIDE DEF s, k
<1>4. \A i \in 1 .. k - 1 : pendingFree'[i] = pendingFree[i + 1] /\ i + 1 \in 1 .. k /\ i + 1 # 1
  BY <1>1
<1>5. \A i \in 1 .. k : i = 1 \/ (i - 1 \in 1 .. k - 1 /\ pendingFree'[i - 1] = pendingFree[i])
  BY <1>1
<1>6. 1 \in 1 .. k
  BY <1>1
<1>7. \A n \in Subscribers : status'[n] = "doomed" <=> \E i \in 1 .. k - 1 : pendingFree'[i] = n
  <2>1. ASSUME NEW n \in Subscribers, n # s
        PROVE  status'[n] = "doomed" <=> \E i \in 1 .. k - 1 : pendingFree'[i] = n
    <3>1. status'[n] = status[n]
      BY <1>2, <2>1 DEF TypeOK
    <3>2. (\E i \in 1 .. k : pendingFree[i] = n) <=> \E i \in 1 .. k - 1 : pendingFree'[i] = n
      BY <1>1, <1>4, <1>5, <2>1
    <3> QED BY <1>3, <3>1, <3>2
  <2>2. status'[s] # "doomed" /\ ~\E i \in 1 .. k - 1 : pendingFree'[i] = s
    BY <1>1, <1>2, <1>3, <1>4, <1>6 DEF TypeOK
  <2> QED BY <1>1, <2>1, <2>2
<1>8. \A i, j \in 1 .. k - 1 : pendingFree'[i] = pendingFree'[j] => i = j
  BY <1>1, <1>3, <1>4
<1>9. status[s] = "doomed"
  BY <1>1, <1>3, <1>6
<1> QED BY <1>1, <1>2, <1>7, <1>8, <1>9 DEF FreedInv, TypeOK

\* Beginning to drain or to send only empties.
LEMMA BeginEmpties ==
  ASSUME TypeOK, NEW s \in Subscribers, NEW m, NEW rest,
         BeginDrain(s, rest) \/ BeginSend(s, m, rest) \/ UNCHANGED listVars
  PROVE  \A n \in Subscribers : indices[n] = <<>> => indices'[n] = <<>>
<1>1. UNCHANGED indices \/ indices' = [indices EXCEPT ![s] = <<>>]
  BY DEF BeginSend, BeginDrain, listVars
<1> QED BY <1>1 DEF TypeOK

\* A subscriber that was freed is skipped.
LEMMA VisitedLive ==
  ASSUME TypeOK, DeferInv, FreedInv, VisitInv, stack # <<>>, Head(stack).kind \in Iterations,
         NEW s \in Head(stack).todo
  PROVE  /\ s \in Subscribers /\ s \in Allocated
         /\ ~Skipped(Head(stack), s) => status[s] = "live"
<1>1. s \in Allocated /\ s \in Subscribers
  BY VisitHead DEF VisitInv, Allocated
<1>2. ASSUME status[s] = "doomed" PROVE Skipped(Head(stack), s)
  <2>1. PICK i \in 1 .. Len(pendingFree) : pendingFree[i] = s
    BY <1>1, <1>2 DEF FreedInv
  <2>2. pendingFree # <<>>
    BY <2>1 DEF TypeOK
  <2> QED BY <1>2, <2>2 DEF DeferInv, Skipped, Detached, WasFreed
<1> QED BY <1>1, <1>2 DEF Allocated, TypeOK

\* Every step.
LEMMA FreedStep ==
  TypeOK /\ StackInv /\ DeferInv /\ FreedInv /\ VisitInv /\ [Next]_vars => FreedInv'
<1> SUFFICES ASSUME TypeOK, StackInv, DeferInv, FreedInv, VisitInv, [Next]_vars PROVE FreedInv'
  OBVIOUS
<1>1. ASSUME NEW s \in Subscribers, NEW t \in Topics, Subscribe(s, t) PROVE FreedInv'
  <2>1. /\ status' = [status EXCEPT ![s] = "live"] /\ status[s] # "doomed"
        /\ topicsOf' = [topicsOf EXCEPT ![s] = topicsOf[s] \cup {t}]
        /\ UNCHANGED <<indices, pendingFree>>
    BY <1>1 DEF Subscribe, listVars, deferVars
  <2> QED BY <2>1 DEF FreedInv, TypeOK
<1>2. ASSUME NEW s \in Subscribers, NEW t \in Topics, Unsubscribe(s, t) PROVE FreedInv'
  <2>1. /\ topicsOf' = [topicsOf EXCEPT ![s] = topicsOf[s] \ {t}]
        /\ UNCHANGED <<status, indices, pendingFree>>
    BY <1>2 DEF Unsubscribe, listVars, deferVars
  <2> QED BY <2>1 DEF FreedInv, TypeOK
<1>3. ASSUME NEW s \in Subscribers, Close(s) \/ End(s) PROVE FreedInv'
  <2>1. CASE FreeSubscriber(s)
    <3>1. status[s] = "live"
      BY <1>3 DEF Close, End, Live
    <3> QED BY <2>1, <3>1, FreeFreed
  <2>2. CASE UNCHANGED <<treeVars, listVars, deferVars>>
    BY <2>2, FreedSame DEF treeVars, listVars, deferVars
  <2> QED BY <1>3, <2>1, <2>2 DEF Close, End
<1>4. CASE UNCHANGED <<status, topicsOf, pendingFree>> /\ UNCHANGED indices
  BY <1>4, FreedSame
<1>5. ASSUME NEW s \in Subscribers, Send(s) PROVE FreedInv'
  <2>1. UNCHANGED <<status, topicsOf, pendingFree>> /\ BeginSend(s, lastCall + 1, stack)
    BY <1>5 DEF Send, treeVars, deferVars
  <2> QED BY <2>1, BeginEmpties, FreedSame
<1>6. CASE PublishBigVisit
  <2>1. stack # <<>> /\ Head(stack).kind \in Iterations /\ UNCHANGED <<status, topicsOf, pendingFree>>
    BY <1>6 DEF PublishBigVisit, Running, Iterations, treeVars, deferVars
  <2>2. PICK s \in Head(stack).todo :
          UNCHANGED listVars \/ BeginSend(s, Head(stack).msg, Top([Head(stack) EXCEPT !.todo = @ \ {s}]))
    BY <1>6 DEF PublishBigVisit
  <2>3. s \in Subscribers
    BY <2>1, VisitedLive
  <2>4. \A n \in Subscribers : indices[n] = <<>> => indices'[n] = <<>>
    BY <2>2, <2>3, BeginEmpties
  <2> QED BY <2>1, <2>4, FreedSame
<1>7. CASE PublishVisit
  <2> DEFINE f == Head(stack)
  <2>1. stack # <<>> /\ Head(stack).kind \in Iterations /\ UNCHANGED <<status, topicsOf, pendingFree>>
    BY <1>7 DEF PublishVisit, Running, Iterations, treeVars, deferVars
  <2>2. PICK s \in f.todo :
          \/ UNCHANGED listVars
          \/ BeginDrain(s, Top([f EXCEPT !.cur = s]))
          \/ ~Skipped(f, s) /\ Reference(f, s)
    BY <1>7 DEF PublishVisit
  <2>3. s \in Subscribers /\ (~Skipped(f, s) => status[s] = "live")
    BY <2>1, VisitedLive
  <2>4. CASE UNCHANGED listVars \/ BeginDrain(s, Top([f EXCEPT !.cur = s]))
    <3>1. \A n \in Subscribers : indices[n] = <<>> => indices'[n] = <<>>
      BY <2>3, <2>4, BeginEmpties
    <3> QED BY <2>1, <3>1, FreedSame
  <2>5. CASE ~Skipped(f, s) /\ Reference(f, s)
    <3>1. status[s] = "live" /\ \A n \in Subscribers : n # s => indices'[n] = indices[n]
      BY <2>3, <2>5 DEF Reference, TypeOK
    <3> QED BY <2>1, <3>1 DEF FreedInv
  <2> QED BY <2>2, <2>4, <2>5
<1>8. CASE DrainNext
  <2>1. Head(stack).cur \in Subscribers
    BY <1>8, HeadFrame DEF DrainNext, Running, Frame, FrameRecord
  <2>2. \A n \in Subscribers : indices[n] = <<>> => indices'[n] = <<>>
    BY <1>8, <2>1 DEF DrainNext, TypeOK
  <2> QED BY <1>8, <2>2, FreedSame DEF DrainNext, treeVars, deferVars
<1>9. CASE \/ \E s \in Subscribers \cup {NoSub}, t \in Topics : Publish(s, t) \/ PublishBig(s, t)
           \/ DrainMessage \/ FinishDrain \/ FinishDrainAll \/ FinishSend \/ StartIterating
           \/ FinishPublish \/ FinishPublishBig
  BY <1>4, <1>9
     DEF Publish, PublishBig, DrainMessage, FinishDrain, FinishDrainAll, FinishSend, StartIterating,
         FinishPublish, FinishPublishBig, treeVars, listVars, deferVars
<1>10. CASE \/ \E s \in Subscribers : Writable(s)
            \/ ApplyOp \/ FinishApply \/ HandlerReturn \/ LoopDrain \/ UNCHANGED vars
  BY <1>4, <1>10
     DEF Writable, ApplyOp, FinishApply, HandlerReturn, LoopDrain, vars, treeVars, listVars, deferVars
<1> QED BY <1>1, <1>2, <1>3, <1>5, <1>6, <1>7, <1>8, <1>9, <1>10, PendingFreed
        DEF Next, Step, Loop, Application, Library

-----------------------------------------------------------------------------
(* What subscribers, topics and the deferred calls say of each other.      *)

\* The deferred calls on a pair are calls.
LEMMA QueuedTypes ==
  ASSUME TypeOK, NEW s, NEW t
  PROVE  /\ Queued(s, t) \in SUBSET (1 .. Len(pendingOps))
         /\ Len(pendingOps) \in Nat
         /\ \A i \in Queued(s, t) :
              /\ pendingOps[i].kind \in Moves
              /\ pendingOps[i].sub = s /\ pendingOps[i].topic = t
         /\ \A i \in 1 .. Len(pendingOps) :
              pendingOps[i].kind \in Moves /\ pendingOps[i].sub = s /\ pendingOps[i].topic = t =>
                i \in Queued(s, t)
<1>1. pendingOps \in Seq(PendingOp)
  BY DEF TypeOK
<1>2. DOMAIN pendingOps = 1 .. Len(pendingOps) /\ Len(pendingOps) \in Nat
  BY <1>1
<1> QED BY <1>2 DEF Queued, Moves

\* The first of them takes the pair out of its state, the last one leads to what
\* Subscriber::topics says.
LEMMA FirstQueued ==
  ASSUME TypeOK, MemberInv, NEW s \in Subscribers, NEW t \in Topics, Queued(s, t) # {}
  PROVE  /\ \E i \in Queued(s, t) :
              /\ \A j \in Queued(s, t) : i <= j
              /\ pendingOps[i].kind = "unsubscribe" <=> s \in members[t]
         /\ \E i \in Queued(s, t) :
              /\ \A j \in Queued(s, t) : j <= i
              /\ pendingOps[i].kind = "subscribe" <=> t \in topicsOf[s]
<1>1. Queued(s, t) \in SUBSET (1 .. Len(pendingOps)) /\ Len(pendingOps) \in Nat
  BY QueuedTypes
<1>2. Alternate(pendingOps, Queued(s, t), s \in members[t], t \in topicsOf[s])
  BY DEF MemberInv, Matched
<1>3. \E i \in Queued(s, t) : \A j \in Queued(s, t) : i <= j
  <2>1. Queued(s, t) \in SUBSET Nat
    BY <1>1
  <2> QED BY <2>1, LeastNatural
<1>4. \E i \in Queued(s, t) : \A j \in Queued(s, t) : j <= i
  <2>1. Queued(s, t) \in SUBSET Nat /\ \A j \in Queued(s, t) : j <= Len(pendingOps)
    BY <1>1
  <2> QED BY <1>1, <2>1, GreatestNatural
<1> QED BY <1>2, <1>3, <1>4 DEF Alternate

\* Members are allocated.
LEMMA MembersAllocated ==
  ASSUME TypeOK, FreedInv, MemberInv, QueueInv
  PROVE  \A t \in Topics : members[t] \subseteq Allocated
<1> SUFFICES ASSUME NEW t \in Topics, NEW s \in members[t], s \notin Allocated PROVE FALSE
  OBVIOUS
<1>1. s \in Subscribers /\ status[s] = "none" /\ topicsOf[s] = {}
  BY DEF TypeOK, Allocated, FreedInv
<1>2. Queued(s, t) # {}
  BY <1>1 DEF MemberInv, Matched, Alternate
<1>3. PICK i \in Queued(s, t) : TRUE
  BY <1>2
<1>4. i \in 1 .. Len(pendingOps) /\ pendingOps[i].kind \in Moves /\ pendingOps[i].sub = s
  BY <1>3, QueuedTypes
<1> QED BY <1>1, <1>4 DEF QueueInv

\* Only outside of draining sections is a subscriber deleted.
LEMMA AllocatedStep ==
  ASSUME TypeOK, StackInv, Grounded(stack), [Next]_vars
  PROVE  Allocated \subseteq Allocated' \/ (ToVisit(stack) = {} /\ UNCHANGED stack)
<1>1. ASSUME NEW s \in Subscribers, NEW t \in Topics, Subscribe(s, t) \/ Unsubscribe(s, t)
      PROVE  Allocated \subseteq Allocated'
  BY <1>1 DEF Subscribe, Unsubscribe, Allocated, TypeOK
<1>2. ASSUME NEW s \in Subscribers, Close(s) \/ End(s)
      PROVE  Allocated \subseteq Allocated' \/ (ToVisit(stack) = {} /\ UNCHANGED stack)
  <2>1. UNCHANGED stack
    BY <1>2 DEF Close, End
  <2>2. CASE status' = [status EXCEPT ![s] = "doomed"]
    BY <2>2 DEF Allocated, TypeOK
  <2>3. CASE drainingDepth = 0
    BY <2>1, <2>3, Calm
  <2>4. CASE UNCHANGED status
    BY <2>4 DEF Allocated
  <2>5. drainingDepth \in Nat
    BY DEF TypeOK
  <2>6. FreeSubscriber(s) \/ UNCHANGED status
    BY <1>2 DEF Close, End, treeVars
  <2>7. FreeSubscriber(s) => status' = [status EXCEPT ![s] = "doomed"] \/ drainingDepth = 0
    BY <2>5 DEF FreeSubscriber
  <2> QED BY <2>2, <2>3, <2>4, <2>6, <2>7
<1>3. CASE FreePending
  <2>1. drainingDepth = 0 /\ UNCHANGED stack
    BY <1>3, BelowGround DEF FreePending, Running, Grounds, Drains
  <2> QED BY <2>1, Calm
<1>4. CASE UNCHANGED status
  BY <1>4 DEF Allocated
<1>5. CASE \/ \E s \in Subscribers \cup {NoSub}, t \in Topics : Publish(s, t) \/ PublishBig(s, t)
           \/ \E s \in Subscribers : Send(s) \/ Writable(s)
           \/ DrainMessage \/ FinishDrain \/ DrainNext \/ FinishDrainAll \/ FinishSend
           \/ StartIterating \/ PublishVisit \/ PublishBigVisit
  BY <1>4, <1>5
     DEF Publish, PublishBig, Send, Writable, DrainMessage, FinishDrain, DrainNext, FinishDrainAll,
         FinishSend, StartIterating, PublishVisit, PublishBigVisit, treeVars
<1>6. CASE \/ FinishPublish \/ FinishPublishBig \/ ApplyOp \/ FinishApply \/ HandlerReturn
           \/ LoopDrain \/ UNCHANGED vars
  BY <1>4, <1>6
     DEF FinishPublish, FinishPublishBig, ApplyOp, FinishApply, HandlerReturn, LoopDrain, vars, treeVars
<1> QED BY <1>1, <1>2, <1>3, <1>5, <1>6 DEF Next, Step, Loop, Application, Library

\* What a publish has to visit stays allocated.
LEMMA VisitStep ==
  TypeOK /\ StackInv /\ Grounded(stack) /\ FreedInv /\ VisitInv /\ MemberInv /\ QueueInv /\ [Next]_vars
    => VisitInv'
<1> SUFFICES ASSUME TypeOK, StackInv, Grounded(stack), FreedInv, VisitInv, MemberInv, QueueInv,
                    [Next]_vars
             PROVE  VisitInv'
  OBVIOUS
<1>0. \/ Allocated \subseteq Allocated'
      \/ ToVisit(stack) = {} /\ UNCHANGED stack
  BY AllocatedStep
<1>1. CASE UNCHANGED stack \/ ToVisit(stack') = {} \/ ToVisit(stack') \subseteq ToVisit(stack)
  BY <1>0, <1>1 DEF VisitInv
<1>2. CASE \/ \E s \in Subscribers, t \in Topics : Subscribe(s, t) \/ Unsubscribe(s, t)
           \/ \E s \in Subscribers : Close(s) \/ End(s) \/ Writable(s)
           \/ FreePending \/ UNCHANGED vars
  BY <1>1, <1>2 DEF Subscribe, Unsubscribe, Close, End, Writable, FreePending, vars, nested
<1>3. CASE \/ \E s \in Subscribers : Send(s)
           \/ DrainMessage \/ FinishDrain \/ FinishSend \/ HandlerReturn
           \/ PublishVisit \/ FinishPublish \/ PublishBigVisit \/ FinishPublishBig \/ FinishApply
  BY <1>1, <1>3, LikeSteps DEF Like
<1>4. ASSUME NEW s \in Subscribers \cup {NoSub}, NEW t \in Topics, Publish(s, t) PROVE VisitInv'
  <2>1. CASE drainingDepth = 0 /\ BeginPublish(s, t, lastCall + 1, stack)
    <3>1. lastCall + 1 \in 0 .. MaxCalls
      BY <1>4, TopicTreeAssumption DEF Publish, TypeOK
    <3> QED BY <1>1, <2>1, <3>1, BeginSteps
  <2> QED BY <1>1, <1>4, <2>1 DEF Publish
<1>5. CASE LoopDrain
  BY <1>1, <1>5, BeginSteps
<1>6. CASE ApplyOp
  BY <1>1, <1>6, ApplySteps
<1>7. ASSUME NEW t \in Topics, ToVisit(stack') \subseteq members[t], UNCHANGED status PROVE VisitInv'
  BY <1>7, MembersAllocated DEF VisitInv, Allocated
<1>8. ASSUME NEW s \in Subscribers \cup {NoSub}, NEW t \in Topics, PublishBig(s, t) PROVE VisitInv'
  BY <1>7, <1>8, IterateSteps DEF PublishBig, treeVars
<1>9. CASE StartIterating
  <2>1. Head(stack).topic \in Topics
    BY <1>9, HeadFrame DEF StartIterating, Running, Frame, FrameRecord, Walks
  <2> QED BY <1>7, <1>9, <2>1, IterateSteps DEF StartIterating, treeVars
<1>10. CASE DrainNext \/ FinishDrainAll
  BY <1>1, <1>10, WalkSteps
<1> QED BY <1>2, <1>3, <1>4, <1>5, <1>6, <1>8, <1>9, <1>10 DEF Next, Step, Loop, Application, Library

\* Positions are numbers.
LEMMA PositionsNat ==
  ASSUME TypeOK
  PROVE  Positions(stack) \subseteq Nat
<1>1. \A i \in 1 .. Len(stack) : stack[i] \in FrameRecord
  BY DEF TypeOK, Frame
<1>2. \A i \in 1 .. Len(stack) : stack[i].op \in Nat
  BY <1>1 DEF FrameRecord
<1> QED BY <1>2 DEF Positions, Frames

\* What applyPending has passed.
LEMMA AppliedSame ==
  ASSUME TypeOK, AppliedInv, Positions(stack') \subseteq Positions(stack) \cup {1},
         \/ UNCHANGED pendingOps
         \/ \E op \in PendingOp : pendingOps' = Append(pendingOps, op)
  PROVE  AppliedInv'
<1>0. pendingOps \in Seq(PendingOp) /\ Len(pendingOps) \in Nat
  BY DEF TypeOK
<1>1. CASE UNCHANGED pendingOps
  BY <1>0, <1>1 DEF AppliedInv
<1>2. ASSUME NEW op \in PendingOp, pendingOps' = Append(pendingOps, op) PROVE AppliedInv'
  <2>1. /\ Len(pendingOps') = Len(pendingOps) + 1
        /\ \A i \in 1 .. Len(pendingOps) : pendingOps'[i] = pendingOps[i]
    BY <1>0, <1>2
  <2>2. ASSUME NEW o \in Positions(stack')
        PROVE  /\ o <= Len(pendingOps') + 1
               /\ \A i \in 1 .. Len(pendingOps') : i < o => pendingOps'[i].kind = "applied"
    <3>1. CASE o = 1
      BY <1>0, <2>1, <3>1
    <3>2. CASE o \in Positions(stack)
      <4>1. o <= Len(pendingOps) + 1 /\ o \in Nat
        BY <3>2, PositionsNat DEF AppliedInv
      <4> QED BY <1>0, <2>1, <3>2, <4>1 DEF AppliedInv
    <3> QED BY <3>1, <3>2
  <2> QED BY <2>2 DEF AppliedInv
<1> QED BY <1>1, <1>2

\* Every step.
LEMMA AppliedStep ==
  TypeOK /\ StackInv /\ Grounded(stack) /\ AppliedInv /\ [Next]_vars => AppliedInv'
<1> SUFFICES ASSUME TypeOK, StackInv, Grounded(stack), AppliedInv, [Next]_vars PROVE AppliedInv'
  OBVIOUS
<1>1. ASSUME NEW s \in Subscribers, NEW t \in Topics, Subscribe(s, t) \/ Unsubscribe(s, t)
      PROVE  AppliedInv'
  <2>1. UNCHANGED stack
    BY <1>1 DEF Subscribe, Unsubscribe
  <2>2. UNCHANGED pendingOps \/ \E op \in PendingOp : pendingOps' = Append(pendingOps, op)
    BY <1>1, OpTypes DEF Subscribe, Unsubscribe, DeferOp, deferVars
  <2> QED BY <2>1, <2>2, AppliedSame
<1>2. CASE \/ \E s \in Subscribers : Close(s) \/ End(s) \/ Writable(s)
           \/ FreePending \/ UNCHANGED vars
  <2>1. UNCHANGED <<stack, pendingOps>>
    BY <1>2 DEF Close, End, Writable, FreePending, FreeSubscriber, vars, nested, deferVars
  <2> QED BY <2>1, AppliedSame
<1>3. CASE \/ \E s \in Subscribers : Send(s)
           \/ DrainMessage \/ FinishDrain \/ FinishSend \/ HandlerReturn
           \/ PublishVisit \/ FinishPublish \/ PublishBigVisit \/ FinishPublishBig
  <2>1. Positions(stack') \subseteq Positions(stack) \cup {1}
    BY <1>3, LikeSteps DEF Like
  <2>2. UNCHANGED pendingOps
    BY <1>3 DEF Send, DrainMessage, FinishDrain, FinishSend, HandlerReturn, PublishVisit,
                FinishPublish, PublishBigVisit, FinishPublishBig, deferVars
  <2> QED BY <2>1, <2>2, AppliedSame
<1>4. ASSUME NEW s \in Subscribers \cup {NoSub}, NEW t \in Topics, Publish(s, t) PROVE AppliedInv'
  <2>0. lastCall + 1 \in 0 .. MaxCalls
    BY <1>4, TopicTreeAssumption DEF Publish, TypeOK
  <2>1. CASE drainingDepth = 0 /\ BeginPublish(s, t, lastCall + 1, stack) /\ UNCHANGED deferVars
    <3>1. Positions(stack') = Positions(stack)
      BY <2>0, <2>1, BeginSteps
    <3> QED BY <2>1, <3>1, AppliedSame DEF deferVars
  <2>2. CASE UNCHANGED stack /\ DeferOp([Op("publish", s, t) EXCEPT !.msg = lastCall + 1])
    <3>1. [Op("publish", s, t) EXCEPT !.msg = lastCall + 1] \in PendingOp
      BY <2>0, OpTypes
    <3> QED BY <2>2, <3>1, AppliedSame DEF DeferOp
  <2> QED BY <1>4, <2>1, <2>2 DEF Publish
<1>5. CASE LoopDrain
  BY <1>5, BeginSteps, AppliedSame DEF LoopDrain, deferVars
<1>6. ASSUME NEW s \in Subscribers \cup {NoSub}, NEW t \in Topics, PublishBig(s, t) PROVE AppliedInv'
  <2>1. Positions(stack') = Positions(stack) /\ UNCHANGED pendingOps
    BY <1>6, IterateSteps DEF PublishBig, deferVars
  <2> QED BY <2>1, AppliedSame
<1>7. CASE StartIterating
  <2>1. Head(stack).topic \in Topics
    BY <1>7, HeadFrame DEF StartIterating, Running, Frame, FrameRecord, Walks
  <2>2. Positions(stack') = Positions(stack) /\ UNCHANGED pendingOps
    BY <1>7, <2>1, IterateSteps DEF StartIterating, deferVars
  <2> QED BY <2>2, AppliedSame
<1>8. CASE DrainNext \/ FinishDrainAll
  <2>1. Positions(stack') \subseteq Positions(stack) \cup {1} /\ UNCHANGED pendingOps
    BY <1>8, WalkSteps DEF DrainNext, FinishDrainAll, deferVars
  <2> QED BY <2>1, AppliedSame
<1>9. CASE ApplyOp
  <2> DEFINE o == Head(stack).op
  <2>1. Positions(stack') = {o + 1}
    BY <1>9, ApplySteps
  <2>2. stack # <<>> /\ Head(stack).kind = "apply" /\ o \in 1 .. Len(pendingOps) /\ pendingOps[o] \in PendingOp
    BY <1>9, OpAtFrame DEF ApplyOp, Running
  <2>3. \A i \in 1 .. Len(pendingOps) : i < o => pendingOps[i].kind = "applied"
    BY <2>2, OnePosition DEF AppliedInv
  <2>4. pendingOps' = [pendingOps EXCEPT ![o].kind = "applied"] /\ pendingOps \in Seq(PendingOp)
    BY <1>9 DEF ApplyOp, TypeOK
  <2> HIDE DEF o
  <2>5. Len(pendingOps') = Len(pendingOps) /\ Len(pendingOps) \in Nat
    BY <2>2, <2>4
  <2>6. pendingOps'[o].kind = "applied" /\ \A i \in 1 .. Len(pendingOps) : i # o => pendingOps'[i] = pendingOps[i]
    BY <2>2, <2>4 DEF PendingOp
  <2> QED BY <2>1, <2>2, <2>3, <2>5, <2>6 DEF AppliedInv
<1>10. CASE FinishApply
  <2>1. stack # <<>> /\ Head(stack).kind = "apply" /\ stack' = Tail(stack)
    BY <1>10 DEF FinishApply, Running, Below
  <2>2. Positions(stack') = {}
    BY <2>1, OnePosition
  <2> QED BY <2>2 DEF AppliedInv
<1> QED BY <1>1, <1>2, <1>3, <1>4, <1>5, <1>6, <1>7, <1>8, <1>9, <1>10
        DEF Next, Step, Loop, Application, Library

\* Between event handlers nothing is deferred.
LEMMA IdleRest ==
  ASSUME IInv, Idle
  PROVE  /\ drainingDepth = 0 /\ iteratingTopic = NoTopic /\ ~pending /\ ~applying
         /\ pendingOps = <<>> /\ pendingFree = <<>>
<1>1. drainingDepth = 0 /\ ~applying /\ iteratingTopic = NoTopic
  BY SoundTypes DEF IInv, StackInv, Idle
<1>2. ~pending
  BY <1>1 DEF IInv, DeferInv
<1> QED BY <1>1, <1>2 DEF IInv, DeferInv

\* Outside of draining sections and of applyPending nothing is.
LEMMA CalmRest ==
  ASSUME IInv, drainingDepth = 0, ~applying
  PROVE  ~pending /\ pendingOps = <<>> /\ pendingFree = <<>>
  BY DEF IInv, DeferInv

\* No publish is deferred and applyPending is not entered.
LEMMA CallsQuiet ==
  ASSUME CallsInv, "publish" \notin handlerCalls => ~applying,
         UNCHANGED <<applying, pendingOps, iteratingTopic, handlerCalls>>
  PROVE  CallsInv'
  BY DEF CallsInv

\* Leaving a draining section.
LEMMA CallsLeave ==
  ASSUME IInv, Grounded(stack), CallsInv, stack # <<>>, Head(stack).kind \in Drains,
         LeaveDraining(Tail(stack)), UNCHANGED <<pendingOps, handlerCalls>>,
         iteratingTopic' = IF Head(stack).kind \in Iterations THEN NoTopic ELSE iteratingTopic
  PROVE  CallsInv'
<1>0. stack \in Seq(Frame) /\ drainingDepth \in Nat /\ pendingOps \in Seq(PendingOp)
  BY DEF IInv, TypeOK
<1>1. \A kind \in Moves : kind \notin handlerCalls' =>
        \A i \in 1 .. Len(pendingOps') : pendingOps'[i].kind # kind
  BY DEF CallsInv
<1>2. ASSUME "publish" \notin handlerCalls
      PROVE  /\ applying' => Running("apply")'
             /\ \A i \in 1 .. Len(pendingOps') :
                  /\ pendingOps'[i].kind # "publish"
                  /\ pendingOps'[i].kind \in Moves => applying' \/ pendingOps'[i].topic = iteratingTopic'
  <2>1. ~applying
    BY <1>2 DEF CallsInv, Running, Drains
  <2>2. ASSUME applying' PROVE Running("apply")'
    <3>1. stack' = <<ApplyFrame>> \o Tail(stack)
      BY <2>1, <2>2 DEF LeaveDraining
    <3>2. ApplyFrame \in Frame /\ ApplyFrame.kind = "apply" /\ Tail(stack) \in Seq(Frame)
      BY <1>0, NewFrames DEF IInv
    <3> DEFINE a == ApplyFrame
               b == Tail(stack)
    <3>3. a \in Frame /\ b \in Seq(Frame) /\ stack' = <<a>> \o b /\ a.kind = "apply"
      BY <3>1, <3>2
    <3> HIDE DEF a, b
    <3> QED BY <3>3 DEF Running
  <2>3. CASE Head(stack).kind \in Iterations
    <3>1. drainingDepth = 1
      BY <2>3, BelowGround DEF IInv, Iterations, Grounds, Drains
    <3>2. applying' \/ pendingOps = <<>>
      BY <2>1, <3>1 DEF LeaveDraining, IInv, DeferInv
    <3> QED BY <1>0, <1>2, <2>2, <3>2 DEF CallsInv
  <2>4. CASE Head(stack).kind \notin Iterations
    BY <1>2, <2>1, <2>2, <2>4 DEF CallsInv
  <2> QED BY <2>3, <2>4
<1> QED BY <1>1, <1>2 DEF CallsInv

\* One more call is deferred.
LEMMA CallsDefer ==
  ASSUME IInv, CallsInv, NEW op \in PendingOp, pendingOps' = Append(pendingOps, op),
         op.kind \in handlerCalls, op.kind # "publish" => op.topic = iteratingTopic,
         UNCHANGED <<stack, applying, iteratingTopic, handlerCalls>>
  PROVE  CallsInv'
<1>0. pendingOps \in Seq(PendingOp)
  BY DEF IInv, TypeOK
<1>1. /\ Len(pendingOps') = Len(pendingOps) + 1 /\ Len(pendingOps) \in Nat
      /\ pendingOps'[Len(pendingOps) + 1] = op
      /\ \A i \in 1 .. Len(pendingOps) : pendingOps'[i] = pendingOps[i]
  BY <1>0
<1>2. \A i \in 1 .. Len(pendingOps') :
        pendingOps'[i] = op \/ (i \in 1 .. Len(pendingOps) /\ pendingOps'[i] = pendingOps[i])
  BY <1>1
<1> QED BY <1>2 DEF CallsInv, Running

\* Fewer calls are deferred.
LEMMA CallsFewer ==
  ASSUME CallsInv, UNCHANGED <<applying, iteratingTopic, handlerCalls>>,
         "publish" \notin handlerCalls /\ applying => Running("apply")',
         \A i \in 1 .. Len(pendingOps') :
           pendingOps'[i].kind = "applied" \/ (i \in 1 .. Len(pendingOps) /\ pendingOps'[i] = pendingOps[i])
  PROVE  CallsInv'
  BY DEF CallsInv, Moves

\* Every step.
LEMMA CallsStep ==
  IInv /\ Grounded(stack) /\ CallsInv /\ [Next]_vars => CallsInv'
<1> SUFFICES ASSUME IInv, Grounded(stack), CallsInv, [Next]_vars PROVE CallsInv'
  OBVIOUS
<1>0. TypeOK /\ StackInv /\ UNCHANGED handlerCalls
  BY DEF IInv, Next, Step, vars
<1>a. \A c \in Calls : MayCall(c) => Idle \/ c \in handlerCalls
  BY DEF MayCall
<1>b. "publish" \notin handlerCalls /\ ~Running("apply") => ~applying
  BY DEF CallsInv
<1>c. \A c \in Calls : MayCall(c) => ~Running("apply")
  BY DEF MayCall, Idle, Running
<1>1. ASSUME NEW s \in Subscribers, NEW t \in Topics, Subscribe(s, t) PROVE CallsInv'
  <2>1. UNCHANGED <<stack, applying, iteratingTopic>> /\ MayCall("subscribe")
    BY <1>1 DEF Subscribe, nested
  <2>2. CASE UNCHANGED deferVars
    BY <1>0, <1>b, <1>c, <2>1, <2>2, CallsQuiet DEF deferVars, Calls
  <2>3. CASE Deferred(t) /\ DeferOp(Op("subscribe", s, t))
    <3>1. Op("subscribe", s, t) \in PendingOp /\ Op("subscribe", s, t).kind = "subscribe"
          /\ Op("subscribe", s, t).topic = iteratingTopic
      BY <2>3, OpTypes DEF Op, Deferred
    <3>2. ~Idle
      BY <2>3, IdleRest, TopicTreeAssumption DEF Deferred
    <3> QED BY <1>0, <1>a, <2>1, <2>3, <3>1, <3>2, CallsDefer DEF DeferOp, Calls
  <2> QED BY <1>1, <2>2, <2>3 DEF Subscribe
<1>2. ASSUME NEW s \in Subscribers, NEW t \in Topics, Unsubscribe(s, t) PROVE CallsInv'
  <2>1. UNCHANGED <<stack, applying, iteratingTopic>> /\ MayCall("unsubscribe")
    BY <1>2 DEF Unsubscribe, nested
  <2>2. CASE UNCHANGED deferVars
    BY <1>0, <1>b, <1>c, <2>1, <2>2, CallsQuiet DEF deferVars, Calls
  <2>3. CASE Deferred(t) /\ DeferOp(Op("unsubscribe", s, t))
    <3>1. Op("unsubscribe", s, t) \in PendingOp /\ Op("unsubscribe", s, t).kind = "unsubscribe"
          /\ Op("unsubscribe", s, t).topic = iteratingTopic
      BY <2>3, OpTypes DEF Op, Deferred
    <3>2. ~Idle
      BY <2>3, IdleRest, TopicTreeAssumption DEF Deferred
    <3> QED BY <1>0, <1>a, <2>1, <2>3, <3>1, <3>2, CallsDefer DEF DeferOp, Calls
  <2> QED BY <1>2, <2>2, <2>3 DEF Unsubscribe
<1>3. ASSUME NEW s \in Subscribers \cup {NoSub}, NEW t \in Topics, Publish(s, t) PROVE CallsInv'
  <2>0. MayCall("publish") /\ UNCHANGED <<applying, iteratingTopic>> /\ lastCall + 1 \in 0 .. MaxCalls
    BY <1>3, TopicTreeAssumption DEF Publish, TypeOK, IInv
  <2>1. CASE UNCHANGED deferVars
    BY <1>0, <1>b, <1>c, <2>0, <2>1, CallsQuiet DEF deferVars, Calls
  <2>2. CASE drainingDepth > 0 /\ UNCHANGED stack
             /\ DeferOp([Op("publish", s, t) EXCEPT !.msg = lastCall + 1])
    <3> DEFINE op == [Op("publish", s, t) EXCEPT !.msg = lastCall + 1]
    <3>1. op \in PendingOp /\ op.kind = "publish"
      BY <2>0, OpTypes DEF Op
    <3>2. ~Idle
      BY <2>2, IdleRest
    <3>3. pendingOps' = Append(pendingOps, op)
      BY <2>2 DEF DeferOp
    <3> HIDE DEF op
    <3> QED BY <1>0, <1>a, <2>0, <2>2, <3>1, <3>2, <3>3, CallsDefer DEF Calls
  <2> QED BY <1>3, <2>1, <2>2 DEF Publish
<1>4. ASSUME "publish" \notin handlerCalls => ~applying,
             UNCHANGED <<applying, iteratingTopic, pendingOps>>
      PROVE  CallsInv'
  BY <1>0, <1>4, CallsQuiet
<1>5. ASSUME NEW s \in Subscribers, Send(s) PROVE CallsInv'
  BY <1>b, <1>c, <1>4, <1>5 DEF Send, deferVars, Calls
<1>6. ASSUME NEW s \in Subscribers, Close(s) \/ End(s) PROVE CallsInv'
  <2>1. UNCHANGED <<applying, iteratingTopic, pendingOps>>
    BY <1>6 DEF Close, End, FreeSubscriber, nested, deferVars
  <2>2. ~Running("apply")
    BY <1>6, <1>c DEF Close, End, Calls
  <2> QED BY <1>b, <1>4, <2>1, <2>2
<1>7. CASE DrainMessage \/ DrainNext \/ FinishSend \/ HandlerReturn
  <2>1. UNCHANGED <<applying, iteratingTopic, pendingOps>> /\ ~Running("apply")
    BY <1>7 DEF DrainMessage, DrainNext, FinishSend, HandlerReturn, Draining, Running, nested, deferVars
  <2> QED BY <1>b, <1>4, <2>1
<1>8. CASE LoopDrain \/ PublishVisit \/ PublishBigVisit \/ \E s \in Subscribers : Writable(s)
  <2>1. UNCHANGED <<applying, iteratingTopic, pendingOps>> /\ ~Running("apply")
    BY <1>8 DEF LoopDrain, PublishVisit, PublishBigVisit, Writable, Idle, Running, nested, deferVars
  <2> QED BY <1>b, <1>4, <2>1
<1>9. CASE FinishDrain \/ FinishDrainAll \/ FinishPublish \/ FinishPublishBig
  BY <1>0, <1>9, CallsLeave
     DEF FinishDrain, FinishDrainAll, FinishPublish, FinishPublishBig, Running, Below, Drains,
         Iterations, deferVars
<1>10. ASSUME ~Running("apply"), drainingDepth = 0, UNCHANGED <<applying, pendingOps>> PROVE CallsInv'
  <2>1. CASE applying
    BY <1>0, <1>10, <2>1, <1>b DEF CallsInv
  <2>2. CASE ~applying
    <3>1. pendingOps = <<>>
      BY <1>10, <2>2, CalmRest
    <3>2. pendingOps' = <<>> /\ ~applying'
      BY <1>10, <2>2, <3>1
    <3> QED BY <3>2 DEF CallsInv
  <2> QED BY <2>1, <2>2
<1>11. CASE StartIterating
  <2>1. stack # <<>> /\ Head(stack).kind = "publishStart" /\ UNCHANGED <<applying, pendingOps>>
    BY <1>11 DEF StartIterating, Running, deferVars
  <2>2. drainingDepth = 0
    BY <1>0, <2>1, BelowGround DEF Grounds, Drains
  <2> QED BY <1>10, <2>1, <2>2 DEF Running
<1>12. ASSUME NEW s \in Subscribers \cup {NoSub}, NEW t \in Topics, PublishBig(s, t) PROVE CallsInv'
  BY <1>10, <1>12, <1>c DEF PublishBig, Calls, deferVars
<1>13. CASE FreePending
  BY <1>0, <1>13, CallsFewer DEF FreePending, Running, nested
<1>14. CASE FinishApply
  <2>1. pendingOps' = <<>> /\ applying' = FALSE
    BY <1>14 DEF FinishApply
  <2> QED BY <2>1 DEF CallsInv
<1>15. CASE ApplyOp
  <2> DEFINE f == Head(stack)
             g == [f EXCEPT !.op = f.op + 1]
             o == f.op
  <2>1. stack # <<>> /\ f.kind = "apply" /\ o \in 1 .. Len(pendingOps) /\ pendingOps[o] \in PendingOp
    BY <1>0, <1>15, OpAtFrame DEF ApplyOp, Running
  <2>2. pendingOps' = [pendingOps EXCEPT ![o].kind = "applied"] /\ pendingOps \in Seq(PendingOp)
        /\ UNCHANGED <<applying, iteratingTopic>>
    BY <1>0, <1>15 DEF ApplyOp, TypeOK
  <2>3. ASSUME "publish" \notin handlerCalls PROVE Running("apply")'
    <3>1. pendingOps[o].kind # "publish"
      BY <2>1, <2>3 DEF CallsInv
    <3>2. stack' = <<g>> \o Tail(stack)
      BY <1>15, <3>1 DEF ApplyOp, Top, Below
    <3>3. g \in Frame /\ g.kind = "apply" /\ Tail(stack) \in Seq(Frame)
      <4>1. f \in Frame /\ Tail(stack) \in Seq(Frame)
        BY <1>0, <2>1, StackSplit DEF TypeOK
      <4>2. f.kind = "apply"
        BY <2>1
      <4> HIDE DEF f
      <4>3. g \in Frame /\ g.kind = "apply"
        BY <1>0, <4>1, <4>2, DrainFrames
      <4> QED BY <4>1, <4>3
    <3> DEFINE b == Tail(stack)
    <3>4. stack' = <<g>> \o b /\ b \in Seq(Frame) /\ g \in Frame /\ g.kind = "apply"
      BY <3>2, <3>3
    <3> HIDE DEF g, b
    <3> QED BY <3>4 DEF Running
  <2> HIDE DEF o
  <2>4. \A i \in 1 .. Len(pendingOps') :
          pendingOps'[i].kind = "applied" \/ (i \in 1 .. Len(pendingOps) /\ pendingOps'[i] = pendingOps[i])
    BY <2>1, <2>2 DEF PendingOp
  <2> QED BY <1>0, <2>2, <2>3, <2>4, CallsFewer
<1>16. CASE UNCHANGED vars
  BY <1>16 DEF vars, nested, deferVars, CallsInv, Running
<1> QED BY <1>1, <1>2, <1>3, <1>5, <1>6, <1>7, <1>8, <1>9, <1>11, <1>12, <1>13, <1>14, <1>15, <1>16
        DEF Next, Step, Loop, Application, Library

-----------------------------------------------------------------------------
(* Deferring and applying calls.                                           *)

\* A pair that a step does not change.
LEMMA MatchedSame ==
  ASSUME NEW s, NEW t, Matched(s, t), Queued(s, t)' = Queued(s, t),
         \A i \in Queued(s, t) : pendingOps'[i] = pendingOps[i],
         s \in members'[t] <=> s \in members[t],
         t \in topicsOf'[s] <=> t \in topicsOf[s]
  PROVE  Matched(s, t)'
  BY DEF Matched, Alternate

\* A pair with no deferred calls.
LEMMA MatchedEmpty ==
  ASSUME NEW s, NEW t, Queued(s, t)' = {}, s \in members'[t] <=> t \in topicsOf'[s]
  PROVE  Matched(s, t)'
  BY DEF Matched, Alternate

\* The deferred calls after one more.
LEMMA QueuedAppend ==
  ASSUME TypeOK, NEW op \in PendingOp, pendingOps' = Append(pendingOps, op), NEW s, NEW t
  PROVE  /\ \A i \in 1 .. Len(pendingOps) : pendingOps'[i] = pendingOps[i]
         /\ pendingOps'[Len(pendingOps) + 1] = op
         /\ Len(pendingOps') = Len(pendingOps) + 1
         /\ Queued(s, t)' = Queued(s, t) \cup
              IF op.kind \in Moves /\ op.sub = s /\ op.topic = t THEN {Len(pendingOps) + 1} ELSE {}
<1>1. pendingOps \in Seq(PendingOp) /\ pendingOps' \in Seq(PendingOp)
  BY DEF TypeOK
<1>2. /\ DOMAIN pendingOps = 1 .. Len(pendingOps) /\ Len(pendingOps) \in Nat
      /\ DOMAIN pendingOps' = 1 .. Len(pendingOps) + 1 /\ Len(pendingOps') = Len(pendingOps) + 1
      /\ pendingOps'[Len(pendingOps) + 1] = op
      /\ \A i \in 1 .. Len(pendingOps) : pendingOps'[i] = pendingOps[i]
  BY <1>1
<1> DEFINE k == Len(pendingOps) + 1
           E == IF op.kind \in Moves /\ op.sub = s /\ op.topic = t THEN {k} ELSE {}
<1>3. ASSUME NEW i \in 1 .. k PROVE i \in Queued(s, t)' <=> i \in Queued(s, t) \cup E
  <2>1. CASE i = k
    BY <1>2, <2>1 DEF Queued, Moves
  <2>2. CASE i # k
    BY <1>2, <2>2 DEF Queued, Moves
  <2> QED BY <2>1, <2>2
<1>4. Queued(s, t)' \subseteq 1 .. k /\ Queued(s, t) \cup E \subseteq 1 .. k
  BY <1>2 DEF Queued
<1> HIDE DEF k, E
<1>5. Queued(s, t)' = Queued(s, t) \cup E
  BY <1>3, <1>4
<1> QED BY <1>2, <1>5 DEF k, E

\* A call on the pair is deferred that changes what Subscriber::topics says.
LEMMA MatchedAppend ==
  ASSUME TypeOK, NEW s, NEW t, Matched(s, t), NEW op \in PendingOp,
         pendingOps' = Append(pendingOps, op), op.kind \in Moves, op.sub = s, op.topic = t,
         op.kind = "subscribe" <=> t \in topicsOf'[s], op.kind = "subscribe" <=> t \notin topicsOf[s],
         s \in members'[t] <=> s \in members[t]
  PROVE  Matched(s, t)'
<1> DEFINE k == Len(pendingOps) + 1
           Q == Queued(s, t)
<1>1. /\ \A i \in 1 .. Len(pendingOps) : pendingOps'[i] = pendingOps[i]
      /\ pendingOps'[k] = op
      /\ Queued(s, t)' = Q \cup {k}
  BY QueuedAppend
<1>2. Q \in SUBSET (1 .. Len(pendingOps)) /\ Len(pendingOps) \in Nat
      /\ \A i \in Q : pendingOps[i].kind \in Moves
  BY QueuedTypes
<1>3. \A i \in Q : i \in Nat /\ i < k /\ pendingOps'[i] = pendingOps[i]
  BY <1>1, <1>2
<1>4. k \in Nat
  BY <1>2
<1>5. Alternate(pendingOps, Q, s \in members[t], t \in topicsOf[s])
  BY DEF Matched
<1> HIDE DEF k, Q
<1> DEFINE P == Q \cup {k}
<1>6. ASSUME NEW i \in P, \A j \in P : i <= j
      PROVE  pendingOps'[i].kind = "unsubscribe" <=> s \in members'[t]
  <2>1. CASE i = k
    <3>1. Q = {}
      BY <1>3, <1>4, <1>6, <2>1
    <3> QED BY <1>1, <1>5, <2>1, <3>1 DEF Alternate, Moves
  <2>2. CASE i # k
    BY <1>3, <1>5, <1>6, <2>2 DEF Alternate
  <2> QED BY <2>1, <2>2
<1>7. ASSUME NEW i \in P, \A j \in P : j <= i
      PROVE  pendingOps'[i].kind = "subscribe" <=> t \in topicsOf'[s]
  <2>1. k \in P /\ (i \in Q \/ i = k)
    BY <1>7
  <2>2. k <= i
    BY <1>7, <2>1
  <2>3. i \notin Q
    BY <1>3, <1>4, <2>2
  <2>4. i = k
    BY <2>1, <2>3
  <2> QED BY <1>1, <2>4
<1>8. ASSUME NEW i \in P, NEW j \in P, i < j, \A n \in P : n <= i \/ j <= n
      PROVE  pendingOps'[i].kind # pendingOps'[j].kind
  <2>1. i \in Q
    BY <1>3, <1>4, <1>8
  <2>2. CASE j = k
    <3>1. \A n \in Q : n <= i
      BY <1>3, <1>4, <1>8, <2>2
    <3>2. pendingOps[i].kind = "subscribe" <=> t \in topicsOf[s]
      BY <1>5, <2>1, <3>1 DEF Alternate
    <3> QED BY <1>1, <1>3, <2>1, <2>2, <3>2
  <2>3. CASE j # k
    <3>1. j \in Q /\ i < j /\ \A n \in Q : n <= i \/ j <= n
      BY <1>8, <2>3
    <3>2. pendingOps[i].kind # pendingOps[j].kind
      BY <1>5, <2>1, <3>1 DEF Alternate
    <3>3. pendingOps'[i] = pendingOps[i] /\ pendingOps'[j] = pendingOps[j]
      BY <1>3, <2>1, <3>1
    <3> QED BY <3>2, <3>3
  <2> QED BY <2>2, <2>3
<1>9. Alternate(pendingOps', P, s \in members'[t], t \in topicsOf'[s])
  BY <1>6, <1>7, <1>8 DEF Alternate
<1> QED BY <1>1, <1>9 DEF Matched

\* The deferred calls after one of them is nulled.
LEMMA QueuedApply ==
  ASSUME TypeOK, NEW o \in 1 .. Len(pendingOps),
         pendingOps' = [pendingOps EXCEPT ![o].kind = "applied"]
  PROVE  /\ Len(pendingOps') = Len(pendingOps)
         /\ \A i \in 1 .. Len(pendingOps) : i # o => pendingOps'[i] = pendingOps[i]
         /\ pendingOps'[o].kind = "applied"
         /\ \A s, t : Queued(s, t)' = Queued(s, t) \ {o}
<1>1. pendingOps \in Seq(PendingOp) /\ pendingOps[o] \in PendingOp
  BY DEF TypeOK
<1>2. /\ DOMAIN pendingOps = 1 .. Len(pendingOps) /\ Len(pendingOps) \in Nat
      /\ DOMAIN pendingOps' = 1 .. Len(pendingOps) /\ Len(pendingOps') = Len(pendingOps)
      /\ pendingOps'[o].kind = "applied"
      /\ \A i \in 1 .. Len(pendingOps) : i # o => pendingOps'[i] = pendingOps[i]
  BY <1>1 DEF PendingOp
<1>3. ASSUME NEW s, NEW t, NEW i \in 1 .. Len(pendingOps)
      PROVE  i \in Queued(s, t)' <=> i \in Queued(s, t) \ {o}
  <2>1. CASE i = o
    BY <1>2, <2>1 DEF Queued
  <2>2. CASE i # o
    BY <1>2, <2>2 DEF Queued
  <2> QED BY <2>1, <2>2
<1>4. \A s, t : Queued(s, t)' \subseteq 1 .. Len(pendingOps) /\ Queued(s, t) \subseteq 1 .. Len(pendingOps)
  BY <1>2 DEF Queued
<1>5. \A s, t : Queued(s, t)' = Queued(s, t) \ {o}
  BY <1>3, <1>4
<1> QED BY <1>2, <1>5

\* The first deferred call on the pair is applied.
LEMMA MatchedApply ==
  ASSUME TypeOK, NEW s, NEW t, Matched(s, t), NEW o \in Queued(s, t), \A j \in Queued(s, t) : o <= j,
         pendingOps' = [pendingOps EXCEPT ![o].kind = "applied"],
         pendingOps[o].kind = "subscribe" <=> s \in members'[t],
         t \in topicsOf'[s] <=> t \in topicsOf[s]
  PROVE  Matched(s, t)'
<1> DEFINE Q == Queued(s, t)
           P == Q \ {o}
<1>1. Q \in SUBSET (1 .. Len(pendingOps)) /\ Len(pendingOps) \in Nat
      /\ \A i \in Q : pendingOps[i].kind \in Moves
  BY QueuedTypes
<1>2. /\ \A i \in 1 .. Len(pendingOps) : i # o => pendingOps'[i] = pendingOps[i]
      /\ Queued(s, t)' = P
  BY <1>1, QueuedApply
<1>3. \A i \in P : i \in Nat /\ i \in Q /\ o < i /\ pendingOps'[i] = pendingOps[i]
  BY <1>1, <1>2
<1>4. o \in Nat /\ o \in Q /\ \A i \in Q : i = o \/ i \in P
  BY <1>1
<1>5. Alternate(pendingOps, Q, s \in members[t], t \in topicsOf[s])
  BY DEF Matched
<1> HIDE DEF Q, P
<1>6. ASSUME P = {} PROVE s \in members'[t] <=> t \in topicsOf'[s]
  <2>1. \A j \in Q : j <= o
    BY <1>4, <1>6
  <2> QED BY <1>4, <1>5, <2>1 DEF Alternate
<1>7. ASSUME NEW i \in P, \A j \in P : i <= j
      PROVE  pendingOps'[i].kind = "unsubscribe" <=> s \in members'[t]
  <2>1. \A n \in Q : n <= o \/ i <= n
    BY <1>3, <1>4, <1>7
  <2>2. pendingOps[o].kind # pendingOps[i].kind
    BY <1>3, <1>4, <1>5, <2>1 DEF Alternate
  <2> QED BY <1>1, <1>3, <1>4, <2>2 DEF Moves, Q
<1>8. ASSUME NEW i \in P, \A j \in P : j <= i
      PROVE  pendingOps'[i].kind = "subscribe" <=> t \in topicsOf'[s]
  <2>1. \A j \in Q : j <= i
    BY <1>3, <1>4, <1>8
  <2> QED BY <1>3, <1>5, <2>1 DEF Alternate
<1>9. ASSUME NEW i \in P, NEW j \in P, i < j, \A n \in P : n <= i \/ j <= n
      PROVE  pendingOps'[i].kind # pendingOps'[j].kind
  <2>1. \A n \in Q : n <= i \/ j <= n
    BY <1>3, <1>4, <1>9
  <2> QED BY <1>3, <1>5, <1>9, <2>1 DEF Alternate
<1>10. Alternate(pendingOps', P, s \in members'[t], t \in topicsOf'[s])
  BY <1>6, <1>7, <1>8, <1>9 DEF Alternate
<1> QED BY <1>2, <1>10 DEF Matched

\* A call that is not deferred finds none deferred on the pair: the last one
\* would have been the opposite call of a handler, within the same walk.
LEMMA NotDeferred ==
  ASSUME KeepsOrder, IInv, CallsInv, MemberInv, NEW s \in Subscribers, NEW t \in Topics,
         \/ MayCall("subscribe") /\ t \notin topicsOf[s]
         \/ MayCall("unsubscribe") /\ t \in topicsOf[s],
         ~Deferred(t)
  PROVE  Queued(s, t) = {}
<1> SUFFICES ASSUME Queued(s, t) # {} PROVE FALSE
  OBVIOUS
<1>0. TypeOK /\ handlerCalls \in Applications
  BY DEF IInv, TypeOK
<1>1. PICK i \in Queued(s, t) : pendingOps[i].kind = "subscribe" <=> t \in topicsOf[s]
  BY <1>0, FirstQueued
<1>2. /\ i \in 1 .. Len(pendingOps) /\ pendingOps[i].kind \in Moves /\ pendingOps[i].topic = t
  BY <1>0, <1>1, QueuedTypes
<1>3. pendingOps # <<>>
  BY <1>2
<1>4. ~Idle
  BY <1>3, IdleRest
<1>5. {"subscribe", "unsubscribe"} \subseteq handlerCalls
  BY <1>1, <1>2, <1>4 DEF CallsInv, MayCall, Moves
<1>6. "publish" \notin handlerCalls
  BY <1>0, <1>5 DEF KeepsOrder
<1>7. applying
  BY <1>2, <1>6 DEF CallsInv, Deferred
<1>8. Running("apply")
  BY <1>6, <1>7 DEF CallsInv
<1> QED BY <1>4, <1>8 DEF MayCall, Running

\* The topic is kept for those that are in it and those that wait to be.
LEMMA EraseKeeps ==
  ASSUME TypeOK, DeferInv, NEW s, NEW t, NEW from \in Nat, EraseFromTopic(s, t, from),
         NEW x \in Subscribers,
         \/ x \in members[t] /\ x # s
         \/ \E i \in Queued(x, t) : from <= i /\ pendingOps[i].kind = "subscribe"
  PROVE  topics' = topics
<1>1. CASE x \in members[t] /\ x # s
  BY <1>1 DEF EraseFromTopic
<1>2. ASSUME NEW i \in Queued(x, t), from <= i, pendingOps[i].kind = "subscribe"
      PROVE  topics' = topics
  <2>1. i \in 1 .. Len(pendingOps) /\ Len(pendingOps) \in Nat /\ pendingOps[i].topic = t
    BY QueuedTypes
  <2>2. pendingOps # <<>>
    BY <2>1
  <2>3. pending
    BY <2>2 DEF DeferInv
  <2>4. SubscribePending(t, from)
    BY <1>2, <2>1 DEF SubscribePending
  <2> QED BY <2>3, <2>4 DEF EraseFromTopic
<1> QED BY <1>1, <1>2

\* So nobody else's topic is removed.
LEMMA ErasedTopic ==
  ASSUME TypeOK, DeferInv, MemberInv, NEW s, NEW t \in Topics, NEW from \in Nat,
         EraseFromTopic(s, t, from), NEW x \in Subscribers, x # s, \A i \in Queued(x, t) : from <= i,
         NEW u \in Topics, u \in topics, Queued(x, u) # {} \/ u \in topicsOf[x]
  PROVE  u \in topics'
<1>1. CASE u # t
  BY <1>1 DEF EraseFromTopic
<1>2. CASE u = t
  <2>1. CASE Queued(x, t) = {}
    <3>1. x \in members[t]
      BY <1>2, <2>1 DEF MemberInv, Matched, Alternate
    <3> QED BY <3>1, EraseKeeps
  <2>2. CASE Queued(x, t) # {}
    <3>1. PICK i \in Queued(x, t) : pendingOps[i].kind = "unsubscribe" <=> x \in members[t]
      BY <2>2, FirstQueued
    <3>2. pendingOps[i].kind \in Moves
      BY QueuedTypes
    <3> QED BY <3>1, <3>2, EraseKeeps DEF Moves
  <2> QED BY <2>1, <2>2
<1> QED BY <1>1, <1>2

-----------------------------------------------------------------------------
(* Counting subscribers.                                                   *)

\* What numSubscribers adds and takes away, and what it should count.
Deferrals(kind, t) == {i \in DOMAIN pendingOps : pendingOps[i].kind = kind /\ pendingOps[i].topic = t}
Subscribed(t) == {s \in Subscribers : t \in topicsOf[s]}

Balanced(t) ==
  Cardinality(members[t]) + Cardinality(Deferrals("subscribe", t))
    - Cardinality(Deferrals("unsubscribe", t)) = Cardinality(Subscribed(t))

\* It counts them when they balance.
LEMMA CountsBalanced == CountsSubscribers <=> \A t \in Topics : Balanced(t)
  BY DEF CountsSubscribers, NumSubscribers, Balanced, Deferrals, Subscribed

\* All of it is finite.
LEMMA Tallies ==
  ASSUME TypeOK, NEW t \in Topics
  PROVE  /\ IsFiniteSet(members[t]) /\ Cardinality(members[t]) \in Nat
         /\ IsFiniteSet(Subscribed(t)) /\ Cardinality(Subscribed(t)) \in Nat
         /\ \A kind : IsFiniteSet(Deferrals(kind, t)) /\ Cardinality(Deferrals(kind, t)) \in Nat
         /\ \A kind : Deferrals(kind, t) \subseteq 1 .. Len(pendingOps)
         /\ Len(pendingOps) \in Nat
<1>1. members[t] \subseteq Subscribers /\ Subscribed(t) \subseteq Subscribers
  BY DEF TypeOK, Subscribed
<1>2. IsFiniteSet(members[t]) /\ IsFiniteSet(Subscribed(t))
  BY <1>1, FS_Subset, TopicTreeAssumption
<1>3. DOMAIN pendingOps = 1 .. Len(pendingOps) /\ Len(pendingOps) \in Nat
  BY DEF TypeOK
<1>4. IsFiniteSet(1 .. Len(pendingOps))
  BY <1>3, FS_Interval
<1>5. \A kind : Deferrals(kind, t) \subseteq 1 .. Len(pendingOps)
  BY <1>3 DEF Deferrals
<1>6. \A kind : IsFiniteSet(Deferrals(kind, t))
  BY <1>4, <1>5, FS_Subset
<1> QED BY <1>2, <1>3, <1>5, <1>6, FS_CardinalityType

\* One more deferred.
LEMMA DeferralsAppend ==
  ASSUME TypeOK, NEW op \in PendingOp, pendingOps' = Append(pendingOps, op), NEW kind, NEW t \in Topics
  PROVE  Cardinality(Deferrals(kind, t)') =
           Cardinality(Deferrals(kind, t)) + IF op.kind = kind /\ op.topic = t THEN 1 ELSE 0
<1> DEFINE k == Len(pendingOps) + 1
           D == Deferrals(kind, t)
<1>1. /\ \A i \in 1 .. Len(pendingOps) : pendingOps'[i] = pendingOps[i]
      /\ pendingOps'[k] = op /\ Len(pendingOps') = k
  BY QueuedAppend
<1>2. /\ DOMAIN pendingOps = 1 .. Len(pendingOps) /\ DOMAIN pendingOps' = 1 .. Len(pendingOps')
      /\ Len(pendingOps) \in Nat
  BY DEF TypeOK
<1>3. IsFiniteSet(D) /\ Cardinality(D) \in Nat /\ D \subseteq 1 .. Len(pendingOps)
  BY <1>2, Tallies
<1>4. Deferrals(kind, t)' = {i \in 1 .. k : pendingOps'[i].kind = kind /\ pendingOps'[i].topic = t}
  BY <1>1, <1>2 DEF Deferrals
<1>5. D = {i \in 1 .. Len(pendingOps) : pendingOps[i].kind = kind /\ pendingOps[i].topic = t}
  BY <1>2 DEF Deferrals
<1>6. k \notin D /\ 1 .. k = (1 .. Len(pendingOps)) \cup {k} /\ k \notin 1 .. Len(pendingOps)
  BY <1>2, <1>3
<1> HIDE DEF k, D
<1>7. CASE op.kind = kind /\ op.topic = t
  <2>1. Deferrals(kind, t)' = D \cup {k}
    BY <1>1, <1>4, <1>5, <1>6, <1>7
  <2> QED BY <1>3, <1>6, <1>7, <2>1, FS_AddElement DEF D
<1>8. CASE ~(op.kind = kind /\ op.topic = t)
  <2>1. Deferrals(kind, t)' = D
    BY <1>1, <1>4, <1>5, <1>6, <1>8
  <2> QED BY <1>3, <1>8, <2>1 DEF D
<1> QED BY <1>7, <1>8

\* One applied.
LEMMA DeferralsApply ==
  ASSUME TypeOK, NEW o \in 1 .. Len(pendingOps), NEW t \in Topics, NEW kind, kind # "applied",
         pendingOps' = [pendingOps EXCEPT ![o].kind = "applied"]
  PROVE  Cardinality(Deferrals(kind, t)') =
           Cardinality(Deferrals(kind, t))
             - IF pendingOps[o].kind = kind /\ pendingOps[o].topic = t THEN 1 ELSE 0
<1> DEFINE D == Deferrals(kind, t)
<1>1. /\ Len(pendingOps') = Len(pendingOps)
      /\ \A i \in 1 .. Len(pendingOps) : i # o => pendingOps'[i] = pendingOps[i]
      /\ pendingOps'[o].kind = "applied"
  BY QueuedApply
<1>2. DOMAIN pendingOps = 1 .. Len(pendingOps) /\ DOMAIN pendingOps' = 1 .. Len(pendingOps)
  BY <1>1 DEF TypeOK
<1>3. IsFiniteSet(D) /\ Cardinality(D) \in Nat
  BY Tallies
<1>4. Deferrals(kind, t)' = D \ {o}
  BY <1>1, <1>2 DEF Deferrals
<1>5. o \in D <=> pendingOps[o].kind = kind /\ pendingOps[o].topic = t
  BY <1>2 DEF Deferrals
<1> HIDE DEF D
<1>6. CASE o \in D
  <2>1. Cardinality(D \ {o}) = Cardinality(D) - 1
    BY <1>3, <1>6, FS_RemoveElement
  <2> QED BY <1>4, <1>5, <1>6, <2>1 DEF D
<1>7. CASE o \notin D
  <2>1. D \ {o} = D
    BY <1>7
  <2>2. Deferrals(kind, t)' = D
    BY <1>4, <2>1
  <2>3. Cardinality(Deferrals(kind, t)') = Cardinality(D) /\ Cardinality(D) - 0 = Cardinality(D)
    BY <1>3, <2>2
  <2> QED BY <1>5, <1>7, <2>3 DEF D
<1> QED BY <1>6, <1>7

\* A member more, or less.
LEMMA MembersMove ==
  ASSUME TypeOK, NEW s \in Subscribers, NEW t \in Topics
  PROVE  /\ members' = [members EXCEPT ![t] = @ \cup {s}] /\ s \notin members[t] =>
              /\ Cardinality(members'[t]) = Cardinality(members[t]) + 1
              /\ \A u \in Topics : u # t => members'[u] = members[u]
         /\ members' = [members EXCEPT ![t] = @ \ {s}] /\ s \in members[t] =>
              /\ Cardinality(members'[t]) = Cardinality(members[t]) - 1
              /\ \A u \in Topics : u # t => members'[u] = members[u]
<1> DEFINE M == members[t]
<1>1. IsFiniteSet(M)
  BY Tallies
<1>2. members \in [Topics -> SUBSET Subscribers]
  BY DEF TypeOK
<1>3. ASSUME members' = [members EXCEPT ![t] = @ \cup {s}]
      PROVE  members'[t] = M \cup {s} /\ \A u \in Topics : u # t => members'[u] = members[u]
  BY <1>2, <1>3
<1>4. ASSUME members' = [members EXCEPT ![t] = @ \ {s}]
      PROVE  members'[t] = M \ {s} /\ \A u \in Topics : u # t => members'[u] = members[u]
  BY <1>2, <1>4
<1> HIDE DEF M
<1>5. s \notin M => Cardinality(M \cup {s}) = Cardinality(M) + 1
  BY <1>1, FS_AddElement
<1>6. s \in M => Cardinality(M \ {s}) = Cardinality(M) - 1
  BY <1>1, FS_RemoveElement
<1> QED BY <1>3, <1>4, <1>5, <1>6 DEF M

\* A subscription more, or less.
LEMMA SubscribedMove ==
  ASSUME TypeOK, NEW s \in Subscribers, NEW t \in Topics
  PROVE  /\ topicsOf' = [topicsOf EXCEPT ![s] = @ \cup {t}] /\ t \notin topicsOf[s] =>
              /\ Cardinality(Subscribed(t)') = Cardinality(Subscribed(t)) + 1
              /\ \A u \in Topics : u # t => Subscribed(u)' = Subscribed(u)
         /\ topicsOf' = [topicsOf EXCEPT ![s] = @ \ {t}] /\ t \in topicsOf[s] =>
              /\ Cardinality(Subscribed(t)') = Cardinality(Subscribed(t)) - 1
              /\ \A u \in Topics : u # t => Subscribed(u)' = Subscribed(u)
<1> DEFINE B == Subscribed(t)
<1>1. IsFiniteSet(B) /\ (s \in B <=> t \in topicsOf[s])
  BY Tallies DEF Subscribed
<1>2. topicsOf \in [Subscribers -> SUBSET Topics]
  BY DEF TypeOK
<1>3. ASSUME topicsOf' = [topicsOf EXCEPT ![s] = @ \cup {t}]
      PROVE  Subscribed(t)' = B \cup {s} /\ \A u \in Topics : u # t => Subscribed(u)' = Subscribed(u)
  BY <1>2, <1>3 DEF Subscribed
<1>4. ASSUME topicsOf' = [topicsOf EXCEPT ![s] = @ \ {t}]
      PROVE  Subscribed(t)' = B \ {s} /\ \A u \in Topics : u # t => Subscribed(u)' = Subscribed(u)
  BY <1>2, <1>4 DEF Subscribed
<1> HIDE DEF B
<1>5. s \notin B => Cardinality(B \cup {s}) = Cardinality(B) + 1
  BY <1>1, FS_AddElement
<1>6. s \in B => Cardinality(B \ {s}) = Cardinality(B) - 1
  BY <1>1, FS_RemoveElement
<1> QED BY <1>1, <1>3, <1>4, <1>5, <1>6 DEF B

-----------------------------------------------------------------------------
(* Subscribers, topics and deferred calls stay in agreement.               *)

TreeInv == MemberInv /\ QueueInv /\ CountsSubscribers

\* Nothing that matters to them changes.
LEMMA TreeSame ==
  ASSUME TypeOK, TreeInv, UNCHANGED <<topicsOf, members, topics, pendingOps>>,
         \A s \in Subscribers : status[s] # "none" => status'[s] # "none"
  PROVE  TreeInv'
<1>1. \A s, t : Queued(s, t)' = Queued(s, t)
  BY DEF Queued
<1>2. MemberInv'
  BY <1>1, MatchedSame DEF TreeInv, MemberInv
<1>3. \A i \in 1 .. Len(pendingOps) : pendingOps[i].kind \in Moves => pendingOps[i].sub \in Subscribers
  BY DEF TypeOK, PendingOp, Moves
<1>4. QueueInv'
  BY <1>3 DEF TreeInv, QueueInv
<1>5. CountsSubscribers'
  BY DEF TreeInv, CountsSubscribers, NumSubscribers
<1> QED BY <1>2, <1>4, <1>5 DEF TreeInv

\* A publish is deferred.
LEMMA TreePublish ==
  ASSUME TypeOK, TreeInv, UNCHANGED <<status, topicsOf, members, topics>>,
         NEW op \in PendingOp, op.kind = "publish", pendingOps' = Append(pendingOps, op)
  PROVE  TreeInv'
<1>1. /\ \A i \in 1 .. Len(pendingOps) : pendingOps'[i] = pendingOps[i]
      /\ pendingOps'[Len(pendingOps) + 1] = op
      /\ Len(pendingOps') = Len(pendingOps) + 1
  BY QueuedAppend
<1>2. \A s, t : Queued(s, t)' = Queued(s, t)
  <2> TAKE s, t
  <2>1. Queued(s, t)' = Queued(s, t) \cup
              IF op.kind \in Moves /\ op.sub = s /\ op.topic = t THEN {Len(pendingOps) + 1} ELSE {}
    BY QueuedAppend
  <2> QED BY <2>1 DEF Moves
<1>3. MemberInv'
  <2> SUFFICES ASSUME NEW s \in Subscribers, NEW t \in Topics PROVE Matched(s, t)'
    BY DEF MemberInv
  <2>1. \A i \in Queued(s, t) : pendingOps'[i] = pendingOps[i]
    BY <1>1, QueuedTypes
  <2> QED BY <1>2, <2>1, MatchedSame DEF TreeInv, MemberInv
<1>4. QueueInv'
  <2>1. Len(pendingOps) \in Nat
    BY DEF TypeOK
  <2>2. ASSUME NEW i \in 1 .. Len(pendingOps'), pendingOps'[i].kind \in Moves
        PROVE  i \in 1 .. Len(pendingOps) /\ pendingOps'[i] = pendingOps[i]
    BY <1>1, <2>1, <2>2 DEF Moves
  <2> QED BY <2>2 DEF TreeInv, QueueInv
<1>5. CountsSubscribers'
  <2> SUFFICES ASSUME NEW t \in Topics PROVE Balanced(t)'
    BY CountsBalanced DEF CountsSubscribers, NumSubscribers, Balanced, Deferrals, Subscribed
  <2>1. /\ Cardinality(Deferrals("subscribe", t)') = Cardinality(Deferrals("subscribe", t)) + 0
        /\ Cardinality(Deferrals("unsubscribe", t)') = Cardinality(Deferrals("unsubscribe", t)) + 0
    BY DeferralsAppend
  <2>2. Balanced(t) /\ Subscribed(t)' = Subscribed(t)
    BY CountsBalanced DEF TreeInv, Subscribed
  <2> QED BY <2>1, <2>2, Tallies DEF Balanced
<1> QED BY <1>3, <1>4, <1>5 DEF TreeInv

\* The pairs that a deferred call does not name.
LEMMA OthersAppend ==
  ASSUME TypeOK, MemberInv, NEW op \in PendingOp, pendingOps' = Append(pendingOps, op),
         NEW s \in Subscribers, NEW t \in Topics, ~(op.sub = s /\ op.topic = t),
         s \in members'[t] <=> s \in members[t],
         t \in topicsOf'[s] <=> t \in topicsOf[s]
  PROVE  Matched(s, t)'
<1>1. /\ \A i \in 1 .. Len(pendingOps) : pendingOps'[i] = pendingOps[i]
      /\ Queued(s, t)' = Queued(s, t) \cup
           IF op.kind \in Moves /\ op.sub = s /\ op.topic = t THEN {Len(pendingOps) + 1} ELSE {}
  BY QueuedAppend
<1>2. Queued(s, t)' = Queued(s, t)
  BY <1>1
<1>3. \A i \in Queued(s, t) : pendingOps'[i] = pendingOps[i]
  BY <1>1, QueuedTypes
<1> QED BY <1>2, <1>3, MatchedSame DEF MemberInv

\* The deferred calls are still about subscribers and topics that exist.
LEMMA QueueAppend ==
  ASSUME TypeOK, QueueInv, NEW op \in PendingOp, op.kind \in Moves, pendingOps' = Append(pendingOps, op),
         topics \subseteq topics',
         \A s \in Subscribers : status[s] # "none" => status'[s] # "none",
         \A s \in Subscribers : topicsOf'[s] \subseteq topics',
         status'[op.sub] # "none", op.topic \in topics'
  PROVE  QueueInv'
<1>1. /\ \A i \in 1 .. Len(pendingOps) : pendingOps'[i] = pendingOps[i]
      /\ pendingOps'[Len(pendingOps) + 1] = op
      /\ Len(pendingOps') = Len(pendingOps) + 1
  BY QueuedAppend
<1>2. Len(pendingOps) \in Nat
  BY DEF TypeOK
<1>3. \A i \in 1 .. Len(pendingOps) : pendingOps[i].kind \in Moves => pendingOps[i].sub \in Subscribers
  BY DEF TypeOK, PendingOp, Moves
<1>4. ASSUME NEW i \in 1 .. Len(pendingOps'), pendingOps'[i].kind \in Moves
      PROVE  status'[pendingOps'[i].sub] # "none" /\ pendingOps'[i].topic \in topics'
  <2>1. CASE i = Len(pendingOps) + 1
    BY <1>1, <2>1
  <2>2. CASE i \in 1 .. Len(pendingOps)
    <3>1. pendingOps'[i] = pendingOps[i] /\ pendingOps[i].kind \in Moves
      BY <1>1, <1>4, <2>2
    <3>2. status[pendingOps[i].sub] # "none" /\ pendingOps[i].topic \in topics
      BY <2>2, <3>1 DEF QueueInv
    <3> QED BY <1>3, <2>2, <3>1, <3>2
  <2> QED BY <1>1, <1>2, <2>1, <2>2
<1> QED BY <1>4 DEF QueueInv

\* ws.subscribe.
LEMMA TreeSubscribe ==
  ASSUME KeepsOrder, IInv, CallsInv, TreeInv, NEW s \in Subscribers, NEW t \in Topics, Subscribe(s, t)
  PROVE  TreeInv'
<1>0. TypeOK /\ MemberInv /\ QueueInv /\ CountsSubscribers
  BY DEF IInv, TreeInv
<1>1. /\ status' = [status EXCEPT ![s] = "live"]
      /\ topics' = topics \cup {t}
      /\ topicsOf' = [topicsOf EXCEPT ![s] = @ \cup {t}]
      /\ t \notin topicsOf[s] /\ MayCall("subscribe")
  BY DEF Subscribe
<1>2. status \in [Subscribers -> {"none", "live", "doomed"}] /\ topicsOf \in [Subscribers -> SUBSET Topics]
  BY <1>0 DEF TypeOK
<1>3. /\ t \in topicsOf'[s]
      /\ \A x \in Subscribers, u \in Topics : ~(x = s /\ u = t) => (u \in topicsOf'[x] <=> u \in topicsOf[x])
      /\ status'[s] # "none" /\ \A x \in Subscribers : status[x] # "none" => status'[x] # "none"
  BY <1>1, <1>2
<1>4. topics \subseteq topics' /\ t \in topics' /\ \A x \in Subscribers : topicsOf'[x] \subseteq topics'
  <2>1. \A x \in Subscribers : topicsOf[x] \subseteq topics
    BY <1>0 DEF QueueInv
  <2> QED BY <1>1, <1>2, <2>1
<1>5. /\ Cardinality(Subscribed(t)') = Cardinality(Subscribed(t)) + 1
      /\ \A u \in Topics : u # t => Subscribed(u)' = Subscribed(u)
  BY <1>0, <1>1, SubscribedMove
<1>6. \A u \in Topics : Balanced(u)
  BY <1>0, CountsBalanced
<1>7. CASE Deferred(t) /\ DeferOp(Op("subscribe", s, t)) /\ UNCHANGED members
  <2> DEFINE op == Op("subscribe", s, t)
  <2>1. op \in PendingOp /\ pendingOps' = Append(pendingOps, op) /\ UNCHANGED members
    BY <1>7, OpTypes DEF DeferOp
  <2>2. op.kind = "subscribe" /\ op.sub = s /\ op.topic = t /\ op.kind \in Moves
    BY DEF Op, Moves
  <2> HIDE DEF op
  <2>3. Matched(s, t)'
    BY <1>0, <1>1, <1>3, <2>1, <2>2, MatchedAppend DEF MemberInv
  <2>4. MemberInv'
    <3> SUFFICES ASSUME NEW x \in Subscribers, NEW u \in Topics, ~(x = s /\ u = t) PROVE Matched(x, u)'
      BY <2>3 DEF MemberInv
    <3> QED BY <1>0, <1>3, <2>1, <2>2, OthersAppend
  <2>5. QueueInv'
    BY <1>0, <1>3, <1>4, <2>1, <2>2, QueueAppend
  <2>6. ASSUME NEW u \in Topics PROVE Balanced(u)'
    <3>1. /\ Cardinality(Deferrals("subscribe", u)') =
               Cardinality(Deferrals("subscribe", u)) + IF op.kind = "subscribe" /\ op.topic = u THEN 1 ELSE 0
          /\ Cardinality(Deferrals("unsubscribe", u)') =
               Cardinality(Deferrals("unsubscribe", u)) + IF op.kind = "unsubscribe" /\ op.topic = u THEN 1 ELSE 0
      BY <1>0, <2>1, DeferralsAppend
    <3>2. CASE u = t
      BY <1>0, <1>5, <1>6, <2>1, <2>2, <3>1, <3>2, Tallies DEF Balanced
    <3>3. CASE u # t
      BY <1>0, <1>5, <1>6, <2>1, <2>2, <3>1, <3>3, Tallies DEF Balanced
    <3> QED BY <3>2, <3>3
  <2> QED BY <2>4, <2>5, <2>6 DEF TreeInv, CountsSubscribers, NumSubscribers, Balanced, Deferrals, Subscribed
<1>8. CASE ~Deferred(t) /\ members' = [members EXCEPT ![t] = @ \cup {s}] /\ UNCHANGED deferVars
  <2>1. Queued(s, t) = {}
    BY <1>0, <1>1, <1>8, NotDeferred
  <2>2. UNCHANGED pendingOps /\ \A x, u : Queued(x, u)' = Queued(x, u)
    BY <1>8 DEF deferVars, Queued
  <2>3. s \notin members[t]
    BY <1>0, <1>1, <2>1 DEF MemberInv, Matched, Alternate
  <2>4. s \in members'[t] /\ \A x \in Subscribers, u \in Topics :
          ~(x = s /\ u = t) => (x \in members'[u] <=> x \in members[u])
    BY <1>0, <1>8 DEF TypeOK
  <2>5. MemberInv'
    <3> SUFFICES ASSUME NEW x \in Subscribers, NEW u \in Topics PROVE Matched(x, u)'
      BY DEF MemberInv
    <3>1. CASE x = s /\ u = t
      BY <1>3, <2>1, <2>2, <2>4, <3>1, MatchedEmpty
    <3>2. CASE ~(x = s /\ u = t)
      BY <1>0, <1>3, <2>2, <2>4, <3>2, MatchedSame DEF MemberInv
    <3> QED BY <3>1, <3>2
  <2>6. QueueInv'
    <3>1. \A i \in 1 .. Len(pendingOps) : pendingOps[i].kind \in Moves => pendingOps[i].sub \in Subscribers
      BY <1>0 DEF TypeOK, PendingOp, Moves
    <3> QED BY <1>0, <1>3, <1>4, <2>2, <3>1 DEF QueueInv
  <2>7. ASSUME NEW u \in Topics PROVE Balanced(u)'
    <3>1. \A kind : Deferrals(kind, u)' = Deferrals(kind, u)
      BY <2>2 DEF Deferrals
    <3>2. /\ Cardinality(members'[t]) = Cardinality(members[t]) + 1
          /\ \A v \in Topics : v # t => members'[v] = members[v]
      BY <1>0, <1>8, <2>3, MembersMove
    <3>3. CASE u = t
      BY <1>0, <1>5, <1>6, <3>1, <3>2, <3>3, Tallies DEF Balanced
    <3>4. CASE u # t
      BY <1>0, <1>5, <1>6, <3>1, <3>2, <3>4, Tallies DEF Balanced
    <3> QED BY <3>3, <3>4
  <2> QED BY <2>5, <2>6, <2>7 DEF TreeInv, CountsSubscribers, NumSubscribers, Balanced, Deferrals, Subscribed
<1> QED BY <1>7, <1>8 DEF Subscribe

\* ws.unsubscribe.
LEMMA TreeUnsubscribe ==
  ASSUME KeepsOrder, IInv, CallsInv, TreeInv, NEW s \in Subscribers, NEW t \in Topics, Unsubscribe(s, t)
  PROVE  TreeInv'
<1>0. TypeOK /\ DeferInv /\ MemberInv /\ QueueInv /\ CountsSubscribers
  BY DEF IInv, TreeInv
<1>1. /\ status' = status /\ status[s] = "live"
      /\ topicsOf' = [topicsOf EXCEPT ![s] = @ \ {t}]
      /\ t \in topicsOf[s] /\ MayCall("unsubscribe")
  BY DEF Unsubscribe, Live
<1>2. topicsOf \in [Subscribers -> SUBSET Topics]
  BY <1>0 DEF TypeOK
<1>3. /\ t \notin topicsOf'[s]
      /\ \A x \in Subscribers, u \in Topics : ~(x = s /\ u = t) => (u \in topicsOf'[x] <=> u \in topicsOf[x])
      /\ \A x \in Subscribers : topicsOf'[x] \subseteq topicsOf[x]
  BY <1>1, <1>2
<1>4. \A x \in Subscribers : topicsOf[x] \subseteq topics
  BY <1>0 DEF QueueInv
<1>5. /\ Cardinality(Subscribed(t)') = Cardinality(Subscribed(t)) - 1
      /\ \A u \in Topics : u # t => Subscribed(u)' = Subscribed(u)
  BY <1>0, <1>1, SubscribedMove
<1>6. \A u \in Topics : Balanced(u)
  BY <1>0, CountsBalanced
<1>7. CASE Deferred(t) /\ DeferOp(Op("unsubscribe", s, t)) /\ UNCHANGED <<members, topics>>
  <2> DEFINE op == Op("unsubscribe", s, t)
  <2>1. op \in PendingOp /\ pendingOps' = Append(pendingOps, op) /\ UNCHANGED <<members, topics>>
    BY <1>7, OpTypes DEF DeferOp
  <2>2. op.kind = "unsubscribe" /\ op.sub = s /\ op.topic = t /\ op.kind \in Moves
    BY DEF Op, Moves
  <2> HIDE DEF op
  <2>3. Matched(s, t)'
    BY <1>0, <1>1, <1>3, <2>1, <2>2, MatchedAppend DEF MemberInv
  <2>4. MemberInv'
    <3> SUFFICES ASSUME NEW x \in Subscribers, NEW u \in Topics, ~(x = s /\ u = t) PROVE Matched(x, u)'
      BY <2>3 DEF MemberInv
    <3> QED BY <1>0, <1>3, <2>1, <2>2, OthersAppend
  <2>5. QueueInv'
    BY <1>0, <1>1, <1>3, <1>4, <2>1, <2>2, QueueAppend
  <2>6. ASSUME NEW u \in Topics PROVE Balanced(u)'
    <3>1. /\ Cardinality(Deferrals("subscribe", u)') =
               Cardinality(Deferrals("subscribe", u)) + IF op.kind = "subscribe" /\ op.topic = u THEN 1 ELSE 0
          /\ Cardinality(Deferrals("unsubscribe", u)') =
               Cardinality(Deferrals("unsubscribe", u)) + IF op.kind = "unsubscribe" /\ op.topic = u THEN 1 ELSE 0
      BY <1>0, <2>1, DeferralsAppend
    <3>2. CASE u = t
      BY <1>0, <1>5, <1>6, <2>1, <2>2, <3>1, <3>2, Tallies DEF Balanced
    <3>3. CASE u # t
      BY <1>0, <1>5, <1>6, <2>1, <2>2, <3>1, <3>3, Tallies DEF Balanced
    <3> QED BY <3>2, <3>3
  <2> QED BY <2>4, <2>5, <2>6 DEF TreeInv, CountsSubscribers, NumSubscribers, Balanced, Deferrals, Subscribed
<1>8. CASE ~Deferred(t) /\ EraseFromTopic(s, t, 1) /\ UNCHANGED deferVars
  <2>1. Queued(s, t) = {}
    BY <1>0, <1>1, <1>8, NotDeferred
  <2>2. UNCHANGED pendingOps /\ \A x, u : Queued(x, u)' = Queued(x, u)
    BY <1>8 DEF deferVars, Queued
  <2>3. s \in members[t]
    BY <1>0, <1>1, <2>1 DEF MemberInv, Matched, Alternate
  <2>4. members' = [members EXCEPT ![t] = @ \ {s}]
    BY <1>8 DEF EraseFromTopic
  <2>5. s \notin members'[t] /\ \A x \in Subscribers, u \in Topics :
          ~(x = s /\ u = t) => (x \in members'[u] <=> x \in members[u])
    BY <1>0, <2>4 DEF TypeOK
  <2>6. MemberInv'
    <3> SUFFICES ASSUME NEW x \in Subscribers, NEW u \in Topics PROVE Matched(x, u)'
      BY DEF MemberInv
    <3>1. CASE x = s /\ u = t
      BY <1>3, <2>1, <2>2, <2>5, <3>1, MatchedEmpty
    <3>2. CASE ~(x = s /\ u = t)
      BY <1>0, <1>3, <2>2, <2>5, <3>2, MatchedSame DEF MemberInv
    <3> QED BY <3>1, <3>2
  <2>7. ASSUME NEW x \in Subscribers, NEW u \in Topics, ~(x = s /\ u = t), u \in topics,
               Queued(x, u) # {} \/ u \in topicsOf[x]
        PROVE  u \in topics'
    <3>1. CASE x = s
      BY <1>8, <2>7, <3>1 DEF EraseFromTopic
    <3>2. CASE x # s
      <4>1. \A i \in Queued(x, t) : 1 <= i
        BY <1>0, QueuedTypes
      <4> QED BY <1>0, <1>8, <2>7, <3>2, <4>1, ErasedTopic
    <3> QED BY <3>1, <3>2
  <2>8. QueueInv'
    <3>1. ASSUME NEW i \in 1 .. Len(pendingOps), pendingOps[i].kind \in Moves
          PROVE  pendingOps[i].topic \in topics' /\ status[pendingOps[i].sub] # "none"
      <4>1. pendingOps[i].sub \in Subscribers /\ pendingOps[i].topic \in Topics
        BY <1>0, <3>1 DEF TypeOK, PendingOp, Moves
      <4>2. i \in Queued(pendingOps[i].sub, pendingOps[i].topic)
        BY <1>0, <3>1, QueuedTypes
      <4>3. pendingOps[i].topic \in topics /\ status[pendingOps[i].sub] # "none"
        BY <1>0, <3>1 DEF QueueInv
      <4> QED BY <2>1, <2>7, <4>1, <4>2, <4>3
    <3>2. ASSUME NEW x \in Subscribers, NEW u \in topicsOf'[x] PROVE u \in topics'
      <4>1. u \in Topics /\ u \in topics /\ u \in topicsOf[x] /\ ~(x = s /\ u = t)
        BY <1>2, <1>3, <1>4, <3>2
      <4> QED BY <2>7, <4>1
    <3> QED BY <1>1, <2>2, <3>1, <3>2 DEF QueueInv
  <2>9. ASSUME NEW u \in Topics PROVE Balanced(u)'
    <3>1. \A kind : Deferrals(kind, u)' = Deferrals(kind, u)
      BY <2>2 DEF Deferrals
    <3>2. /\ Cardinality(members'[t]) = Cardinality(members[t]) - 1
          /\ \A v \in Topics : v # t => members'[v] = members[v]
      BY <1>0, <2>3, <2>4, MembersMove
    <3>3. CASE u = t
      BY <1>0, <1>5, <1>6, <3>1, <3>2, <3>3, Tallies DEF Balanced
    <3>4. CASE u # t
      BY <1>0, <1>5, <1>6, <3>1, <3>2, <3>4, Tallies DEF Balanced
    <3> QED BY <3>3, <3>4
  <2> QED BY <2>6, <2>8, <2>9 DEF TreeInv, CountsSubscribers, NumSubscribers, Balanced, Deferrals, Subscribed
<1> QED BY <1>7, <1>8 DEF Unsubscribe

\* destroySubscriber, once nothing is deferred.
LEMMA TreeDestroy ==
  ASSUME TypeOK, TreeInv, NEW s \in Subscribers, Destroy(s), UNCHANGED pendingOps,
         \A i \in 1 .. Len(pendingOps) : pendingOps[i].kind \notin Moves
  PROVE  TreeInv'
<1>0. MemberInv /\ QueueInv /\ CountsSubscribers
  BY DEF TreeInv
<1>1. \A x, u : Queued(x, u) = {} /\ Queued(x, u)' = {}
  <2>1. \A x, u : Queued(x, u)' = Queued(x, u)
    BY DEF Queued
  <2> QED BY <2>1, QueuedTypes
<1>2. \A x \in Subscribers, u \in Topics : x \in members[u] <=> u \in topicsOf[x]
  BY <1>0, <1>1 DEF MemberInv, Matched, Alternate
<1>3. ASSUME NEW u \in LeftByAll(s) PROVE members[u] = {s} /\ u \in Topics
  <2>1. u \in Topics /\ u \in topicsOf[s] /\ Cardinality(members[u]) = 1
    BY DEF LeftByAll, TypeOK
  <2>2. IsFiniteSet(members[u]) /\ s \in members[u]
    BY <1>2, <2>1, Tallies
  <2>3. \E x : members[u] = {x}
    BY <2>1, <2>2, FS_Singleton
  <2> QED BY <2>1, <2>2, <2>3
<1>4. /\ topicsOf' = [topicsOf EXCEPT ![s] = {}] /\ topics' = topics \ LeftByAll(s)
      /\ \A u \in Topics : members'[u] = IF u \in LeftByAll(s) THEN {}
                                         ELSE IF u \in topicsOf[s] THEN members[u] \ {s}
                                         ELSE members[u]
  BY DEF Destroy
<1>5. topicsOf'[s] = {} /\ \A x \in Subscribers : x # s => topicsOf'[x] = topicsOf[x]
  BY <1>4 DEF TypeOK
<1>6. ASSUME NEW x \in Subscribers, NEW u \in Topics PROVE x \in members'[u] <=> u \in topicsOf'[x]
  <2>1. CASE x = s
    BY <1>2, <1>4, <1>5, <2>1
  <2>2. CASE x # s
    <3>1. topicsOf'[x] = topicsOf[x] /\ (x \in members[u] <=> u \in topicsOf[x])
      BY <1>2, <1>5, <2>2
    <3>2. CASE u \in LeftByAll(s)
      BY <1>3, <1>4, <2>2, <3>1, <3>2
    <3>3. CASE u \notin LeftByAll(s)
      BY <1>4, <2>2, <3>1, <3>3
    <3> QED BY <3>2, <3>3
  <2> QED BY <2>1, <2>2
<1>7. MemberInv'
  BY <1>1, <1>6, MatchedEmpty DEF MemberInv
<1>8. QueueInv'
  <2>1. ASSUME NEW x \in Subscribers, NEW u \in topicsOf'[x] PROVE u \in topics'
    <3>1. x # s /\ u \in topicsOf[x] /\ u \in Topics
      BY <1>5, <2>1 DEF TypeOK
    <3>2. u \in topics
      BY <1>0, <3>1 DEF QueueInv
    <3> QED BY <1>2, <1>3, <1>4, <3>1, <3>2
  <2> QED BY <2>1 DEF QueueInv
<1>9. CountsSubscribers'
  <2> SUFFICES ASSUME NEW u \in Topics PROVE Balanced(u)'
    BY DEF CountsSubscribers, NumSubscribers, Balanced, Deferrals, Subscribed
  <2>1. DOMAIN pendingOps = 1 .. Len(pendingOps)
    BY DEF TypeOK
  <2>2. Deferrals("subscribe", u)' = {} /\ Deferrals("unsubscribe", u)' = {}
    BY <2>1 DEF Deferrals, Moves
  <2>3. members'[u] \subseteq Subscribers
    BY <1>4 DEF TypeOK
  <2>4. Subscribed(u)' = members'[u]
    BY <1>6, <2>3 DEF Subscribed
  <2>5. IsFiniteSet(members'[u])
    BY <2>3, FS_Subset, TopicTreeAssumption
  <2>6. Cardinality(Deferrals("subscribe", u)') = 0 /\ Cardinality(Deferrals("unsubscribe", u)') = 0
    BY <2>2, FS_EmptySet, Zenon
  <2>7. Cardinality(Subscribed(u)') = Cardinality(members'[u])
    BY <2>4, Zenon
  <2>8. Cardinality(members'[u]) \in Nat
    BY <2>5, FS_CardinalityType
  <2> QED BY <2>6, <2>7, <2>8 DEF Balanced
<1> QED BY <1>7, <1>8, <1>9 DEF TreeInv

\* A socket closes.
LEMMA TreeFree ==
  ASSUME IInv, TreeInv, NEW s \in Subscribers, FreeSubscriber(s)
  PROVE  TreeInv'
<1>0. TypeOK /\ drainingDepth \in Nat
  BY DEF IInv, TypeOK
<1>1. CASE drainingDepth > 0 \/ applying
  <2>1. UNCHANGED <<topicsOf, members, topics, pendingOps>> /\ status' = [status EXCEPT ![s] = "doomed"]
    BY <1>1 DEF FreeSubscriber
  <2>2. \A x \in Subscribers : status[x] # "none" => status'[x] # "none"
    BY <1>0, <2>1 DEF TypeOK
  <2> QED BY <1>0, <2>1, <2>2, TreeSame
<1>2. CASE ~(drainingDepth > 0 \/ applying)
  <2>1. Destroy(s) /\ UNCHANGED pendingOps
    BY <1>2 DEF FreeSubscriber, deferVars
  <2>2. pendingOps = <<>>
    BY <1>0, <1>2, CalmRest
  <2>3. \A i \in 1 .. Len(pendingOps) : pendingOps[i].kind \notin Moves
    BY <2>2
  <2> QED BY <1>0, <2>1, <2>3, TreeDestroy
<1> QED BY <1>1, <1>2

\* applyPending has applied everything.
LEMMA AllApplied ==
  ASSUME TypeOK, StackInv, AppliedInv, Running("apply"), Head(stack).op > Len(pendingOps)
  PROVE  \A i \in 1 .. Len(pendingOps) : pendingOps[i].kind \notin Moves
<1>1. Head(stack).op \in Positions(stack) /\ Head(stack).op \in Nat /\ Len(pendingOps) \in Nat
  BY OnePosition, PositionsNat DEF Running, TypeOK
<1> QED BY <1>1 DEF AppliedInv, Moves

\* The deferred calls are given up once they are applied.
LEMMA TreeFinish ==
  ASSUME TypeOK, TreeInv, UNCHANGED treeVars, pendingOps' = <<>>,
         \A i \in 1 .. Len(pendingOps) : pendingOps[i].kind \notin Moves
  PROVE  TreeInv'
<1>0. MemberInv /\ QueueInv /\ CountsSubscribers /\ UNCHANGED <<status, topicsOf, members, topics>>
  BY DEF TreeInv, treeVars
<1>1. \A x, u : Queued(x, u) = {} /\ Queued(x, u)' = {}
  <2>1. \A x, u : Queued(x, u) = {}
    BY QueuedTypes
  <2>2. \A x, u : Queued(x, u)' = {}
    BY DEF Queued
  <2> QED BY <2>1, <2>2
<1>2. MemberInv'
  BY <1>0, <1>1, MatchedEmpty DEF MemberInv, Matched, Alternate
<1>3. QueueInv'
  BY <1>0 DEF QueueInv
<1>4. CountsSubscribers'
  <2> SUFFICES ASSUME NEW u \in Topics PROVE Balanced(u)'
    BY DEF CountsSubscribers, NumSubscribers, Balanced, Deferrals, Subscribed
  <2>1. DOMAIN pendingOps = 1 .. Len(pendingOps)
    BY DEF TypeOK
  <2>2. \A kind \in Moves : Deferrals(kind, u) = {} /\ Deferrals(kind, u)' = {}
    BY <2>1 DEF Deferrals
  <2>3. Deferrals("subscribe", u)' = Deferrals("subscribe", u)
        /\ Deferrals("unsubscribe", u)' = Deferrals("unsubscribe", u)
    BY <2>2 DEF Moves
  <2>4. Subscribed(u)' = Subscribed(u)
    BY <1>0 DEF Subscribed
  <2>5. Balanced(u)
    BY <1>0, CountsBalanced
  <2> QED BY <1>0, <2>3, <2>4, <2>5, Zenon DEF Balanced
<1> QED BY <1>2, <1>3, <1>4 DEF TreeInv

\* applyPending takes a subscribe or an unsubscribe: the first one on its pair.
LEMMA TreeMove ==
  ASSUME TypeOK, StackInv, DeferInv, AppliedInv, TreeInv, NEW o \in 1 .. Len(pendingOps),
         o \in Positions(stack), NEW s, NEW t, s = pendingOps[o].sub, t = pendingOps[o].topic,
         pendingOps' = [pendingOps EXCEPT ![o].kind = "applied"],
         UNCHANGED <<status, topicsOf>>,
         \/ /\ pendingOps[o].kind = "subscribe"
            /\ members' = [members EXCEPT ![t] = @ \cup {s}]
            /\ UNCHANGED topics
         \/ /\ pendingOps[o].kind = "unsubscribe"
            /\ EraseFromTopic(s, t, o + 1)
  PROVE  TreeInv'
<1>0. MemberInv /\ QueueInv /\ CountsSubscribers
  BY DEF TreeInv
<1>1. pendingOps[o] \in PendingOp /\ pendingOps[o].kind \in Moves /\ s \in Subscribers /\ t \in Topics
      /\ o \in Nat
  BY DEF TypeOK, PendingOp, Moves
<1>2. /\ Len(pendingOps') = Len(pendingOps)
      /\ \A i \in 1 .. Len(pendingOps) : i # o => pendingOps'[i] = pendingOps[i]
      /\ pendingOps'[o].kind = "applied"
      /\ \A x, u : Queued(x, u)' = Queued(x, u) \ {o}
  BY QueuedApply
<1>3. o \in Queued(s, t)
  BY <1>1, QueuedTypes
<1>4. \A x, u : \A i \in Queued(x, u) : i \in 1 .. Len(pendingOps) /\ i \in Nat /\ o <= i
  <2> TAKE x, u
  <2> TAKE i \in Queued(x, u)
  <2>1. i \in 1 .. Len(pendingOps) /\ pendingOps[i].kind \in Moves
    BY QueuedTypes
  <2>2. ~(i < o)
    BY <2>1 DEF AppliedInv, Moves
  <2> QED BY <1>1, <2>1, <2>2
<1>5. pendingOps[o].kind = "unsubscribe" <=> s \in members[t]
  BY <1>0, <1>1, <1>3, <1>4 DEF MemberInv, Matched, Alternate
<1>6. /\ s \in members'[t] <=> pendingOps[o].kind = "subscribe"
      /\ \A x \in Subscribers, u \in Topics : ~(x = s /\ u = t) => (x \in members'[u] <=> x \in members[u])
  BY <1>1 DEF TypeOK, EraseFromTopic
<1>7. MemberInv'
  <2> SUFFICES ASSUME NEW x \in Subscribers, NEW u \in Topics PROVE Matched(x, u)'
    BY DEF MemberInv
  <2>1. CASE x = s /\ u = t
    BY <1>0, <1>1, <1>3, <1>4, <1>6, <2>1, MatchedApply DEF MemberInv
  <2>2. CASE ~(x = s /\ u = t)
    <3>1. o \notin Queued(x, u)
      BY <2>2, QueuedTypes
    <3>2. Queued(x, u)' = Queued(x, u) /\ \A i \in Queued(x, u) : pendingOps'[i] = pendingOps[i]
      BY <1>2, <1>4, <3>1
    <3> QED BY <1>0, <1>6, <2>2, <3>2, MatchedSame DEF MemberInv
  <2> QED BY <2>1, <2>2
<1>8. ASSUME NEW x \in Subscribers, NEW u \in Topics, u \in topics,
             Queued(x, u)' # {} \/ u \in topicsOf[x]
      PROVE  u \in topics'
  <2>1. CASE UNCHANGED topics
    BY <1>8, <2>1
  <2>2. CASE pendingOps[o].kind = "unsubscribe" /\ EraseFromTopic(s, t, o + 1)
    <3>1. CASE u # t
      BY <1>8, <2>2, <3>1 DEF EraseFromTopic
    <3>2. CASE x # s /\ u = t
      <4>1. \A i \in Queued(x, t) : o + 1 <= i
        <5> TAKE i \in Queued(x, t)
        <5>1. i # o
          BY <3>2, QueuedTypes
        <5> QED BY <1>1, <1>4, <5>1
      <4>2. Queued(x, u) # {} \/ u \in topicsOf[x]
        BY <1>2, <1>8
      <4>3. o + 1 \in Nat
        BY <1>1
      <4> QED BY <1>0, <1>1, <1>8, <2>2, <3>2, <4>1, <4>2, <4>3, ErasedTopic
    <3>3. CASE x = s /\ u = t
      <4>1. Alternate(pendingOps, Queued(s, t), s \in members[t], t \in topicsOf[s])
        BY <1>0, <1>1 DEF MemberInv, Matched
      <4>2. ASSUME NEW i \in Queued(s, t), i # o, pendingOps[i].kind # "unsubscribe" PROVE u \in topics'
        <5>1. o + 1 <= i /\ pendingOps[i].kind = "subscribe"
          BY <1>1, <1>4, <4>2, QueuedTypes DEF Moves
        <5> QED BY <1>1, <1>8, <2>2, <3>3, <5>1, EraseKeeps
      <4>3. CASE t \in topicsOf[s]
        <5>1. PICK i \in Queued(s, t) : pendingOps[i].kind = "subscribe" <=> t \in topicsOf[s]
          BY <1>0, <1>1, <1>3, FirstQueued
        <5> QED BY <2>2, <4>2, <4>3, <5>1
      <4>4. CASE Queued(s, t) \ {o} # {}
        <5>1. Queued(s, t) \ {o} \in SUBSET Nat
          BY <1>4
        <5>2. PICK i \in Queued(s, t) \ {o} : \A n \in Queued(s, t) \ {o} : i <= n
          BY <4>4, <5>1, LeastNatural
        <5>3. i \in Queued(s, t) /\ o < i /\ \A n \in Queued(s, t) : n <= o \/ i <= n
          BY <1>1, <1>4, <5>2
        <5>4. pendingOps[o].kind # pendingOps[i].kind
          BY <1>3, <4>1, <5>3 DEF Alternate
        <5> QED BY <2>2, <4>2, <5>2, <5>4
      <4> QED BY <1>2, <1>8, <3>3, <4>3, <4>4
    <3> QED BY <3>1, <3>2, <3>3
  <2> QED BY <2>1, <2>2
<1>9. QueueInv'
  <2>1. ASSUME NEW i \in 1 .. Len(pendingOps), pendingOps'[i].kind \in Moves
        PROVE  pendingOps'[i].topic \in topics' /\ status'[pendingOps'[i].sub] # "none"
    <3>1. i # o /\ pendingOps'[i] = pendingOps[i]
      BY <1>2, <2>1 DEF Moves
    <3>2. pendingOps[i].kind \in Moves /\ pendingOps[i].sub \in Subscribers /\ pendingOps[i].topic \in Topics
      BY <2>1, <3>1 DEF TypeOK, PendingOp, Moves
    <3>3. i \in Queued(pendingOps[i].sub, pendingOps[i].topic)'
      BY <1>2, <3>1, <3>2, QueuedTypes
    <3>4. pendingOps[i].topic \in topics /\ status[pendingOps[i].sub] # "none"
      BY <1>0, <3>2 DEF QueueInv
    <3> QED BY <1>8, <3>1, <3>2, <3>3, <3>4
  <2>2. ASSUME NEW x \in Subscribers, NEW u \in topicsOf[x] PROVE u \in topics'
    <3>1. u \in Topics /\ u \in topics
      BY <1>0, <2>2 DEF TypeOK, QueueInv
    <3> QED BY <1>8, <3>1
  <2> QED BY <1>2, <2>1, <2>2 DEF QueueInv
<1>10. ASSUME NEW u \in Topics PROVE Balanced(u)'
  <2>1. /\ Cardinality(Deferrals("subscribe", u)') = Cardinality(Deferrals("subscribe", u))
             - IF pendingOps[o].kind = "subscribe" /\ pendingOps[o].topic = u THEN 1 ELSE 0
        /\ Cardinality(Deferrals("unsubscribe", u)') = Cardinality(Deferrals("unsubscribe", u))
             - IF pendingOps[o].kind = "unsubscribe" /\ pendingOps[o].topic = u THEN 1 ELSE 0
    BY DeferralsApply
  <2>2. Subscribed(u)' = Subscribed(u)
    BY DEF Subscribed
  <2>3. Balanced(u)
    BY <1>0, CountsBalanced
  <2>4. CASE u # t
    <3>1. members'[u] = members[u]
      BY <2>4 DEF EraseFromTopic, TypeOK
    <3> QED BY <2>1, <2>2, <2>3, <2>4, <3>1, Tallies DEF Balanced
  <2>5. CASE u = t /\ pendingOps[o].kind = "subscribe"
    <3>1. Cardinality(members'[u]) = Cardinality(members[u]) + 1
      BY <1>1, <1>5, <2>5, MembersMove
    <3> QED BY <2>1, <2>2, <2>3, <2>5, <3>1, Tallies DEF Balanced
  <2>6. CASE u = t /\ pendingOps[o].kind = "unsubscribe"
    <3>1. Cardinality(members'[u]) = Cardinality(members[u]) - 1
      BY <1>1, <1>5, <2>6, MembersMove DEF EraseFromTopic
    <3> QED BY <2>1, <2>2, <2>3, <2>6, <3>1, Tallies DEF Balanced
  <2> QED BY <1>1, <2>4, <2>5, <2>6 DEF Moves
<1> QED BY <1>7, <1>9, <1>10
        DEF TreeInv, CountsSubscribers, NumSubscribers, Balanced, Deferrals, Subscribed

\* applyPending takes a publish.
LEMMA TreeNull ==
  ASSUME TypeOK, TreeInv, UNCHANGED <<status, topicsOf, members, topics>>,
         NEW o \in 1 .. Len(pendingOps), pendingOps[o].kind = "publish",
         pendingOps' = [pendingOps EXCEPT ![o].kind = "applied"]
  PROVE  TreeInv'
<1>0. MemberInv /\ QueueInv /\ CountsSubscribers
  BY DEF TreeInv
<1>1. /\ Len(pendingOps') = Len(pendingOps)
      /\ \A i \in 1 .. Len(pendingOps) : i # o => pendingOps'[i] = pendingOps[i]
      /\ pendingOps'[o].kind = "applied"
      /\ \A x, u : Queued(x, u)' = Queued(x, u) \ {o}
  BY QueuedApply
<1>2. ASSUME NEW x, NEW u
      PROVE  Queued(x, u)' = Queued(x, u) /\ \A i \in Queued(x, u) : pendingOps'[i] = pendingOps[i]
  <2>1. o \notin Queued(x, u)
    BY QueuedTypes DEF Moves
  <2>2. Queued(x, u)' = Queued(x, u)
    BY <1>1, <2>1
  <2>3. ASSUME NEW i \in Queued(x, u) PROVE pendingOps'[i] = pendingOps[i]
    <3>1. i \in 1 .. Len(pendingOps) /\ i # o
      BY <2>1, QueuedTypes
    <3> QED BY <1>1, <3>1
  <2> QED BY <2>2, <2>3
<1>3. MemberInv'
  BY <1>0, <1>2, MatchedSame DEF MemberInv
<1>4. QueueInv'
  BY <1>0, <1>1 DEF QueueInv, Moves
<1>5. CountsSubscribers'
  <2> SUFFICES ASSUME NEW t \in Topics PROVE Balanced(t)'
    BY DEF CountsSubscribers, NumSubscribers, Balanced, Deferrals, Subscribed
  <2>1. /\ Cardinality(Deferrals("subscribe", t)') = Cardinality(Deferrals("subscribe", t)) - 0
        /\ Cardinality(Deferrals("unsubscribe", t)') = Cardinality(Deferrals("unsubscribe", t)) - 0
    BY DeferralsApply
  <2>2. Balanced(t) /\ Subscribed(t)' = Subscribed(t)
    BY <1>0, CountsBalanced DEF Subscribed
  <2> QED BY <2>1, <2>2, Tallies DEF Balanced
<1> QED BY <1>3, <1>4, <1>5 DEF TreeInv

\* Every step.
LEMMA TreeStep ==
  ASSUME KeepsOrder
  PROVE  IInv /\ AppliedInv /\ CallsInv /\ TreeInv /\ [Next]_vars => TreeInv'
<1> SUFFICES ASSUME IInv, AppliedInv, CallsInv, TreeInv, [Next]_vars PROVE TreeInv'
  OBVIOUS
<1>0. TypeOK /\ StackInv /\ DeferInv
  BY DEF IInv
<1>1. CASE UNCHANGED treeVars /\ UNCHANGED pendingOps
  BY <1>0, <1>1, TreeSame DEF treeVars
<1>2. ASSUME NEW s \in Subscribers, NEW t \in Topics, Subscribe(s, t) \/ Unsubscribe(s, t)
      PROVE  TreeInv'
  BY <1>2, TreeSubscribe, TreeUnsubscribe
<1>3. ASSUME NEW s \in Subscribers \cup {NoSub}, NEW t \in Topics, Publish(s, t) PROVE TreeInv'
  <2>1. CASE UNCHANGED deferVars
    BY <1>1, <1>3, <2>1 DEF Publish, deferVars
  <2>2. CASE DeferOp([Op("publish", s, t) EXCEPT !.msg = lastCall + 1])
    <3> DEFINE op == [Op("publish", s, t) EXCEPT !.msg = lastCall + 1]
    <3>1. lastCall + 1 \in 0 .. MaxCalls
      BY <1>0, <1>3, TopicTreeAssumption DEF Publish, TypeOK
    <3>2. op \in PendingOp /\ op.kind = "publish" /\ pendingOps' = Append(pendingOps, op)
      BY <2>2, <3>1, OpTypes DEF Op, DeferOp
    <3>3. UNCHANGED <<status, topicsOf, members, topics>>
      BY <1>3 DEF Publish, treeVars
    <3> HIDE DEF op
    <3> QED BY <1>0, <3>2, <3>3, TreePublish
  <2> QED BY <1>3, <2>1, <2>2 DEF Publish
<1>4. ASSUME NEW s \in Subscribers, Close(s) \/ End(s) PROVE TreeInv'
  <2>1. FreeSubscriber(s) \/ (UNCHANGED treeVars /\ UNCHANGED pendingOps)
    BY <1>4 DEF Close, End, deferVars
  <2> QED BY <1>1, <2>1, TreeFree
<1>5. CASE FreePending
  <2>1. Running("apply") /\ Head(stack).op > Len(pendingOps) /\ pendingFree # <<>>
        /\ Destroy(Head(pendingFree)) /\ UNCHANGED pendingOps
    BY <1>5 DEF FreePending
  <2>2. Head(pendingFree) \in Subscribers
    BY <1>0, <2>1 DEF TypeOK
  <2> QED BY <1>0, <2>1, <2>2, AllApplied, TreeDestroy
<1>6. CASE FinishApply
  BY <1>0, <1>6, AllApplied, TreeFinish DEF FinishApply
<1>7. CASE ApplyOp
  <2> DEFINE o == Head(stack).op
             op == pendingOps[o]
  <2>1. /\ stack # <<>> /\ Head(stack).kind = "apply" /\ o <= Len(pendingOps)
        /\ pendingOps' = [pendingOps EXCEPT ![o].kind = "applied"]
        /\ UNCHANGED <<status, topicsOf>>
    BY <1>7 DEF ApplyOp, Running
  <2>2. o \in 1 .. Len(pendingOps) /\ o \in Positions(stack)
    BY <1>0, <2>1, OpAtFrame, OnePosition
  <2>3. \/ op.kind = "subscribe" /\ members' = [members EXCEPT ![op.topic] = @ \cup {op.sub}] /\ UNCHANGED topics
        \/ op.kind = "unsubscribe" /\ EraseFromTopic(op.sub, op.topic, o + 1)
        \/ op.kind = "publish" /\ UNCHANGED <<members, topics>>
    BY <1>7 DEF ApplyOp
  <2> HIDE DEF o
  <2>4. CASE op.kind = "publish"
    BY <1>0, <2>1, <2>2, <2>3, <2>4, TreeNull
  <2>5. CASE op.kind # "publish"
    BY <1>0, <2>1, <2>2, <2>3, <2>5, TreeMove
  <2> QED BY <2>4, <2>5
<1>8. CASE \/ \E s \in Subscribers \cup {NoSub}, t \in Topics : PublishBig(s, t)
           \/ \E s \in Subscribers : Send(s) \/ Writable(s)
           \/ DrainMessage \/ FinishDrain \/ DrainNext \/ FinishDrainAll \/ FinishSend
           \/ HandlerReturn \/ LoopDrain
  BY <1>1, <1>8 DEF PublishBig, Send, Writable, DrainMessage, FinishDrain, DrainNext, FinishDrainAll,
                    FinishSend, HandlerReturn, LoopDrain, deferVars
<1>9. CASE \/ StartIterating \/ PublishVisit \/ FinishPublish \/ PublishBigVisit
           \/ FinishPublishBig \/ UNCHANGED vars
  BY <1>1, <1>9 DEF StartIterating, PublishVisit, FinishPublish, PublishBigVisit,
                    FinishPublishBig, deferVars, vars
<1> QED BY <1>2, <1>3, <1>4, <1>5, <1>6, <1>7, <1>8, <1>9 DEF Next, Step, Loop, Application, Library

-----------------------------------------------------------------------------
(* Every reachable state.                                                  *)

\* The invariant holds at first.
LEMMA PointerInit == Init => PointerInv
<1> SUFFICES ASSUME Init PROVE PointerInv
  OBVIOUS
<1>0. TypeOK /\ stack = <<>> /\ pendingOps = <<>> /\ pendingFree = <<>>
      /\ Len(stack) = 0 /\ Len(pendingOps) = 0 /\ Len(pendingFree) = 0
  BY TypeInit DEF Init
<1>1. /\ \A s \in Subscribers : status[s] = "none" /\ topicsOf[s] = {} /\ indices[s] = <<>>
      /\ \A t \in Topics : members[t] = {}
      /\ drainable = NoSub
  BY DEF Init
<1>2. Grounded(stack)
  BY <1>0 DEF Grounded
<1>3. Cursors(stack) = {} /\ Positions(stack) = {} /\ ToVisit(stack) = {}
  BY <1>0 DEF Cursors, Positions, ToVisit, Frames
<1>4. ListInv
  <2>1. Waiting = {}
    BY <1>1 DEF Waiting, NeedsDrainage
  <2> DEFINE r == [s \in Subscribers |-> 0]
  <2>2. r \in [Subscribers -> Int]
    OBVIOUS
  <2>3. Ordered({}, {}, r, next, prev, drainable)
    BY <1>1 DEF Ordered, From
  <2> HIDE DEF r
  <2>4. {} \in SUBSET Allocated /\ \A c \in {} : From({}, {}, r, c)
    OBVIOUS
  <2> QED BY <1>3, <2>1, <2>2, <2>3, <2>4 DEF ListInv, Linked
<1>5. FreedInv
  BY <1>0, <1>1 DEF FreedInv
<1>6. VisitInv /\ AppliedInv
  BY <1>3 DEF VisitInv, AppliedInv
<1>7. \A s, t : Queued(s, t) = {}
  BY <1>0 DEF Queued
<1>8. MemberInv
  BY <1>1, <1>7 DEF MemberInv, Matched, Alternate
<1>9. QueueInv
  BY <1>0, <1>1 DEF QueueInv
<1>10. CallsInv
  BY <1>0 DEF CallsInv, Init
<1>11. CountsSubscribers
  <2> SUFFICES ASSUME NEW t \in Topics PROVE Balanced(t)
    BY CountsBalanced
  <2>1. Deferrals("subscribe", t) = {} /\ Deferrals("unsubscribe", t) = {} /\ Subscribed(t) = {}
        /\ members[t] = {}
    BY <1>0, <1>1 DEF Deferrals, Subscribed
  <2>2. /\ Cardinality(Deferrals("subscribe", t)) = 0 /\ Cardinality(Deferrals("unsubscribe", t)) = 0
        /\ Cardinality(Subscribed(t)) = 0 /\ Cardinality(members[t]) = 0
    BY <2>1, FS_EmptySet, Zenon
  <2> QED BY <2>2 DEF Balanced
<1> QED BY <1>2, <1>4, <1>5, <1>6, <1>8, <1>9, <1>10, <1>11 DEF PointerInv

\* Every step keeps it.
LEMMA PointerStep ==
  ASSUME KeepsOrder
  PROVE  IInv /\ PointerInv /\ [Next]_vars => PointerInv'
<1> SUFFICES ASSUME IInv, PointerInv, [Next]_vars PROVE PointerInv'
  OBVIOUS
<1>1. TypeOK /\ StackInv /\ DeferInv
  BY DEF IInv
<1>2. /\ Grounded(stack) /\ ListInv /\ FreedInv /\ VisitInv
      /\ MemberInv /\ QueueInv /\ AppliedInv /\ CallsInv /\ CountsSubscribers /\ TreeInv
  BY DEF PointerInv, TreeInv
<1>3. Grounded(stack')
  BY <1>1, <1>2, GroundedStep
<1>4. ListInv'
  BY <1>1, <1>2, ListStep
<1>5. FreedInv'
  BY <1>1, <1>2, FreedStep
<1>6. VisitInv'
  BY <1>1, <1>2, VisitStep
<1>7. AppliedInv'
  BY <1>1, <1>2, AppliedStep
<1>8. CallsInv'
  BY <1>2, CallsStep
<1>9. TreeInv'
  BY <1>2, TreeStep
<1> QED BY <1>3, <1>4, <1>5, <1>6, <1>7, <1>8, <1>9 DEF PointerInv, TreeInv

\* It holds in every reachable state.
LEMMA PointersHold == ASSUME KeepsOrder PROVE Spec => [](IInv /\ PointerInv)
<1>1. IInv /\ PointerInv /\ [Next]_vars => PointerInv'
  BY PointerStep
<1> QED BY <1>1, PointerInit, Inductive, PTL DEF Spec

\* Whatever handlers close, end, subscribe and publish while the tree is walked,
\* no list, topic, queue or saved cursor is left with a subscriber that was
\* deleted, nor a subscriber with a topic that was (TopicTree.h:56-86, 150-214,
\* 290-312).
THEOREM NothingDangles == ASSUME KeepsOrder PROVE Spec => []NoDanglingPointer
<1>1. IInv /\ PointerInv => NoDanglingPointer
  <2> SUFFICES ASSUME IInv, PointerInv PROVE NoDanglingPointer
    OBVIOUS
  <2>1. TypeOK /\ ListInv /\ FreedInv /\ MemberInv /\ QueueInv
    BY DEF IInv, PointerInv
  <2>2. \A t \in Topics : members[t] \subseteq Allocated
    BY <2>1, MembersAllocated
  <2>3. /\ \A s \in Subscribers : topicsOf[s] \subseteq topics
        /\ \A i \in 1 .. Len(pendingOps) :
             pendingOps[i].kind \in {"subscribe", "unsubscribe"} =>
               pendingOps[i].sub \in Allocated /\ pendingOps[i].topic \in topics
    BY <2>1 DEF QueueInv, Moves, Allocated, TypeOK, PendingOp
  <2>4. \A s \in Subscribers : topicsOf[s] # {} \/ NeedsDrainage(s) => s \in Allocated
    BY <2>1 DEF FreedInv, NeedsDrainage, Allocated
  <2>5. PICK V \in SUBSET Allocated, r \in [Subscribers -> Int] :
          /\ Ordered(V, Waiting, r, next, prev, drainable)
          /\ \A c \in Cursors(stack) : From(V, Waiting, r, c)
    BY <2>1 DEF ListInv, Linked
  <2>6. drainable \in Allocated \cup {NoSub}
    BY <2>5 DEF Ordered, From
  <2>7. \A i \in 1 .. Len(stack) : stack[i].kind = "drainAll" => stack[i].cur \in Allocated \cup {NoSub}
    BY <2>5 DEF From, Cursors, Frames
  <2>8. ASSUME NEW i \in 1 .. Len(pendingFree) PROVE pendingFree[i] \in Allocated
    <3>1. pendingFree[i] \in Subscribers
      BY <2>1 DEF TypeOK
    <3>2. status[pendingFree[i]] = "doomed"
      BY <2>1, <3>1 DEF FreedInv
    <3> QED BY <3>1, <3>2 DEF Allocated
  <2>9. DOMAIN stack = 1 .. Len(stack) /\ DOMAIN pendingOps = 1 .. Len(pendingOps)
        /\ DOMAIN pendingFree = 1 .. Len(pendingFree)
    BY <2>1 DEF TypeOK
  <2> QED BY <2>2, <2>3, <2>4, <2>6, <2>7, <2>8, <2>9 DEF NoDanglingPointer, Allocated
<1> QED BY <1>1, PointersHold, PTL

\* Subscriber::topics, the topics' sets, numSubscribers and the calls that are
\* still deferred tell one story in every state (TopicTree.h:193-288, 375-389).
THEOREM CallsCohere == ASSUME KeepsOrder PROVE Spec => []Coherent
<1>1. IInv /\ PointerInv => Coherent
  <2> SUFFICES ASSUME IInv, PointerInv PROVE Coherent
    OBVIOUS
  <2>1. TypeOK /\ MemberInv /\ CountsSubscribers
    BY DEF IInv, PointerInv
  <2>2. ASSUME NEW s \in Subscribers, NEW t \in Topics, Queued(s, t) = {}
        PROVE  s \in members[t] <=> t \in topicsOf[s]
    BY <2>1, <2>2 DEF MemberInv, Matched, Alternate
  <2>3. ASSUME NEW s \in Subscribers, NEW t \in Topics, Queued(s, t) # {}
        PROVE  \E i \in Queued(s, t) :
                 /\ \A j \in Queued(s, t) : j <= i
                 /\ pendingOps[i].kind = "subscribe" <=> t \in topicsOf[s]
    BY <2>1, <2>3, FirstQueued
  <2>4. Agree
    BY <2>2, <2>3 DEF Agree
  <2> QED BY <2>1, <2>4 DEF Coherent
<1> QED BY <1>1, PointersHold, PTL

=============================================================================
