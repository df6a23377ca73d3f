------------------------ MODULE TopicTreeOrderProofs ------------------------
(***************************************************************************)
(* TopicTree writes to every WebSocket what was published and sent to it   *)
(* in call order: the queue shared by all, its indices and the interrupted *)
(* drains implement one FIFO mailbox per WebSocket.                        *)
(***************************************************************************)
EXTENDS TopicTreePointerProofs

\* Applications publish and send from event handlers only.  What a dropped
\* handler publishes or sends can overtake what the call it interrupts has
\* still to queue or to write.
SendsOutside == \A calls \in Applications : calls \cap {"publish", "send"} = {}

\* The queue has not outgrown its uint16_t indices.
QueueFits == Len(outgoing) <= MaxOutgoing

-----------------------------------------------------------------------------
(* The inductive invariant.                                                *)

Increasing(q) == \A i, j \in 1 .. Len(q) : i < j => q[i] < q[j]
Until(q, m)   == \A i \in 1 .. Len(q) : q[i] < m

\* Frames of the call under way, which still has to reach the Subscribers of
\* Due; a publish claims them all, and NoSub so that there is only one.
OfCall == {"publishStart", "publish", "publishBig", "send"}

Due(f) == CASE f.kind \in {"publishStart", "publish"} -> Subscribers \cup {NoSub}
            [] f.kind = "publishBig"                  -> f.todo
            [] f.kind = "send"                        -> {f.sub}
            [] OTHER                                  -> {}

Apart(st) == \A i, j \in 1 .. Len(st) : i # j => Due(st[i]) \cap Due(st[j]) = {}

\* Only the newest frame has something to write, to a subscriber without indices.
LeftInv ==
  /\ \A f \in Frames(stack) : f.left # <<>> =>
       f.kind \in {"drain", "drainAll"} /\ indices[f.sub] = <<>>
  /\ stack # <<>> => \A f \in Frames(Tail(stack)) : f.left = <<>>

\* The call under way is the last one, and newer than all that is in the queue or
\* was written to those it still has to reach.
CallInv ==
  /\ Apart(stack)
  /\ \A f \in Frames(stack) : f.kind \in OfCall =>
       /\ f.msg = lastCall /\ lastCall > 0
       /\ Until(outgoing, lastCall)
       /\ \A s \in Due(f) \ {NoSub} : Until(delivered[s], lastCall)
       /\ f.kind = "send" => indices[f.sub] = <<>>

\* The publish under way has given s an index.
Reached(s) == \E f \in Frames(stack) : f.kind = "publish" /\ f.used /\ s \notin f.todo

\* The indices q of s are in order, and refer to messages that are newer than
\* those s was given already, or to the one that is being published.
Waits(s, q) ==
  /\ Increasing(q)
  /\ \A k \in 1 .. Len(q) :
       \/ q[k] < Len(outgoing) /\ Until(delivered[s], outgoing[q[k] + 1])
       \/ q[k] = Len(outgoing) /\ Reached(s)

BoxInv ==
  /\ \A s \in Subscribers : Waits(s, indices[s])
  /\ \A f \in Frames(stack) : f.left # <<>> => Waits(f.sub, f.left)

MessagesInv ==
  /\ Increasing(outgoing) /\ Until(outgoing, lastCall + 1)
  /\ \A s \in Subscribers : Increasing(delivered[s]) /\ Until(delivered[s], lastCall + 1)

OrderInv == LeftInv /\ CallInv /\ BoxInv /\ MessagesInv

-----------------------------------------------------------------------------
(* The stack.                                                              *)

\* The frames of a stack are the newest and the others.
LEMMA FramesSplit ==
  ASSUME NEW st \in Seq(Frame), st # <<>>
  PROVE  /\ Frames(st) = Frames(Tail(st)) \cup {Head(st)}
         /\ Head(st) \in Frame /\ Tail(st) \in Seq(Frame) /\ st = <<Head(st)>> \o Tail(st)
<1>1. Head(st) \in Frame /\ Tail(st) \in Seq(Frame) /\ st = <<Head(st)>> \o Tail(st)
  BY StackSplit
<1>2. Frames(<<Head(st)>> \o Tail(st)) = Frames(Tail(st)) \cup {Head(st)}
  BY <1>1, FramesPush
<1> QED BY <1>1, <1>2

\* Frames are frames.
LEMMA FramesTypes ==
  ASSUME NEW st \in Seq(Frame)
  PROVE  Frames(st) \subseteq Frame /\ (st = <<>> => Frames(st) = {})
  BY DEF Frames

\* A frame pushed apart from the others.
LEMMA ApartPush ==
  ASSUME NEW st \in Seq(Frame), NEW f \in Frame
  PROVE  Apart(<<f>> \o st) <=> Apart(st) /\ \A g \in Frames(st) : Due(f) \cap Due(g) = {}
<1> DEFINE up == <<f>> \o st
<1>0. /\ Len(up) = Len(st) + 1 /\ Len(st) \in Nat
      /\ up[1] = f
      /\ \A i \in 1 .. Len(st) : up[i + 1] = st[i]
  BY PushElements
<1> HIDE DEF up
<1>1. ASSUME Apart(up) PROVE Apart(st)
  <2>1. ASSUME NEW i \in 1 .. Len(st), NEW j \in 1 .. Len(st), i # j
        PROVE  Due(st[i]) \cap Due(st[j]) = {}
    <3>1. /\ i + 1 \in 1 .. Len(up) /\ j + 1 \in 1 .. Len(up) /\ i + 1 # j + 1
          /\ up[i + 1] = st[i] /\ up[j + 1] = st[j]
      BY <1>0, <2>1
    <3>2. Due(up[i + 1]) \cap Due(up[j + 1]) = {}
      BY <1>1, <3>1 DEF Apart
    <3> QED BY <3>1, <3>2
  <2> QED BY <2>1 DEF Apart
<1>2. ASSUME Apart(up), NEW g \in Frames(st) PROVE Due(f) \cap Due(g) = {}
  <2>1. PICK j \in 1 .. Len(st) : g = st[j]
    BY <1>2 DEF Frames
  <2>2. 1 \in 1 .. Len(up) /\ j + 1 \in 1 .. Len(up) /\ 1 # j + 1 /\ up[j + 1] = g
    BY <1>0, <2>1
  <2>3. Due(up[1]) \cap Due(up[j + 1]) = {}
    BY <1>2, <2>2 DEF Apart
  <2> QED BY <1>0, <2>2, <2>3
<1>3. ASSUME Apart(st), \A g \in Frames(st) : Due(f) \cap Due(g) = {} PROVE Apart(up)
  <2>0. ASSUME NEW k \in 1 .. Len(up), k # 1
        PROVE  k - 1 \in 1 .. Len(st) /\ up[k] = st[k - 1] /\ up[k] \in Frames(st)
    BY <1>0, <2>0 DEF Frames
  <2>1. ASSUME NEW i \in 1 .. Len(up), NEW j \in 1 .. Len(up), i # j
        PROVE  Due(up[i]) \cap Due(up[j]) = {}
    <3>1. CASE i = 1
      <4>1. up[j] \in Frames(st)
        BY <2>0, <2>1, <3>1
      <4> QED BY <1>0, <1>3, <3>1, <4>1
    <3>2. CASE j = 1
      <4>1. up[i] \in Frames(st)
        BY <2>0, <2>1, <3>2
      <4> QED BY <1>0, <1>3, <3>2, <4>1
    <3>3. CASE i # 1 /\ j # 1
      <4>1. i - 1 \in 1 .. Len(st) /\ j - 1 \in 1 .. Len(st) /\ i - 1 # j - 1
            /\ up[i] = st[i - 1] /\ up[j] = st[j - 1]
        BY <2>0, <2>1, <3>3
      <4>2. Due(st[i - 1]) \cap Due(st[j - 1]) = {}
        BY <1>3, <4>1 DEF Apart
      <4> QED BY <4>1, <4>2
    <3> QED BY <3>1, <3>2, <3>3
  <2> QED BY <2>1 DEF Apart
<1> QED BY <1>1, <1>2, <1>3 DEF up

\* The newest frame is apart from the others.
LEMMA ApartSplit ==
  ASSUME NEW st \in Seq(Frame), st # <<>>
  PROVE  Apart(st) <=> /\ Apart(Tail(st))
                       /\ \A g \in Frames(Tail(st)) : Due(Head(st)) \cap Due(g) = {}
<1>1. Head(st) \in Frame /\ Tail(st) \in Seq(Frame) /\ st = <<Head(st)>> \o Tail(st)
  BY StackSplit
<1>2. Apart(<<Head(st)>> \o Tail(st)) <=>
        Apart(Tail(st)) /\ \A g \in Frames(Tail(st)) : Due(Head(st)) \cap Due(g) = {}
  BY <1>1, ApartPush
<1> QED BY <1>1, <1>2

\* What an interrupted drain of s has left, when only the newest frame has any.
LeftOf(st, s) ==
  LET drains == {i \in DOMAIN st : st[i].sub = s /\ st[i].left # <<>>}
  IN  IF drains = {} THEN <<>> ELSE st[CHOOSE i \in drains : TRUE].left

\* What a drain has left is in the newest frame.
LEMMA LeftOfTop ==
  ASSUME NEW st \in Seq(Frame), st # <<>> => \A f \in Frames(Tail(st)) : f.left = <<>>, NEW s
  PROVE  LeftOf(st, s) = IF st # <<>> /\ Head(st).sub = s THEN Head(st).left ELSE <<>>
<1> DEFINE drains == {i \in DOMAIN st : st[i].sub = s /\ st[i].left # <<>>}
<1>0. Len(st) \in Nat /\ DOMAIN st = 1 .. Len(st)
  OBVIOUS
<1>1. ASSUME NEW i \in drains PROVE i = 1 /\ st # <<>> /\ Head(st) = st[1]
  <2>1. i \in 1 .. Len(st) /\ st # <<>> /\ Head(st) = st[1]
    BY <1>0
  <2>2. ASSUME i # 1 PROVE FALSE
    <3>1. i - 1 \in 1 .. Len(Tail(st)) /\ Tail(st)[i - 1] = st[i]
      BY <1>0, <2>1, <2>2
    <3>2. st[i] \in Frames(Tail(st))
      BY <3>1 DEF Frames
    <3> QED BY <2>1, <3>2
  <2> QED BY <2>1, <2>2
<1>2. CASE drains = {}
  <2>1. ASSUME st # <<>>, Head(st).sub = s PROVE Head(st).left = <<>>
    <3>1. 1 \in DOMAIN st /\ st[1] = Head(st)
      BY <2>1
    <3> QED BY <1>2, <2>1, <3>1
  <2> QED BY <1>2, <2>1 DEF LeftOf
<1>3. CASE drains # {}
  <2>1. drains = {1} /\ st # <<>> /\ Head(st) = st[1]
    BY <1>1, <1>3
  <2>2. (CHOOSE i \in drains : TRUE) = 1
    BY <2>1
  <2>3. st[1].sub = s
    BY <2>1
  <2> QED BY <2>1, <2>2, <2>3 DEF LeftOf
<1> QED BY <1>2, <1>3

\* The message of the one publish under way.
CurrentOf(st) ==
  LET walks == {k \in DOMAIN st : st[k].kind = "publish"}
  IN  IF walks = {} THEN 0 ELSE st[CHOOSE k \in walks : TRUE].msg

\* The one publish under way is the current one.
LEMMA CurrentOfPublish ==
  ASSUME NEW st \in Seq(Frame), NEW f \in Frames(st), f.kind = "publish", Apart(st)
  PROVE  CurrentOf(st) = f.msg
<1> DEFINE walks == {k \in DOMAIN st : st[k].kind = "publish"}
<1>0. DOMAIN st = 1 .. Len(st)
  OBVIOUS
<1>1. PICK i \in 1 .. Len(st) : st[i] = f
  BY DEF Frames
<1>2. ASSUME NEW k \in walks PROVE k = i
  <2>1. NoSub \in Due(st[k]) /\ NoSub \in Due(st[i])
    BY <1>1 DEF Due
  <2> QED BY <1>0, <2>1 DEF Apart
<1>3. i \in walks
  BY <1>0, <1>1
<1>4. walks = {i}
  BY <1>2, <1>3
<1>5. (CHOOSE k \in walks : TRUE) = i
  BY <1>4
<1> QED BY <1>1, <1>4, <1>5 DEF CurrentOf

\* Nothing is being published.
LEMMA CurrentOfNone ==
  ASSUME NEW st \in Seq(Frame), \A f \in Frames(st) : f.kind # "publish"
  PROVE  CurrentOf(st) = 0
<1>1. {k \in DOMAIN st : st[k].kind = "publish"} = {}
  BY DEF Frames
<1> QED BY <1>1 DEF CurrentOf

-----------------------------------------------------------------------------
(* Steps that begin no call, write nothing and hand out no index.          *)

\* g is the frame f with possibly fewer members to visit.
Fewer(g, f) ==
  /\ g.kind = f.kind /\ g.msg = f.msg /\ g.sub = f.sub /\ g.left = f.left /\ g.used = f.used
  /\ g.todo \subseteq f.todo

\* g belongs to no call, and what it has to write were the indices of its
\* subscriber.
Fresh(g) ==
  /\ g.kind \notin OfCall
  /\ g.left # <<>> => /\ g.kind \in {"drain", "drainAll"}
                      /\ g.left = indices[g.sub]
                      /\ indices'[g.sub] = <<>>

\* g sends the message of the call under way, which is newer than all others, to
\* a subscriber without indices.
Sends(g) ==
  /\ g.kind = "send" /\ g.msg = lastCall /\ lastCall > 0 /\ g.left = <<>>
  /\ Until(outgoing, lastCall) /\ Until(delivered[g.sub], lastCall)
  /\ indices'[g.sub] = <<>>

\* The frames of the next stack are those of this one, and new ones.
Stems(g) == Fresh(g) \/ Sends(g) \/ \E f \in Frames(stack) : Fewer(g, f)

Restacked ==
  /\ Apart(stack')
  /\ \A g \in Frames(stack') : Stems(g)
  /\ \A f \in Frames(stack) : f.kind = "publish" => \E g \in Frames(stack') : Fewer(g, f)
  /\ stack' # <<>> => \A g \in Frames(Tail(stack')) : g.left = <<>>

\* Whoever had an index still has one, or lost all.
Fewest ==
  /\ \A s \in Subscribers : indices'[s] \in {indices[s], <<>>}
  /\ \/ outgoing' = outgoing
     \/ /\ outgoing' = <<>>
        /\ \A s \in Subscribers : indices'[s] = <<>>
        /\ \A g \in Frames(stack') : g.left = <<>>

\* An empty list of indices, or of messages.
LEMMA Nothing ==
  /\ Increasing(<<>>) /\ \A m : Until(<<>>, m)
  /\ \A s \in Subscribers : Waits(s, <<>>)
  BY DEF Increasing, Until, Waits

\* Who is due with fewer members to visit.
LEMMA FewerDue ==
  ASSUME NEW f, NEW g, Fewer(g, f)
  PROVE  Due(g) \subseteq Due(f)
  BY DEF Fewer, Due

\* Steps that begin no call, write nothing and hand out no index keep the invariant.
LEMMA KeptOrder ==
  ASSUME TypeOK, OrderInv, Restacked, Fewest, stack' \in Seq(Frame), UNCHANGED <<delivered, lastCall>>
  PROVE  OrderInv'
<1>0. /\ stack \in Seq(Frame) /\ Frames(stack) \subseteq Frame /\ Frames(stack') \subseteq Frame
      /\ \A f \in Frame : f.left # <<>> => f.sub \in Subscribers
      /\ \A f \in Frame : f.kind = "send" => f.sub \in Subscribers
  BY FramesTypes DEF TypeOK, Frame, Handles
<1>1. LeftInv'
  <2>1. ASSUME NEW g \in Frames(stack'), g.left # <<>>
        PROVE  g.kind \in {"drain", "drainAll"} /\ indices'[g.sub] = <<>>
    <3>1. CASE Fresh(g)
      BY <2>1, <3>1 DEF Fresh
    <3>2. CASE \E f \in Frames(stack) : Fewer(g, f)
      <4>1. PICK f \in Frames(stack) : Fewer(g, f)
        BY <3>2
      <4>2. f.left # <<>> /\ f.kind = g.kind /\ f.sub = g.sub /\ f.sub \in Subscribers
        BY <1>0, <2>1, <4>1 DEF Fewer
      <4>3. f.kind \in {"drain", "drainAll"} /\ indices[f.sub] = <<>>
        BY <4>2 DEF OrderInv, LeftInv
      <4> QED BY <4>2, <4>3 DEF Fewest
    <3> QED BY <2>1, <3>1, <3>2 DEF Restacked, Stems, Sends
  <2> QED BY <2>1 DEF LeftInv, Restacked
<1>2. CallInv'
  <2>1. ASSUME NEW g \in Frames(stack'), g.kind \in OfCall
        PROVE  /\ g.msg = lastCall /\ lastCall > 0 /\ Until(outgoing', lastCall)
               /\ \A s \in Due(g) \ {NoSub} : Until(delivered[s], lastCall)
               /\ g.kind = "send" => indices'[g.sub] = <<>>
    <3>0. CASE Sends(g)
      <4>1. Until(outgoing', lastCall)
        BY <3>0, Nothing DEF Sends, Fewest
      <4>2. \A s \in Due(g) : s = g.sub
        BY <3>0 DEF Sends, Due
      <4> QED BY <3>0, <4>1, <4>2 DEF Sends
    <3> SUFFICES ASSUME ~Sends(g)
                 PROVE  /\ g.msg = lastCall /\ lastCall > 0 /\ Until(outgoing', lastCall)
                        /\ \A s \in Due(g) \ {NoSub} : Until(delivered[s], lastCall)
                        /\ g.kind = "send" => indices'[g.sub] = <<>>
      BY <3>0
    <3>1. PICK f \in Frames(stack) : Fewer(g, f)
      BY <2>1 DEF Restacked, Stems, Fresh
    <3>2. f.kind = g.kind /\ f.msg = g.msg /\ f.sub = g.sub /\ Due(g) \subseteq Due(f)
      BY <3>1, FewerDue DEF Fewer
    <3>3. /\ f.msg = lastCall /\ lastCall > 0 /\ Until(outgoing, lastCall)
          /\ \A s \in Due(f) \ {NoSub} : Until(delivered[s], lastCall)
          /\ f.kind = "send" => indices[f.sub] = <<>>
      BY <2>1, <3>2 DEF OrderInv, CallInv
    <3>4. Until(outgoing', lastCall)
      BY <3>3, Nothing DEF Fewest
    <3>5. g.kind = "send" => indices'[g.sub] = <<>>
      BY <1>0, <3>2, <3>3 DEF Fewest
    <3> QED BY <3>2, <3>3, <3>4, <3>5
  <2>2. /\ lastCall' = lastCall /\ delivered' = delivered /\ Apart(stack')
    BY DEF Restacked
  <2> QED BY <2>1, <2>2 DEF CallInv
<1>3. ASSUME NEW s, Reached(s) PROVE Reached(s)'
  <2>1. PICK f \in Frames(stack) : f.kind = "publish" /\ f.used /\ s \notin f.todo
    BY <1>3 DEF Reached
  <2>2. PICK g \in Frames(stack') : Fewer(g, f)
    BY <2>1 DEF Restacked
  <2>3. g.kind = "publish" /\ g.used /\ s \notin g.todo
    BY <2>1, <2>2 DEF Fewer
  <2> QED BY <2>3 DEF Reached
<1>5. BoxInv'
  <2>1. CASE outgoing' = outgoing
    <3>1. ASSUME NEW s \in Subscribers PROVE Waits(s, indices[s])'
      <4>1. Waits(s, indices[s]) /\ Waits(s, <<>>)
        BY Nothing DEF OrderInv, BoxInv
      <4>2. indices'[s] = indices[s] \/ indices'[s] = <<>>
        BY DEF Fewest
      <4>3. CASE indices'[s] = indices[s]
        BY <1>3, <2>1, <4>1, <4>3 DEF Waits
      <4>4. CASE indices'[s] = <<>>
        BY <4>4, Nothing DEF Waits
      <4> QED BY <4>2, <4>3, <4>4
    <3>2. ASSUME NEW g \in Frames(stack'), g.left # <<>> PROVE Waits(g.sub, g.left)'
      <4>1. Waits(g.sub, g.left)
        <5>1. CASE Fresh(g)
          <6>1. g.sub \in Subscribers /\ g.left = indices[g.sub]
            BY <1>0, <3>2, <5>1 DEF Fresh
          <6> QED BY <6>1 DEF OrderInv, BoxInv
        <5>2. CASE \E f \in Frames(stack) : Fewer(g, f)
          BY <3>2, <5>2 DEF OrderInv, BoxInv, Fewer
        <5> QED BY <3>2, <5>1, <5>2 DEF Restacked, Stems, Sends
      <4> QED BY <1>3, <2>1, <4>1 DEF Waits
    <3> QED BY <3>1, <3>2 DEF BoxInv
  <2>2. CASE /\ outgoing' = <<>>
             /\ \A s \in Subscribers : indices'[s] = <<>>
             /\ \A g \in Frames(stack') : g.left = <<>>
    <3>1. ASSUME NEW s \in Subscribers PROVE Waits(s, indices[s])'
      BY <2>2 DEF Waits, Increasing
    <3> QED BY <2>2, <3>1 DEF BoxInv
  <2> QED BY <2>1, <2>2 DEF Fewest
<1>6. MessagesInv'
  BY Nothing DEF OrderInv, MessagesInv, Fewest
<1> QED BY <1>1, <1>2, <1>5, <1>6 DEF OrderInv

\* A stack of old frames, and new ones of no call, none of which has something
\* to write.
Base(base) ==
  /\ base \in Seq(Frame)
  /\ Apart(base)
  /\ \A g \in Frames(base) : g.left = <<>> /\ Stems(g)
  /\ \A f \in Frames(stack) : f.kind = "publish" => \E g \in Frames(base) : Fewer(g, f)

\* A frame that is not touched.
LEMMA FewerSelf == \A f : Fewer(f, f)
  BY DEF Fewer

\* A frame of no call is due to reach nobody.
LEMMA FreshDue ==
  ASSUME NEW g, Fresh(g)
  PROVE  Due(g) = {} /\ g.kind # "publish"
  BY DEF Fresh, Due, OfCall

\* The stack as a base, when nothing is being written.
LEMMA BaseStack ==
  ASSUME TypeOK, OrderInv, stack # <<>> => Head(stack).left = <<>>
  PROVE  Base(stack)
<1>1. stack \in Seq(Frame)
  BY DEF TypeOK
<1>2. ASSUME NEW g \in Frames(stack) PROVE g.left = <<>>
  <2>1. stack # <<>>
    BY <1>1, <1>2, FramesTypes
  <2>2. g \in Frames(Tail(stack)) \/ g = Head(stack)
    BY <1>1, <1>2, <2>1, FramesSplit
  <2> QED BY <2>1, <2>2 DEF OrderInv, LeftInv
<1> QED BY <1>1, <1>2, FewerSelf DEF Base, Stems, OrderInv, CallInv

\* The newest frame is popped.
LEMMA BaseTail ==
  ASSUME TypeOK, OrderInv, stack # <<>>, Head(stack).kind # "publish"
  PROVE  Base(Tail(stack))
<1>1. stack \in Seq(Frame)
  BY DEF TypeOK
<1>2. /\ Frames(stack) = Frames(Tail(stack)) \cup {Head(stack)}
      /\ Tail(stack) \in Seq(Frame)
  BY <1>1, FramesSplit
<1>3. Apart(Tail(stack))
  BY <1>1, ApartSplit DEF OrderInv, CallInv
<1>4. \A g \in Frames(Tail(stack)) : g.left = <<>>
  BY DEF OrderInv, LeftInv
<1> QED BY <1>2, <1>3, <1>4, FewerSelf DEF Base, Stems

\* The newest frame is replaced.
LEMMA BaseTop ==
  ASSUME TypeOK, OrderInv, stack # <<>>, NEW g \in Frame, g.left = <<>>,
         Fewer(g, Head(stack)) \/ (Fresh(g) /\ Head(stack).kind # "publish")
  PROVE  Base(<<g>> \o Tail(stack))
<1>1. stack \in Seq(Frame)
  BY DEF TypeOK
<1> DEFINE r == Tail(stack)
<1>2. /\ Frames(stack) = Frames(r) \cup {Head(stack)}
      /\ r \in Seq(Frame)
  BY <1>1, FramesSplit
<1>3. Apart(r) /\ \A f \in Frames(r) : Due(Head(stack)) \cap Due(f) = {}
  BY <1>1, ApartSplit DEF OrderInv, CallInv
<1>4. \A f \in Frames(r) : f.left = <<>>
  BY DEF OrderInv, LeftInv
<1> HIDE DEF r
<1>5. <<g>> \o r \in Seq(Frame) /\ Frames(<<g>> \o r) = Frames(r) \cup {g}
  BY <1>2, PushElements, FramesPush
<1>6. Due(g) \subseteq Due(Head(stack))
  BY FreshDue, FewerDue
<1>7. Apart(<<g>> \o r)
  BY <1>2, <1>3, <1>6, ApartPush
<1>8. \A h \in Frames(<<g>> \o r) : h.left = <<>> /\ Stems(h)
  BY <1>2, <1>4, <1>5, FewerSelf DEF Stems
<1>9. \A f \in Frames(stack) : f.kind = "publish" => \E h \in Frames(<<g>> \o r) : Fewer(h, f)
  BY <1>2, <1>5, FewerSelf
<1> QED BY <1>5, <1>7, <1>8, <1>9 DEF Base, r

\* A frame of no call is pushed.
LEMMA BasePush ==
  ASSUME NEW base, Base(base), NEW h \in Frame, Fresh(h)
  PROVE  /\ stack' = <<h>> \o base => Restacked /\ stack' \in Seq(Frame)
         /\ h.left = <<>> => Base(<<h>> \o base)
<1>1. base \in Seq(Frame)
  BY DEF Base
<1> DEFINE up == <<h>> \o base
<1>2. /\ up \in Seq(Frame) /\ up # <<>> /\ Tail(up) = base
      /\ Frames(up) = Frames(base) \cup {h}
  BY <1>1, PushElements, FramesPush
<1>3. Apart(up)
  BY <1>1, FreshDue, ApartPush DEF Base
<1> HIDE DEF up
<1>4. /\ \A g \in Frames(up) : Stems(g)
      /\ \A f \in Frames(stack) : f.kind = "publish" => \E g \in Frames(up) : Fewer(g, f)
      /\ \A g \in Frames(Tail(up)) : g.left = <<>>
  BY <1>2 DEF Base, Stems
<1>5. stack' = up => Restacked /\ stack' \in Seq(Frame)
  BY <1>2, <1>3, <1>4 DEF Restacked
<1>6. h.left = <<>> => Base(up)
  BY <1>2, <1>3, <1>4 DEF Base
<1> QED BY <1>5, <1>6 DEF up

\* A send is pushed.
LEMMA BaseSend ==
  ASSUME NEW base, Base(base), NEW c \in Frame, Sends(c), \A g \in Frames(base) : c.sub \notin Due(g)
  PROVE  Base(<<c>> \o base)
<1>1. base \in Seq(Frame) /\ Due(c) = {c.sub}
  BY DEF Base, Sends, Due
<1>2. /\ <<c>> \o base \in Seq(Frame)
      /\ Frames(<<c>> \o base) = Frames(base) \cup {c}
      /\ Apart(<<c>> \o base)
  BY <1>1, PushElements, FramesPush, ApartPush DEF Base
<1> QED BY <1>2 DEF Base, Stems, Sends

\* The next stack is a base.
LEMMA BaseSame ==
  ASSUME NEW base, Base(base), stack' = base
  PROVE  Restacked /\ stack' \in Seq(Frame)
<1>1. base \in Seq(Frame)
  BY DEF Base
<1>2. base # <<>> => \A g \in Frames(Tail(base)) : g.left = <<>>
  BY <1>1, FramesSplit DEF Base
<1> QED BY <1>1, <1>2 DEF Base, Restacked

\* A stack that is not touched.
LEMMA SameStack ==
  ASSUME TypeOK, OrderInv, UNCHANGED stack
  PROVE  Restacked /\ stack' \in Seq(Frame)
  BY FewerSelf DEF OrderInv, CallInv, LeftInv, Restacked, Stems, TypeOK

\* The invariants, for an application that sends from event handlers only, while
\* the queue fits its indices.
Ready ==
  /\ IInv /\ PointerInv /\ OrderInv
  /\ QueueFits
  /\ "publish" \notin handlerCalls /\ "send" \notin handlerCalls

\* The invariants one by one.
LEMMA ReadyParts ==
  ASSUME Ready
  PROVE  /\ TypeOK /\ OrderInv /\ LeftInv /\ CallInv /\ BoxInv /\ MessagesInv
         /\ Grounded(stack) /\ ListInv /\ FreedInv /\ VisitInv /\ CallsInv
         /\ stack \in Seq(Frame) /\ Frames(stack) \subseteq Frame
  BY FramesTypes DEF Ready, IInv, PointerInv, OrderInv, TypeOK

\* Only drains have something to write.
LEMMA NothingLeft ==
  ASSUME Ready, stack # <<>>, Head(stack).kind \notin {"drain", "drainAll"}
  PROVE  Head(stack).left = <<>>
<1>1. Head(stack) \in Frames(stack)
  BY ReadyParts, FramesSplit
<1> QED BY <1>1, ReadyParts DEF LeftInv

\* Frames of no call.
LEMMA FreshFrames ==
  ASSUME TypeOK
  PROVE  /\ \A s \in Subscribers : Fresh(DroppedFrame(s)) /\ DroppedFrame(s).left = <<>>
         /\ \A s \in Subscribers : indices'[s] = <<>> => Fresh(DrainFrame(s))
         /\ Fresh(DrainAllFrame) /\ DrainAllFrame.left = <<>>
         /\ Fresh(ApplyFrame) /\ ApplyFrame.left = <<>>
<1>1. \A k \in {"dropped", "drain", "drainAll", "apply"} : Blank(k).kind = k /\ Blank(k).left = <<>>
  BY DEF Blank
<1> QED BY <1>1 DEF Fresh, OfCall, DroppedFrame, DrainFrame, DrainAllFrame, ApplyFrame, Blank

\* Leaving a draining section that is not of a publish.
LEMMA LeaveRestacked ==
  ASSUME Ready, stack # <<>>, Head(stack).kind # "publish", LeaveDraining(Tail(stack))
  PROVE  Restacked /\ stack' \in Seq(Frame) /\ (\A g \in Frames(stack') : g.left = <<>>)
<1>1. Base(Tail(stack))
  BY ReadyParts, BaseTail
<1>2. ApplyFrame \in Frame /\ Fresh(ApplyFrame) /\ ApplyFrame.left = <<>>
  BY ReadyParts, NewFrames, FreshFrames
<1>3. CASE stack' = Tail(stack)
  BY <1>1, <1>3, BaseSame DEF Base
<1>4. CASE stack' = <<ApplyFrame>> \o Tail(stack)
  <2>1. Restacked /\ stack' \in Seq(Frame) /\ Base(<<ApplyFrame>> \o Tail(stack))
    BY <1>1, <1>2, <1>4, BasePush
  <2> QED BY <1>4, <2>1 DEF Base
<1> QED BY <1>3, <1>4 DEF LeaveDraining

\* Beginning to drain one subscriber.
LEMMA DrainRestacked ==
  ASSUME Ready, NEW s \in Subscribers, NEW rest, Base(rest), BeginDrain(s, rest)
  PROVE  /\ Restacked /\ stack' \in Seq(Frame)
         /\ indices' = [indices EXCEPT ![s] = <<>>]
<1>1. indices' = [indices EXCEPT ![s] = <<>>] /\ stack' = <<DrainFrame(s)>> \o rest
  BY DEF BeginDrain
<1>2. indices'[s] = <<>>
  BY <1>1, ReadyParts DEF TypeOK
<1>3. DrainFrame(s) \in Frame /\ Fresh(DrainFrame(s))
  BY <1>2, ReadyParts, NewFrames, FreshFrames
<1> QED BY <1>1, <1>3, BasePush

\* Nobody waits while the list is empty.
LEMMA NobodyWaits ==
  ASSUME NEW C, NEW A, NEW N, NEW nx, NEW pv, Linked(C, A, N, nx, pv, NoSub)
  PROVE  N = {}
  BY TopicTreeAssumption DEF Linked, Ordered, From

\* The queue is cleared when nobody waits any more.
LEMMA ClearedFewest ==
  ASSUME Ready, ListInv', TypeOK', outgoing' = ClearIfUnused(drainable'),
         \A s \in Subscribers : indices'[s] \in {indices[s], <<>>},
         \A g \in Frames(stack') : g.left = <<>>
  PROVE  Fewest
<1>1. CASE drainable' = NoSub
  <2>1. Linked(Cursors(stack)', Allocated', Waiting', next', prev', NoSub)
    BY <1>1 DEF ListInv
  <2>2. Waiting' = {}
    BY <2>1, NobodyWaits
  <2> QED BY <1>1, <2>2 DEF Fewest, Waiting, NeedsDrainage, ClearIfUnused
<1>2. CASE drainable' # NoSub
  BY <1>2 DEF Fewest, ClearIfUnused
<1> QED BY <1>1, <1>2

\* What a free of s does to the indices.
LEMMA FreeEmpties ==
  ASSUME TypeOK, NEW s \in Subscribers, FreeSubscriber(s)
  PROVE  /\ indices' = [indices EXCEPT ![s] = <<>>]
         /\ indices'[s] = <<>>
         /\ \A x \in Subscribers : indices'[x] \in {indices[x], <<>>}
  BY DEF FreeSubscriber, TypeOK

\* Subscriptions, closes and the loop.
LEMMA QuietOutside ==
  ASSUME Ready,
         \/ \E s \in Subscribers, t \in Topics : (Subscribe(s, t) /\ Live(s)) \/ Unsubscribe(s, t)
         \/ \E s \in Subscribers : Close(s) \/ Writable(s)
         \/ FreePending \/ UNCHANGED vars
  PROVE  Restacked /\ Fewest /\ UNCHANGED <<stack, outgoing, delivered, lastCall>>
<1>0. UNCHANGED <<stack, outgoing, delivered, lastCall>>
  BY DEF Subscribe, Unsubscribe, Close, Writable, FreePending, sockets, vars
<1>1. Restacked
  BY <1>0, ReadyParts, SameStack
<1>2. \A x \in Subscribers : indices'[x] \in {indices[x], <<>>}
  <2>1. CASE \E s \in Subscribers : Close(s)
    BY <2>1, ReadyParts, FreeEmpties DEF Close
  <2>2. CASE UNCHANGED indices
    BY <2>2
  <2> QED BY <2>1, <2>2 DEF Subscribe, Unsubscribe, Close, Writable, FreePending, listVars, vars
<1> QED BY <1>0, <1>1, <1>2 DEF Fewest

\* Frames that come and go without a call.
LEMMA QuietFrames ==
  ASSUME Ready, LoopDrain \/ HandlerReturn \/ FinishApply \/ FinishPublishBig
  PROVE  /\ Restacked /\ Fewest /\ stack' \in Seq(Frame)
         /\ UNCHANGED <<indices, outgoing, delivered, lastCall>>
         /\ \A g \in Frames(stack') : g.left = <<>>
<1>0. UNCHANGED <<indices, outgoing, delivered, lastCall>>
  BY DEF LoopDrain, HandlerReturn, FinishApply, FinishPublishBig, listVars, sockets
<1>1. Fewest
  BY <1>0 DEF Fewest
<1>2. CASE LoopDrain
  <2>1. stack = <<>> /\ stack' = <<DrainAllFrame>> \o stack
    BY <1>2 DEF LoopDrain, Idle, Push
  <2>2. Base(stack)
    BY <2>1, ReadyParts, BaseStack
  <2>3. DrainAllFrame \in Frame /\ Fresh(DrainAllFrame) /\ DrainAllFrame.left = <<>>
    BY ReadyParts, NewFrames, FreshFrames
  <2>4. Base(stack')
    BY <2>1, <2>2, <2>3, BasePush
  <2> QED BY <1>0, <1>1, <2>4, BaseSame DEF Base
<1>3. CASE HandlerReturn \/ FinishApply
  <2>1. stack # <<>> /\ Head(stack).kind # "publish" /\ stack' = Tail(stack)
    BY <1>3 DEF HandlerReturn, FinishApply, Running, Below
  <2>2. Base(stack')
    BY <2>1, ReadyParts, BaseTail
  <2> QED BY <1>0, <1>1, <2>2, BaseSame DEF Base
<1>4. CASE FinishPublishBig
  <2>1. stack # <<>> /\ Head(stack).kind # "publish" /\ LeaveDraining(Tail(stack))
    BY <1>4 DEF FinishPublishBig, Running, Below
  <2> QED BY <1>0, <1>1, <2>1, LeaveRestacked
<1> QED BY <1>2, <1>3, <1>4

\* The end of a drain.
LEMMA QuietDrains ==
  ASSUME Ready, ListInv', TypeOK', FinishDrain \/ FinishDrainAll
  PROVE  /\ Restacked /\ Fewest /\ stack' \in Seq(Frame) /\ UNCHANGED <<indices, delivered, lastCall>>
         /\ \A g \in Frames(stack') : g.left = <<>>
<1>1. /\ stack # <<>> /\ Head(stack).kind # "publish" /\ LeaveDraining(Tail(stack))
      /\ UNCHANGED <<indices, delivered, lastCall>>
  BY DEF FinishDrain, FinishDrainAll, Running, Below, listVars, sockets
<1>2. Restacked /\ stack' \in Seq(Frame) /\ \A g \in Frames(stack') : g.left = <<>>
  BY <1>1, LeaveRestacked
<1>3. outgoing' = ClearIfUnused(drainable')
  BY DEF FinishDrain, FinishDrainAll, ClearIfUnused, listVars
<1>4. Fewest
  BY <1>1, <1>2, <1>3, ClearedFewest
<1> QED BY <1>1, <1>2, <1>4

\* The walk over the list takes the indices of the next subscriber.
LEMMA QuietWalk ==
  ASSUME Ready, DrainNext
  PROVE  /\ Restacked /\ Fewest /\ stack' \in Seq(Frame) /\ UNCHANGED <<outgoing, delivered, lastCall>>
         /\ LET s == Head(stack).cur
            IN  /\ s \in Subscribers
                /\ stack' # <<>>
                /\ Head(stack').sub = s /\ Head(stack').left = indices[s]
                /\ indices' = [indices EXCEPT ![s] = <<>>]
<1> DEFINE f == Head(stack)
           s == f.cur
           l == IF WasFreed(s) THEN <<>> ELSE indices[s]
           g == [f EXCEPT !.cur = next[s], !.sub = s, !.left = l]
<1>1. /\ stack # <<>> /\ f.kind = "drainAll" /\ s # NoSub
      /\ stack' = <<g>> \o Tail(stack)
      /\ indices' = IF WasFreed(s) THEN indices ELSE [indices EXCEPT ![s] = <<>>]
      /\ UNCHANGED <<outgoing, delivered, lastCall>>
  BY DEF DrainNext, Running, Top, Below, sockets
<1>2. f \in Frame /\ f \in FrameRecord
  BY <1>1, ReadyParts, HeadFrame
<1>3. s \in Subscribers /\ next[s] \in Subscribers \cup {NoSub} /\ indices \in [Subscribers -> Seq(0 .. MaxOutgoing)]
  BY <1>1, <1>2, ReadyParts DEF FrameRecord, TypeOK
<1>4. l = indices[s] /\ indices' = [indices EXCEPT ![s] = <<>>] /\ l \in Seq(Nat)
  <2>1. indices[s] \in Seq(Nat)
    BY <1>3, ReadyParts, IndexList
  <2>2. CASE WasFreed(s)
    <3>1. indices[s] = <<>>
      BY <1>3, <2>2, ReadyParts DEF FreedInv, WasFreed
    <3> QED BY <1>1, <1>3, <2>1, <2>2, <3>1
  <2>3. CASE ~WasFreed(s)
    BY <1>1, <2>1, <2>3
  <2> QED BY <2>2, <2>3
<1>5. g \in Frame /\ g.kind = "drainAll" /\ g.sub = s /\ g.left = l
  <2>1. f \in Frame /\ f.kind = "drainAll"
    BY <1>1, <1>2
  <2>2. s \in Subscribers
    BY <1>3
  <2>3. next[s] \in Subscribers \cup {NoSub}
    BY <1>3
  <2>4. l \in Seq(Nat)
    BY <1>4
  <2>5. f \in FrameRecord
    BY <1>2
  <2> DEFINE c == next[s]
  <2>6. c \in Subscribers \cup {NoSub}
    BY <2>3
  <2> HIDE DEF f, s, l, c
  <2> DEFINE h == [f EXCEPT !.cur = c, !.sub = s, !.left = l]
  <2>7. h \in Frame /\ h.kind = "drainAll"
    BY <2>1, <2>2, <2>4, <2>6 DEF Frame, FrameRecord, Handles, Walks, Drains
  <2>8. h.sub = s /\ h.left = l
    BY <2>5 DEF FrameRecord
  <2>9. g = h
    BY DEF c
  <2> HIDE DEF h, g
  <2> QED BY <2>7, <2>8, <2>9
<1>6. indices'[s] = <<>> /\ \A x \in Subscribers : indices'[x] \in {indices[x], <<>>}
  BY <1>3, <1>4
<1>7. Base(Tail(stack))
  BY <1>1, ReadyParts, BaseTail
<1>8. /\ g \in Frame /\ Fresh(g) /\ stack' = <<g>> \o Tail(stack) /\ g.sub = s /\ g.left = indices[s]
      /\ s \in Subscribers
  BY <1>1, <1>3, <1>4, <1>5, <1>6 DEF Fresh, OfCall
<1> HIDE DEF g, l, s
<1>9. Restacked /\ stack' \in Seq(Frame)
  BY <1>7, <1>8, BasePush
<1>10. stack' # <<>> /\ Head(stack') = g
  BY <1>7, <1>8, PushElements DEF Base
<1>11. Fewest
  BY <1>1, <1>6 DEF Fewest
<1> QED BY <1>1, <1>4, <1>8, <1>9, <1>10, <1>11 DEF s

\* The newest frame rewritten.
LEMMA TopFields ==
  ASSUME Ready, stack # <<>>
  PROVE  LET f == Head(stack)
         IN  /\ \A M : LET g == [f EXCEPT !.todo = f.todo \ M] IN
                  Fewer(g, f) /\ g.left = f.left /\ g.kind = f.kind /\ g.todo = f.todo \ M
             /\ \A M : LET g == [f EXCEPT !.todo = f.todo \ M, !.cur = NoSub] IN
                  Fewer(g, f) /\ g.left = f.left /\ g.kind = f.kind /\ g.todo = f.todo \ M
             /\ \A s : LET g == [f EXCEPT !.cur = s] IN
                  Fewer(g, f) /\ g.left = f.left /\ g.kind = f.kind
             /\ \A o : LET g == [f EXCEPT !.op = o] IN
                  Fewer(g, f) /\ g.left = f.left /\ g.kind = f.kind
             /\ \A l : LET g == [f EXCEPT !.left = l] IN
                  g.left = l /\ g.kind = f.kind /\ g.sub = f.sub
<1>1. Head(stack) \in FrameRecord
  BY ReadyParts, HeadFrame
<1> QED BY <1>1 DEF Fewer, FrameRecord

\* applyPending takes the next call.
LEMMA QuietApply ==
  ASSUME Ready, ApplyOp
  PROVE  /\ Restacked /\ Fewest /\ stack' \in Seq(Frame)
         /\ UNCHANGED <<indices, outgoing, delivered, lastCall>>
         /\ \A g \in Frames(stack') : g.left = <<>>
<1> DEFINE f == Head(stack)
           g == [f EXCEPT !.op = f.op + 1]
<1>1. stack # <<>> /\ f.kind = "apply" /\ f.op <= Len(pendingOps)
      /\ UNCHANGED <<indices, outgoing, delivered, lastCall>>
  BY DEF ApplyOp, Running, listVars, sockets
<1>2. f.op \in 1 .. Len(pendingOps)
  BY <1>1, ReadyParts, OpAtFrame
<1>3. pendingOps[f.op].kind # "publish"
  BY <1>2, ReadyParts DEF Ready, CallsInv
<1>4. stack' = <<g>> \o Tail(stack)
  BY <1>3 DEF ApplyOp, Top, Below
<1>5. f \in Frame /\ f.left = <<>>
  BY <1>1, ReadyParts, HeadFrame, NothingLeft
<1>6. Fewer(g, f) /\ g.left = <<>>
  BY <1>1, <1>5, TopFields
<1>7. g \in Frame
  BY <1>1, <1>5, ReadyParts, DrainFrames
<1>8. Base(<<g>> \o Tail(stack))
  <2> HIDE DEF g
  <2> QED BY <1>1, <1>6, <1>7, ReadyParts, BaseTop
<1>9. Restacked /\ stack' \in Seq(Frame) /\ \A h \in Frames(stack') : h.left = <<>>
  <2> HIDE DEF g
  <2> QED BY <1>4, <1>8, BaseSame DEF Base
<1> QED BY <1>1, <1>9 DEF Fewest

\* What is left of a walk over a topic.
LEMMA VisitBase ==
  ASSUME Ready, stack # <<>>, Head(stack).kind \in Walks, NEW s \in Subscribers
  PROVE  /\ Base(<<[Head(stack) EXCEPT !.todo = Head(stack).todo \ {s}]>> \o Tail(stack))
         /\ Base(<<[Head(stack) EXCEPT !.todo = Head(stack).todo \ {s}, !.cur = NoSub]>> \o Tail(stack))
         /\ Base(<<[Head(stack) EXCEPT !.cur = s]>> \o Tail(stack))
<1> DEFINE f == Head(stack)
           g1 == [f EXCEPT !.todo = f.todo \ {s}]
           g2 == [f EXCEPT !.todo = f.todo \ {s}, !.cur = NoSub]
           g3 == [f EXCEPT !.cur = s]
<1>1. f \in Frame /\ f.left = <<>> /\ f.todo \in SUBSET Subscribers
  BY ReadyParts, HeadFrame, NothingLeft DEF Walks, FrameRecord
<1>2. g1 \in Frame /\ g2 \in Frame /\ g3 \in Frame
  BY <1>1 DEF Frame, FrameRecord, Handles, Walks, Drains
<1>3. Fewer(g1, f) /\ Fewer(g2, f) /\ Fewer(g3, f) /\ g1.left = <<>> /\ g2.left = <<>> /\ g3.left = <<>>
  BY <1>1, TopFields
<1> HIDE DEF g1, g2, g3
<1>4. Base(<<g1>> \o Tail(stack)) /\ Base(<<g2>> \o Tail(stack)) /\ Base(<<g3>> \o Tail(stack))
  BY <1>2, <1>3, ReadyParts, BaseTop
<1> QED BY <1>4 DEF g1, g2, g3

\* A publish skips a member, or drains it before it gives it one more index.
LEMMA QuietVisit ==
  ASSUME Ready, PublishVisit
  PROVE  \E s \in Subscribers :
           \/ /\ Restacked /\ Fewest /\ stack' \in Seq(Frame)
              /\ UNCHANGED <<outgoing, delivered, lastCall>>
              /\ \/ UNCHANGED indices /\ \A g \in Frames(stack') : g.left = <<>>
                 \/ /\ \E rest : Base(rest) /\ BeginDrain(s, rest)
                    /\ indices' = [indices EXCEPT ![s] = <<>>]
           \/ s \in Head(stack).todo /\ Reference(Head(stack), s)
<1> DEFINE f == Head(stack)
<1>1. /\ stack # <<>> /\ f.kind = "publish" /\ f.kind \in Walks
      /\ UNCHANGED <<outgoing, delivered, lastCall>>
  BY DEF PublishVisit, Running, Walks, sockets
<1>2. PICK s \in f.todo :
        \/ stack' = Top([f EXCEPT !.todo = f.todo \ {s}, !.cur = NoSub]) /\ UNCHANGED listVars
        \/ BeginDrain(s, Top([f EXCEPT !.cur = s]))
        \/ Reference(f, s)
  BY DEF PublishVisit
<1>3. s \in Subscribers
  BY <1>1, <1>2, ReadyParts, HeadFrame DEF FrameRecord
<1>4. CASE stack' = Top([f EXCEPT !.todo = f.todo \ {s}, !.cur = NoSub]) /\ UNCHANGED listVars
  <2>1. Base(stack')
    BY <1>1, <1>3, <1>4, VisitBase DEF Top, Below
  <2>2. Restacked /\ stack' \in Seq(Frame) /\ \A g \in Frames(stack') : g.left = <<>>
    BY <2>1, BaseSame DEF Base
  <2>3. UNCHANGED indices /\ Fewest
    BY <1>1, <1>4 DEF listVars, Fewest
  <2> QED BY <1>1, <1>3, <2>2, <2>3
<1>5. CASE BeginDrain(s, Top([f EXCEPT !.cur = s]))
  <2>1. PICK rest : Base(rest) /\ BeginDrain(s, rest)
    BY <1>1, <1>3, <1>5, VisitBase DEF Top, Below
  <2>2. Restacked /\ stack' \in Seq(Frame) /\ indices' = [indices EXCEPT ![s] = <<>>]
    BY <1>3, <2>1, DrainRestacked
  <2>3. Fewest
    BY <1>1, <1>3, <2>2, ReadyParts DEF Fewest, TypeOK
  <2> QED BY <1>1, <1>3, <2>1, <2>2, <2>3
<1> QED BY <1>2, <1>3, <1>4, <1>5

-----------------------------------------------------------------------------
(* Calls that begin.                                                       *)

\* What is older than m is older than n.
LEMMA UntilMore ==
  ASSUME NEW q \in Seq(0 .. MaxCalls), NEW m \in Int, NEW n \in Int, m <= n, Until(q, m)
  PROVE  Until(q, n)
<1>1. \A i \in 1 .. Len(q) : q[i] \in Int
  BY TopicTreeAssumption
<1> QED BY <1>1 DEF Until

\* A call begins with a frame c of its own, maybe with a drain h before it; a send
\* may also begin with the dropped handler.
LEMMA CallBegins ==
  ASSUME Ready, stack = <<>>, lastCall' = lastCall + 1, UNCHANGED <<outgoing, delivered>>,
         \A s \in Subscribers : indices'[s] \in {indices[s], <<>>},
         NEW c \in Frame, c.kind # "publish", c.kind \in OfCall => c.msg = lastCall + 1, c.left = <<>>,
         c.kind = "send" => indices'[c.sub] = <<>>,
         NEW h \in Frame, Fresh(h),
         stack' \in {<<c>> \o stack, <<h>> \o (<<c>> \o stack)}
  PROVE  OrderInv' /\ stack' \in Seq(Frame)
<1>0. /\ lastCall \in Nat /\ Frames(stack) = {} /\ stack \in Seq(Frame) /\ Apart(stack)
      /\ outgoing \in Seq(0 .. MaxCalls) /\ delivered \in [Subscribers -> Seq(0 .. MaxCalls)]
  <2>1. TypeOK /\ Apart(stack) /\ stack \in Seq(Frame)
    BY ReadyParts DEF CallInv
  <2>2. Frames(stack) = {}
    BY <2>1, FramesTypes
  <2>3. /\ lastCall \in Nat
        /\ outgoing \in Seq(0 .. MaxCalls) /\ delivered \in [Subscribers -> Seq(0 .. MaxCalls)]
    BY <2>1, TopicTreeAssumption DEF TypeOK
  <2> QED BY <2>1, <2>2, <2>3
<1> DEFINE r == <<c>> \o stack
           up == <<h>> \o r
<1>1. r \in Seq(Frame) /\ Frames(r) = {c} /\ r # <<>> /\ Tail(r) = stack /\ Apart(r)
  <2>1. r \in Seq(Frame) /\ r # <<>> /\ Tail(r) = stack
    BY <1>0, PushElements
  <2>2. Frames(r) = Frames(stack) \cup {c}
    BY <1>0, FramesPush
  <2>3. Apart(r) <=> Apart(stack) /\ \A g \in Frames(stack) : Due(c) \cap Due(g) = {}
    BY <1>0, ApartPush
  <2> QED BY <1>0, <2>1, <2>2, <2>3
<1> HIDE DEF r
<1>2. up \in Seq(Frame) /\ Frames(up) = {c, h} /\ up # <<>> /\ Tail(up) = r
  BY <1>1, PushElements, FramesPush
<1>3. Apart(up)
  BY <1>1, FreshDue, ApartPush
<1> HIDE DEF up
<1>4. /\ stack' \in Seq(Frame) /\ c \in Frames(stack') /\ Frames(stack') \subseteq {c, h}
      /\ Apart(stack') /\ \A g \in Frames(Tail(stack')) : g.left = <<>>
  BY <1>0, <1>1, <1>2, <1>3 DEF r, up
<1>5. LeftInv'
  BY <1>4 DEF LeftInv, Fresh
<1>6. CallInv'
  <2>1. Until(outgoing, lastCall') /\ \A s \in Subscribers : Until(delivered[s], lastCall')
    BY ReadyParts DEF MessagesInv
  <2>2. Due(c) \subseteq Subscribers \cup {NoSub}
    BY DEF Due, Frame, FrameRecord, Handles
  <2>3. h.kind \notin OfCall
    BY DEF Fresh
  <2>4. lastCall' > 0
    BY <1>0
  <2> QED BY <1>4, <2>1, <2>2, <2>3, <2>4 DEF CallInv
<1>7. ASSUME NEW s \in Subscribers
      PROVE  /\ Increasing(indices[s])
             /\ \A k \in 1 .. Len(indices[s]) :
                  indices[s][k] < Len(outgoing) /\ Until(delivered[s], outgoing[indices[s][k] + 1])
  <2>1. ~Reached(s) /\ Waits(s, indices[s])
    BY <1>0, ReadyParts DEF Reached, BoxInv
  <2> QED BY <2>1 DEF Waits
<1>8. BoxInv'
  <2>1. ASSUME NEW s \in Subscribers PROVE Waits(s, indices[s])'
    <3>1. CASE indices'[s] = indices[s]
      BY <1>7, <3>1 DEF Waits
    <3>2. CASE indices'[s] = <<>>
      BY <3>2, Nothing DEF Waits
    <3> QED BY <3>1, <3>2
  <2>2. ASSUME NEW f \in Frames(stack'), f.left # <<>> PROVE Waits(f.sub, f.left)'
    <3>1. f = h /\ h.sub \in Subscribers /\ h.left = indices[h.sub]
      BY <1>4, <2>2 DEF Fresh, Frame
    <3> QED BY <1>7, <3>1 DEF Waits
  <2> QED BY <2>1, <2>2 DEF BoxInv
<1>9. MessagesInv'
  <2>1. \A q \in Seq(0 .. MaxCalls) : Until(q, lastCall + 1) => Until(q, lastCall + 1 + 1)
    BY <1>0, UntilMore
  <2> QED BY <1>0, <2>1, ReadyParts DEF MessagesInv
<1> QED BY <1>4, <1>5, <1>6, <1>8, <1>9 DEF OrderInv

\* publish, send and a big publish begin on an empty stack.
LEMMA PublishBegins ==
  ASSUME Ready, NEW s \in Subscribers \cup {NoSub}, NEW t \in Topics, Publish(s, t) \/ PublishBig(s, t)
  PROVE  OrderInv' /\ stack' \in Seq(Frame)
<1> DEFINE m == lastCall + 1
           c == PublishFrame("publishStart", s, t, m)
           b == [PublishFrame("publishBig", s, t, m) EXCEPT !.todo = members[t]]
           h == DrainAllFrame
<1>1. stack = <<>> /\ m \in 0 .. MaxCalls /\ lastCall' = m /\ UNCHANGED <<indices, outgoing, delivered>>
  BY ReadyParts, TopicTreeAssumption DEF Ready, Publish, PublishBig, MayCall, Idle, TypeOK, listVars
<1>2. drainingDepth = 0
  BY <1>1, SoundTypes DEF Ready, IInv, StackInv
<1>3. h \in Frame /\ Fresh(h)
  BY ReadyParts, NewFrames, FreshFrames
<1>4. c \in Frame /\ c.kind = "publishStart" /\ c.msg = m /\ c.left = <<>>
  BY <1>1, PublishFrames DEF Walks, PublishFrame, Blank
<1>5. b \in Frame /\ b.kind = "publishBig" /\ b.msg = m /\ b.left = <<>>
  <2>1. members[t] \in SUBSET Subscribers
    BY ReadyParts DEF TypeOK
  <2>2. PublishFrame("publishBig", s, t, m) \in Frame
    BY <1>1, PublishFrames DEF Walks
  <2>3. PublishFrame("publishBig", s, t, m).kind = "publishBig"
        /\ PublishFrame("publishBig", s, t, m).msg = m /\ PublishFrame("publishBig", s, t, m).left = <<>>
    BY DEF PublishFrame, Blank
  <2> DEFINE p == PublishFrame("publishBig", s, t, m)
  <2> HIDE DEF p
  <2> QED BY <2>1, <2>2, <2>3 DEF Frame, FrameRecord, Handles, Walks, Drains, p
<1>6. CASE Publish(s, t)
  <2>1. stack' = <<c>> \o stack \/ stack' = <<h>> \o (<<c>> \o stack)
    BY <1>2, <1>6 DEF Publish, BeginPublish
  <2> HIDE DEF c, h
  <2> QED BY <1>1, <1>3, <1>4, <2>1, CallBegins DEF OfCall
<1>7. CASE PublishBig(s, t)
  <2>1. stack' = <<b>> \o stack
    BY <1>7 DEF PublishBig, Push
  <2> HIDE DEF b, h
  <2> QED BY <1>1, <1>3, <1>5, <2>1, CallBegins DEF OfCall
<1> QED BY <1>6, <1>7

\* A direct send begins, maybe with a drain.
LEMMA SendBegins ==
  ASSUME Ready, NEW s \in Subscribers, Send(s)
  PROVE  OrderInv' /\ stack' \in Seq(Frame)
<1> DEFINE m == lastCall + 1
           c == SendFrame(s, m)
           d == DroppedFrame(s)
           h == DrainFrame(s)
<1>1. stack = <<>> /\ m \in 0 .. MaxCalls /\ lastCall' = m /\ UNCHANGED <<outgoing, delivered>>
  BY ReadyParts, TopicTreeAssumption DEF Ready, Send, MayCall, Idle, TypeOK
<1>2. /\ c \in Frame /\ c.kind = "send" /\ c.msg = m /\ c.left = <<>> /\ c.sub = s
      /\ d \in Frame /\ d.kind = "dropped" /\ Fresh(d) /\ d.left = <<>> /\ h \in Frame
  BY <1>1, ReadyParts, NewFrames, FreshFrames DEF SendFrame, Blank
<1>3. indices \in [Subscribers -> Seq(0 .. MaxOutgoing)]
  BY ReadyParts DEF TypeOK
<1>4. CASE stack' = <<d>> \o stack /\ UNCHANGED indices
  <2> HIDE DEF d
  <2> QED BY <1>1, <1>2, <1>4, CallBegins DEF OfCall
<1>5. CASE ~Behind(s) /\ stack' = <<c>> \o stack /\ UNCHANGED indices
  <2>1. indices'[s] = <<>>
    BY <1>5 DEF Behind, NeedsDrainage
  <2> HIDE DEF c, d
  <2> QED BY <1>1, <1>2, <1>5, <2>1, CallBegins DEF OfCall
<1>6. CASE BeginDrain(s, <<c>> \o stack)
  <2>1. stack' = <<h>> \o (<<c>> \o stack) /\ indices' = [indices EXCEPT ![s] = <<>>]
    BY <1>6 DEF BeginDrain
  <2>2. indices'[s] = <<>> /\ \A x \in Subscribers : indices'[x] \in {indices[x], <<>>}
    BY <1>3, <2>1
  <2>3. Fresh(h)
    BY <2>2, ReadyParts, FreshFrames
  <2> HIDE DEF c, d, h
  <2> QED BY <1>1, <1>2, <2>1, <2>2, <2>3, CallBegins DEF OfCall
<1>7. \/ stack' = <<d>> \o stack /\ UNCHANGED indices
      \/ ~Behind(s) /\ stack' = <<c>> \o stack /\ UNCHANGED indices
      \/ BeginDrain(s, <<c>> \o stack)
  BY DEF Send, BeginSend, listVars
<1> QED BY <1>4, <1>5, <1>6, <1>7

-----------------------------------------------------------------------------
(* Messages that are written.                                              *)

\* Messages of q, then newer ones of p.
LEMMA Appended ==
  ASSUME NEW q \in Seq(0 .. MaxCalls), NEW p \in Seq(0 .. MaxCalls), NEW n \in Int,
         Increasing(q), Increasing(p), Until(q, n), Until(p, n),
         \A j \in 1 .. Len(p) : Until(q, p[j])
  PROVE  Increasing(q \o p) /\ Until(q \o p, n)
<1> DEFINE w == q \o p
<1>1. /\ Len(q) \in Nat /\ Len(p) \in Nat /\ Len(w) = Len(q) + Len(p)
      /\ \A i \in 1 .. Len(q) : w[i] = q[i] /\ q[i] \in Int
      /\ \A i \in 1 .. Len(p) : w[Len(q) + i] = p[i] /\ p[i] \in Int
  BY TopicTreeAssumption
<1>2. ASSUME NEW i \in 1 .. Len(w)
      PROVE  \/ i \in 1 .. Len(q) /\ w[i] = q[i]
             \/ i > Len(q) /\ i - Len(q) \in 1 .. Len(p) /\ w[i] = p[i - Len(q)]
  <2>1. CASE i <= Len(q)
    BY <1>1, <2>1
  <2>2. CASE i > Len(q)
    <3>1. i - Len(q) \in 1 .. Len(p) /\ Len(q) + (i - Len(q)) = i
      BY <1>1, <2>2
    <3> QED BY <1>1, <2>2, <3>1
  <2> QED BY <1>1, <2>1, <2>2
<1> HIDE DEF w
<1>3. ASSUME NEW i \in 1 .. Len(w), NEW j \in 1 .. Len(w), i < j PROVE w[i] < w[j]
  <2>1. CASE i > Len(q)
    <3>1. j - Len(q) \in 1 .. Len(p) /\ w[j] = p[j - Len(q)]
      BY <1>1, <1>2, <1>3, <2>1
    <3>2. i - Len(q) \in 1 .. Len(p) /\ w[i] = p[i - Len(q)] /\ i - Len(q) < j - Len(q)
      BY <1>1, <1>2, <1>3, <2>1
    <3> QED BY <3>1, <3>2 DEF Increasing
  <2>2. CASE i <= Len(q) /\ j <= Len(q)
    BY <1>1, <1>2, <1>3, <2>2 DEF Increasing
  <2>3. CASE i <= Len(q) /\ j > Len(q)
    <3>1. j - Len(q) \in 1 .. Len(p) /\ w[j] = p[j - Len(q)]
      BY <1>1, <1>2, <2>3
    <3>2. i \in 1 .. Len(q) /\ w[i] = q[i]
      BY <1>1, <1>2, <2>3
    <3>3. Until(q, p[j - Len(q)])
      BY <3>1
    <3> QED BY <3>1, <3>2, <3>3 DEF Until
  <2> QED BY <1>1, <2>1, <2>2, <2>3
<1>4. ASSUME NEW i \in 1 .. Len(w) PROVE w[i] < n
  BY <1>2 DEF Until
<1>5. Increasing(w) /\ Until(w, n)
  BY <1>3, <1>4 DEF Increasing, Until
<1> QED BY <1>5 DEF w

\* One message is written after others.
LEMMA AppendedOne ==
  ASSUME NEW q \in Seq(0 .. MaxCalls), NEW m \in 0 .. MaxCalls, NEW n \in Int,
         Increasing(q), Until(q, m), m < n
  PROVE  /\ Increasing(q \o <<m>>) /\ Until(q \o <<m>>, n)
         /\ Append(q, m) = q \o <<m>>
<1>0. m \in Int
  BY TopicTreeAssumption
<1>1. Until(q, n)
  BY <1>0, UntilMore
<1> DEFINE p == <<m>>
<1>2. p \in Seq(0 .. MaxCalls) /\ Len(p) = 1 /\ p[1] = m
  OBVIOUS
<1> HIDE DEF p
<1>3. Increasing(p) /\ Until(p, n) /\ \A j \in 1 .. Len(p) : Until(q, p[j])
  BY <1>0, <1>2 DEF Increasing, Until
<1>4. Increasing(q \o p) /\ Until(q \o p, n)
  BY <1>1, <1>2, <1>3, Appended
<1>5. Append(q, m) = q \o <<m>>
  OBVIOUS
<1> QED BY <1>4, <1>5 DEF p

\* The types the lemmas need.
LEMMA OrderTypes ==
  ASSUME TypeOK
  PROVE  /\ outgoing \in Seq(0 .. MaxCalls) /\ Len(outgoing) \in Nat
         /\ \A i \in 1 .. Len(outgoing) : outgoing[i] \in 0 .. MaxCalls /\ outgoing[i] \in Int
         /\ delivered \in [Subscribers -> Seq(0 .. MaxCalls)]
         /\ indices \in [Subscribers -> Seq(0 .. MaxOutgoing)]
         /\ lastCall \in 0 .. MaxCalls /\ lastCall \in Nat
<1>1. outgoing \in Seq(0 .. MaxCalls) /\ lastCall \in 0 .. MaxCalls
      /\ delivered \in [Subscribers -> Seq(0 .. MaxCalls)]
      /\ indices \in [Subscribers -> Seq(0 .. MaxOutgoing)]
  BY DEF TypeOK
<1> QED BY <1>1, TopicTreeAssumption

\* A message that a drain writes.
LEMMA DrainWrites ==
  ASSUME Ready, stack # <<>>, Head(stack).kind \in {"drain", "drainAll"}, Head(stack).left # <<>>,
         Head(Head(stack).left) < Len(outgoing),
         LET f == Head(stack)
         IN  /\ delivered' = [delivered EXCEPT ![f.sub] = delivered[f.sub] \o <<outgoing[Head(f.left) + 1]>>]
             /\ stack' = <<[f EXCEPT !.left = Tail(f.left)]>> \o Tail(stack),
         UNCHANGED <<indices, outgoing, lastCall>>
  PROVE  OrderInv' /\ stack' \in Seq(Frame)
<1> DEFINE f == Head(stack)
           s == f.sub
           l == f.left
           i == Head(l)
           m == outgoing[i + 1]
           g == [f EXCEPT !.left = Tail(l)]
           r == Tail(stack)
<1>1. f \in Frame /\ f \in FrameRecord /\ s \in Subscribers /\ l \in Seq(Nat) /\ l # <<>>
  BY ReadyParts, HeadFrame DEF Frame, FrameRecord
<1>2. g \in Frame /\ g.kind = f.kind /\ g.left = Tail(l) /\ g.sub = s
  BY <1>1, ReadyParts, DrainFrames, TopFields
<1>3. /\ r \in Seq(Frame) /\ Frames(stack) = Frames(r) \cup {f} /\ Apart(r)
      /\ \A h \in Frames(r) : h.left = <<>>
  BY ReadyParts, FramesSplit, ApartSplit DEF CallInv, LeftInv
<1>4. indices[s] = <<>> /\ Waits(s, l) /\ f.kind \notin OfCall /\ f.kind # "publish"
  BY <1>1, <1>3, ReadyParts DEF LeftInv, BoxInv, OfCall
<1>5. /\ Len(l) \in Nat /\ Len(Tail(l)) \in Nat /\ 1 \in 1 .. Len(l) /\ i = l[1] /\ i \in Nat
      /\ \A k \in 1 .. Len(Tail(l)) : k + 1 \in 1 .. Len(l) /\ 1 < k + 1 /\ Tail(l)[k] = l[k + 1] /\ l[k + 1] \in Nat
  BY <1>1
<1>6. /\ delivered' = [delivered EXCEPT ![s] = delivered[s] \o <<m>>]
      /\ stack' = <<g>> \o r /\ UNCHANGED <<indices, outgoing, lastCall>> /\ i < Len(outgoing)
  OBVIOUS
<1> HIDE DEF f, s, l, i, g, r
<1>7. /\ outgoing \in Seq(0 .. MaxCalls) /\ Len(outgoing) \in Nat
      /\ delivered \in [Subscribers -> Seq(0 .. MaxCalls)] /\ lastCall \in Nat
      /\ \A x \in 1 .. Len(outgoing) : outgoing[x] \in 0 .. MaxCalls
  BY ReadyParts, OrderTypes
<1>8. i + 1 \in 1 .. Len(outgoing) /\ m \in 0 .. MaxCalls
  BY <1>5, <1>6, <1>7
<1>9. Until(delivered[s], m)
  BY <1>4, <1>5, <1>6, <1>7 DEF Waits
<1>10. /\ stack' \in Seq(Frame) /\ Frames(stack') = Frames(r) \cup {g} /\ stack' # <<>>
       /\ Head(stack') = g /\ Tail(stack') = r
  <2>1. /\ <<g>> \o r \in Seq(Frame) /\ <<g>> \o r # <<>> /\ Head(<<g>> \o r) = g
        /\ Tail(<<g>> \o r) = r
    BY <1>2, <1>3, PushElements
  <2>2. Frames(<<g>> \o r) = Frames(r) \cup {g}
    BY <1>2, <1>3, FramesPush
  <2> QED BY <1>6, <2>1, <2>2
<1>11. Due(g) = {} /\ g.kind \notin OfCall /\ g.kind # "publish"
  BY <1>2, <1>4 DEF Due, OfCall
<1>12. Apart(stack')
  <2>1. Apart(<<g>> \o r) <=> Apart(r) /\ \A h \in Frames(r) : Due(g) \cap Due(h) = {}
    BY <1>2, <1>3, ApartPush
  <2> QED BY <1>3, <1>6, <1>11, <2>1
<1>13. LeftInv'
  <2>1. ASSUME NEW h \in Frames(stack'), h.left # <<>> PROVE h = g
    BY <1>3, <1>10, <2>1
  <2>2. g.kind \in {"drain", "drainAll"} /\ indices'[g.sub] = <<>>
    BY <1>2, <1>4, <1>6 DEF f
  <2> QED BY <1>3, <1>10, <2>1, <2>2 DEF LeftInv
<1> HIDE DEF m
<1>14. Increasing(delivered'[s]) /\ (m < lastCall + 1 => Until(delivered'[s], lastCall + 1))
       /\ (m < lastCall => Until(delivered'[s], lastCall))
  <2>1. delivered'[s] = delivered[s] \o <<m>>
    BY <1>1, <1>6, <1>7
  <2>2. Increasing(delivered[s]) /\ m \in Int /\ lastCall \in Int /\ lastCall + 1 \in Int /\ m + 1 \in Int
    BY <1>1, <1>7, <1>8, ReadyParts, TopicTreeAssumption DEF MessagesInv
  <2>3. delivered[s] \in Seq(0 .. MaxCalls)
    BY <1>1, <1>7
  <2>4. Increasing(delivered[s] \o <<m>>)
    <3>1. m < m + 1
      BY <2>2
    <3> QED BY <1>8, <1>9, <2>2, <2>3, <3>1, AppendedOne
  <2>5. m < lastCall + 1 => Until(delivered[s] \o <<m>>, lastCall + 1)
    BY <1>8, <1>9, <2>2, <2>3, AppendedOne
  <2>6. m < lastCall => Until(delivered[s] \o <<m>>, lastCall)
    BY <1>8, <1>9, <2>2, <2>3, AppendedOne
  <2> QED BY <2>1, <2>4, <2>5, <2>6
<1>15. \A x \in Subscribers : x # s => delivered'[x] = delivered[x]
  BY <1>6, <1>7
<1>16. CallInv'
  <2>1. ASSUME NEW h \in Frames(stack'), h.kind \in OfCall
        PROVE  /\ h.msg = lastCall /\ lastCall > 0 /\ Until(outgoing, lastCall)
               /\ \A x \in Due(h) \ {NoSub} : Until(delivered'[x], lastCall)
               /\ h.kind = "send" => indices[h.sub] = <<>>
    <3>1. h \in Frames(stack)
      BY <1>3, <1>10, <1>11, <2>1
    <3>2. /\ h.msg = lastCall /\ lastCall > 0 /\ Until(outgoing, lastCall)
          /\ \A x \in Due(h) \ {NoSub} : Until(delivered[x], lastCall)
          /\ h.kind = "send" => indices[h.sub] = <<>>
      BY <2>1, <3>1, ReadyParts DEF CallInv
    <3>3. m < lastCall
      BY <1>8, <3>2 DEF Until, m
    <3>4. h \in Frame
      BY <3>1, ReadyParts
    <3>5. Due(h) \subseteq Subscribers \cup {NoSub}
      BY <3>4 DEF Due, Frame, FrameRecord
    <3> QED BY <1>14, <1>15, <3>2, <3>3, <3>5
  <2> QED BY <1>6, <1>12, <2>1 DEF CallInv
<1>17. ASSUME NEW x, Reached(x) PROVE Reached(x)'
  BY <1>3, <1>4, <1>10, <1>17 DEF Reached
<1>18. BoxInv'
  <2>1. ASSUME NEW x \in Subscribers PROVE Waits(x, indices[x])'
    <3>1. CASE x = s
      <4>1. indices'[x] = <<>>
        BY <1>4, <1>6, <3>1
      <4> QED BY <4>1, Nothing DEF Waits
    <3>2. CASE x # s
      <4>1. Waits(x, indices[x]) /\ delivered'[x] = delivered[x]
        BY <1>15, <3>2, ReadyParts DEF BoxInv
      <4>2. indices' = indices /\ outgoing' = outgoing
        BY <1>6
      <4> QED BY <1>17, <4>1, <4>2 DEF Waits
    <3> QED BY <3>1, <3>2
  <2>2. /\ Increasing(Tail(l))
        /\ \A k \in 1 .. Len(Tail(l)) :
             \/ Tail(l)[k] < Len(outgoing) /\ Until(delivered'[s], outgoing[Tail(l)[k] + 1])
             \/ Tail(l)[k] = Len(outgoing) /\ Reached(s)
    <3> DEFINE q == Tail(l)
    <3>1. Increasing(q)
      <4>1. ASSUME NEW a \in 1 .. Len(q), NEW b \in 1 .. Len(q), a < b PROVE q[a] < q[b]
        <5>1. a + 1 \in 1 .. Len(l) /\ b + 1 \in 1 .. Len(l) /\ a + 1 < b + 1
              /\ q[a] = l[a + 1] /\ q[b] = l[b + 1]
          BY <1>5, <4>1
        <5> QED BY <1>4, <5>1 DEF Waits, Increasing
      <4> QED BY <4>1 DEF Increasing
    <3>2. ASSUME NEW k \in 1 .. Len(q)
          PROVE  \/ q[k] < Len(outgoing) /\ Until(delivered'[s], outgoing[q[k] + 1])
                 \/ q[k] = Len(outgoing) /\ Reached(s)
      <4>1. k + 1 \in 1 .. Len(l) /\ q[k] = l[k + 1] /\ i < l[k + 1] /\ q[k] \in Nat
        BY <1>4, <1>5 DEF Waits, Increasing
      <4>2. CASE l[k + 1] < Len(outgoing) /\ Until(delivered[s], outgoing[l[k + 1] + 1])
        <5>1. l[k + 1] + 1 \in 1 .. Len(outgoing) /\ i + 1 < l[k + 1] + 1
          <6>1. l[k + 1] \in Nat /\ i \in Nat /\ Len(outgoing) \in Nat /\ l[k + 1] < Len(outgoing)
            BY <1>5, <1>7, <4>1, <4>2
          <6> QED BY <4>1, <6>1
        <5> DEFINE n == outgoing[l[k + 1] + 1]
        <5>2. m < n /\ n \in Int
          BY <1>7, <1>8, <5>1, ReadyParts, TopicTreeAssumption DEF MessagesInv, Increasing, m
        <5>3. Increasing(delivered[s]) /\ delivered[s] \in Seq(0 .. MaxCalls)
          BY <1>1, <1>7, ReadyParts DEF MessagesInv
        <5> HIDE DEF n
        <5>4. Until(delivered[s] \o <<m>>, n)
          BY <1>8, <1>9, <5>2, <5>3, AppendedOne
        <5>5. delivered'[s] = delivered[s] \o <<m>>
          BY <1>1, <1>6, <1>7
        <5> QED BY <4>1, <4>2, <5>4, <5>5 DEF n
      <4>3. CASE l[k + 1] = Len(outgoing) /\ Reached(s)
        BY <4>1, <4>3
      <4>4. \/ l[k + 1] < Len(outgoing) /\ Until(delivered[s], outgoing[l[k + 1] + 1])
            \/ l[k + 1] = Len(outgoing) /\ Reached(s)
        BY <1>4, <4>1 DEF Waits
      <4> QED BY <4>2, <4>3, <4>4
    <3> QED BY <3>1, <3>2
  <2>3. ASSUME NEW h \in Frames(stack'), h.left # <<>> PROVE Waits(h.sub, h.left)'
    <3>1. h = g
      BY <1>3, <1>10, <2>3
    <3>2. h.sub = s /\ h.left = Tail(l)
      BY <1>2, <3>1
    <3>3. /\ Increasing(h.left)
          /\ \A k \in 1 .. Len(h.left) :
               \/ h.left[k] < Len(outgoing') /\ Until(delivered'[h.sub], outgoing'[h.left[k] + 1])
               \/ h.left[k] = Len(outgoing') /\ Reached(h.sub)
      BY <1>6, <2>2, <3>2
    <3> QED BY <1>17, <3>3 DEF Waits
  <2> QED BY <2>1, <2>3 DEF BoxInv
<1>19. MessagesInv'
  <2>1. m < lastCall + 1
    BY <1>8, ReadyParts DEF MessagesInv, Until, m
  <2> QED BY <1>6, <1>14, <1>15, <2>1, ReadyParts DEF MessagesInv
<1> QED BY <1>10, <1>13, <1>16, <1>18, <1>19 DEF OrderInv

\* A drain goes on: a message is written, or its dropped handler runs.
LEMMA OrderDrain ==
  ASSUME Ready, DrainMessage
  PROVE  OrderInv'
<1> DEFINE f == Head(stack)
           g == [f EXCEPT !.left = <<>>]
           d == DroppedFrame(f.sub)
<1>1. /\ stack # <<>> /\ f.kind \in {"drain", "drainAll"} /\ f.left # <<>>
      /\ UNCHANGED <<indices, outgoing, lastCall>>
  BY DEF DrainMessage, Draining, Running, listVars
<1>2. \/ /\ Head(f.left) < Len(outgoing)
         /\ delivered' = [delivered EXCEPT ![f.sub] = delivered[f.sub] \o <<outgoing[Head(f.left) + 1]>>]
         /\ stack' = <<[f EXCEPT !.left = Tail(f.left)]>> \o Tail(stack)
      \/ stack' = <<d>> \o (<<g>> \o Tail(stack)) /\ UNCHANGED delivered
      \/ UNCHANGED <<stack, delivered>>
  BY DEF DrainMessage, Written, Top, Below
<1>3. CASE stack' = <<d>> \o (<<g>> \o Tail(stack)) /\ UNCHANGED delivered
  <2>1. f \in Frame /\ f.sub \in Subscribers
    BY <1>1, ReadyParts, HeadFrame DEF Frame
  <2>2. g \in Frame /\ g.kind = f.kind /\ g.left = <<>>
    BY <1>1, <2>1, ReadyParts, DrainFrames, TopFields
  <2>3. Fresh(g) /\ f.kind # "publish"
    BY <1>1, <2>2 DEF Fresh, OfCall
  <2>4. d \in Frame /\ Fresh(d)
    BY <2>1, ReadyParts, NewFrames, FreshFrames
  <2> HIDE DEF g, d
  <2>5. Base(<<g>> \o Tail(stack))
    BY <1>1, <2>2, <2>3, ReadyParts, BaseTop
  <2>6. Restacked /\ stack' \in Seq(Frame)
    BY <1>3, <2>4, <2>5, BasePush
  <2>7. Fewest
    BY <1>1 DEF Fewest
  <2> QED BY <1>1, <1>3, <2>6, <2>7, ReadyParts, KeptOrder
<1>4. CASE UNCHANGED <<stack, delivered>>
  <2>1. Restacked /\ stack' \in Seq(Frame) /\ Fewest
    BY <1>1, <1>4, ReadyParts, SameStack DEF Fewest
  <2> QED BY <1>1, <1>4, <2>1, ReadyParts, KeptOrder
<1> QED BY <1>1, <1>2, <1>3, <1>4, DrainWrites

\* What is written of a call is the last message.
LEMMA OrderSend ==
  ASSUME Ready, FinishSend
  PROVE  OrderInv'
<1> DEFINE f == Head(stack)
           s == f.sub
           r == Tail(stack)
<1>1. /\ stack # <<>> /\ f.kind = "send" /\ stack' = r /\ UNCHANGED <<indices, outgoing, lastCall>>
      /\ \/ delivered' = [delivered EXCEPT ![s] = delivered[s] \o <<f.msg>>]
         \/ UNCHANGED delivered
  BY DEF FinishSend, Running, Below, Written, listVars
<1>2. Base(r)
  BY <1>1, ReadyParts, BaseTail
<1>3. Restacked /\ stack' \in Seq(Frame) /\ \A h \in Frames(stack') : h.left = <<>>
  BY <1>1, <1>2, BaseSame DEF Base
<1>4. Fewest
  BY <1>1 DEF Fewest
<1>5. CASE UNCHANGED delivered
  BY <1>1, <1>3, <1>4, <1>5, ReadyParts, KeptOrder
<1>6. CASE delivered' = [delivered EXCEPT ![s] = delivered[s] \o <<f.msg>>]
  <2>1. /\ f \in Frame /\ s \in Subscribers /\ f \in Frames(stack)
        /\ Frames(stack) = Frames(r) \cup {f}
    BY <1>1, ReadyParts, HeadFrame, FramesSplit DEF Frame, Handles
  <2>2. s # NoSub /\ Due(f) = {s}
    BY <1>1, <2>1, TopicTreeAssumption DEF Due
  <2>3. f.msg = lastCall /\ Until(delivered[s], lastCall) /\ indices[s] = <<>>
    BY <1>1, <2>1, <2>2, ReadyParts DEF CallInv, OfCall
  <2>4. Apart(r) /\ \A h \in Frames(r) : s \notin Due(h)
    <3>1. Apart(r) /\ \A h \in Frames(r) : Due(f) \cap Due(h) = {}
      BY <1>1, ReadyParts, ApartSplit DEF CallInv
    <3> QED BY <2>2, <3>1
  <2> HIDE DEF f, s, r
  <2>5. /\ outgoing \in Seq(0 .. MaxCalls) /\ delivered \in [Subscribers -> Seq(0 .. MaxCalls)]
        /\ lastCall \in 0 .. MaxCalls /\ lastCall \in Nat
    BY ReadyParts, OrderTypes
  <2>6. Increasing(delivered'[s]) /\ Until(delivered'[s], lastCall + 1)
    <3>1. delivered'[s] = delivered[s] \o <<lastCall>>
      BY <1>6, <2>1, <2>3, <2>5
    <3>2. Increasing(delivered[s]) /\ delivered[s] \in Seq(0 .. MaxCalls)
      BY <2>1, <2>5, ReadyParts DEF MessagesInv
    <3>3. lastCall < lastCall + 1 /\ lastCall + 1 \in Int
      BY <2>5
    <3>4. Increasing(delivered[s] \o <<lastCall>>) /\ Until(delivered[s] \o <<lastCall>>, lastCall + 1)
      BY <2>3, <2>5, <3>2, <3>3, AppendedOne
    <3> QED BY <3>1, <3>4
  <2>7. \A x \in Subscribers : x # s => delivered'[x] = delivered[x]
    BY <1>6, <2>5
  <2>8. LeftInv'
    <3>1. stack' # <<>> => \A h \in Frames(Tail(stack')) : h.left = <<>>
      BY <1>3 DEF Restacked
    <3> QED BY <1>3, <3>1 DEF LeftInv
  <2>9. CallInv'
    <3>1. ASSUME NEW h \in Frames(stack'), h.kind \in OfCall
          PROVE  /\ h.msg = lastCall /\ lastCall > 0 /\ Until(outgoing, lastCall)
                 /\ \A x \in Due(h) \ {NoSub} : Until(delivered'[x], lastCall)
                 /\ h.kind = "send" => indices[h.sub] = <<>>
      <4>1. h \in Frames(r) /\ h \in Frames(stack) /\ h \in Frame
        BY <1>1, <2>1, <3>1, ReadyParts
      <4>2. Due(h) \subseteq Subscribers \cup {NoSub}
        BY <4>1 DEF Due, Frame, FrameRecord
      <4>3. /\ h.msg = lastCall /\ lastCall > 0 /\ Until(outgoing, lastCall)
            /\ \A x \in Due(h) \ {NoSub} : Until(delivered[x], lastCall)
            /\ h.kind = "send" => indices[h.sub] = <<>>
        BY <3>1, <4>1, ReadyParts DEF CallInv
      <4> QED BY <2>4, <2>7, <4>1, <4>2, <4>3
    <3> QED BY <1>1, <2>4, <3>1 DEF CallInv
  <2>10. ASSUME NEW x, Reached(x) PROVE Reached(x)'
    <3>1. f.kind # "publish"
      BY <1>1
    <3> QED BY <1>1, <2>1, <2>10, <3>1 DEF Reached
  <2>11. BoxInv'
    <3>1. ASSUME NEW x \in Subscribers PROVE Waits(x, indices[x])'
      <4>1. CASE x = s
        <5>1. indices'[x] = <<>>
          BY <1>1, <2>3, <4>1
        <5> QED BY <5>1, Nothing DEF Waits
      <4>2. CASE x # s
        <5>1. Waits(x, indices[x]) /\ delivered'[x] = delivered[x]
          BY <2>7, <4>2, ReadyParts DEF BoxInv
        <5>2. indices' = indices /\ outgoing' = outgoing
          BY <1>1
        <5> QED BY <2>10, <5>1, <5>2 DEF Waits
      <4> QED BY <4>1, <4>2
    <3> QED BY <1>3, <3>1 DEF BoxInv
  <2>12. MessagesInv'
    BY <1>1, <2>6, <2>7, ReadyParts DEF MessagesInv
  <2> QED BY <2>8, <2>9, <2>11, <2>12 DEF OrderInv
<1> QED BY <1>1, <1>5, <1>6

\* A WebSocket takes the address of one that was deleted.
LEMMA OrderRenew ==
  ASSUME Ready, NEW s \in Subscribers, NEW t \in Topics, Subscribe(s, t), ~Live(s)
  PROVE  OrderInv'
<1>1. /\ UNCHANGED <<stack, indices, outgoing, lastCall>>
      /\ delivered' = [delivered EXCEPT ![s] = <<>>]
  BY DEF Subscribe, listVars
<1>2. indices[s] = <<>>
  BY ReadyParts DEF Live, FreedInv
<1>3. stack # <<>> => Head(stack).left = <<>>
  BY NothingLeft DEF Subscribe, MayCall, Idle, Running
<1>4. \A f \in Frames(stack) : f.left = <<>>
  BY <1>3, ReadyParts, BaseStack DEF Base
<1>5. delivered'[s] = <<>> /\ \A x \in Subscribers : x # s => delivered'[x] = delivered[x]
  BY <1>1, ReadyParts, OrderTypes
<1>6. \A x \in Subscribers : delivered'[x] = delivered[x] \/ (x = s /\ delivered'[x] = <<>>)
  BY <1>5
<1>7. LeftInv'
  BY <1>1, ReadyParts DEF LeftInv
<1>8. CallInv'
  <2>1. ASSUME NEW f \in Frames(stack), f.kind \in OfCall, NEW x \in Due(f) \ {NoSub}
        PROVE  Until(delivered'[x], lastCall)
    <3>1. x \in Subscribers /\ Until(delivered[x], lastCall)
      BY <2>1, ReadyParts DEF CallInv, Due, Frame, FrameRecord
    <3> QED BY <1>6, <3>1, Nothing
  <2> QED BY <1>1, <2>1, ReadyParts DEF CallInv
<1>9. BoxInv'
  <2>1. ASSUME NEW x \in Subscribers PROVE Waits(x, indices[x])'
    <3>1. Waits(x, indices[x]) /\ (Reached(x) => Reached(x)')
      BY <1>1, ReadyParts DEF BoxInv, Reached
    <3>2. CASE x = s
      <4>1. indices'[x] = <<>>
        BY <1>1, <1>2, <3>2
      <4> QED BY <4>1, Nothing DEF Waits
    <3>3. CASE x # s
      <4>1. delivered'[x] = delivered[x] /\ indices' = indices /\ outgoing' = outgoing
        BY <1>1, <1>5, <3>3
      <4> QED BY <3>1, <4>1 DEF Waits
    <3> QED BY <3>2, <3>3
  <2> QED BY <1>1, <1>4, <2>1 DEF BoxInv
<1>10. MessagesInv'
  BY <1>1, <1>6, Nothing, ReadyParts DEF MessagesInv
<1> QED BY <1>7, <1>8, <1>9, <1>10 DEF OrderInv

\* What end writes of the messages that wait for s.
LEMMA EndWrites ==
  ASSUME Ready, NEW s \in Subscribers, NEW kept \in 1 .. Len(indices[s]),
         \A i \in DOMAIN indices[s] : indices[s][i] < Len(outgoing)
  PROVE  LET w == [i \in 1 .. kept |-> outgoing[indices[s][i] + 1]]
         IN  /\ w \in Seq(0 .. MaxCalls) /\ Len(w) = kept
             /\ Increasing(w) /\ Until(w, lastCall + 1)
             /\ Until(outgoing, lastCall) => Until(w, lastCall)
             /\ \A j \in 1 .. Len(w) : Until(delivered[s], w[j])
<1> DEFINE q == indices[s]
           w == [i \in 1 .. kept |-> outgoing[q[i] + 1]]
<1>1. /\ outgoing \in Seq(0 .. MaxCalls) /\ Len(outgoing) \in Nat
      /\ \A i \in 1 .. Len(outgoing) : outgoing[i] \in 0 .. MaxCalls /\ outgoing[i] \in Int
      /\ q \in Seq(0 .. MaxOutgoing)
  BY ReadyParts, OrderTypes
<1>2. kept \in Nat /\ \A i \in 1 .. kept : i \in 1 .. Len(q) /\ i \in DOMAIN q /\ q[i] \in Nat
  BY <1>1, TopicTreeAssumption
<1>3. Waits(s, q)
  BY ReadyParts DEF BoxInv
<1>4. \A i \in 1 .. kept : q[i] < Len(outgoing)
  BY <1>2
<1>5. ASSUME NEW i \in 1 .. kept
      PROVE  /\ q[i] + 1 \in 1 .. Len(outgoing) /\ w[i] = outgoing[q[i] + 1]
             /\ Until(delivered[s], outgoing[q[i] + 1])
  <2>1. q[i] < Len(outgoing) /\ q[i] \in Nat /\ i \in 1 .. Len(q)
    BY <1>2, <1>4
  <2>2. q[i] + 1 \in 1 .. Len(outgoing)
    BY <1>1, <2>1
  <2>3. q[i] # Len(outgoing)
    BY <1>1, <2>1
  <2> QED BY <1>3, <2>1, <2>2, <2>3 DEF Waits
<1>6. w \in Seq(0 .. MaxCalls) /\ Len(w) = kept /\ DOMAIN w = 1 .. kept
  <2>1. \A i \in 1 .. kept : outgoing[q[i] + 1] \in 0 .. MaxCalls
    BY <1>1, <1>5
  <2> QED BY <1>2, <2>1, SeqDef
<1>7. ASSUME NEW i \in 1 .. kept, NEW j \in 1 .. kept, i < j PROVE w[i] < w[j]
  <2>1. q[i] < q[j]
    BY <1>2, <1>3, <1>7 DEF Waits, Increasing
  <2>2. q[i] + 1 < q[j] + 1
    BY <1>2, <2>1
  <2> QED BY <1>5, <2>2, ReadyParts DEF MessagesInv, Increasing
<1>8. \A m : Until(outgoing, m) => \A i \in 1 .. kept : w[i] < m
  BY <1>5 DEF Until
<1> HIDE DEF w
<1>9. Increasing(w) /\ \A m : Until(outgoing, m) => Until(w, m)
  BY <1>6, <1>7, <1>8 DEF Increasing, Until
<1>10. Until(outgoing, lastCall + 1)
  BY ReadyParts DEF MessagesInv
<1>11. \A j \in 1 .. Len(w) : Until(delivered[s], w[j])
  BY <1>5, <1>6
<1>12. /\ w \in Seq(0 .. MaxCalls) /\ Len(w) = kept
       /\ Increasing(w) /\ Until(w, lastCall + 1)
       /\ Until(outgoing, lastCall) => Until(w, lastCall)
       /\ \A j \in 1 .. Len(w) : Until(delivered[s], w[j])
  BY <1>6, <1>9, <1>10, <1>11
<1> QED BY <1>12 DEF w

\* Nothing is being drained while the application may call.
LEMMA CallsLeaveNothing ==
  ASSUME Ready, Idle \/ Running("dropped")
  PROVE  \A f \in Frames(stack) : f.left = <<>>
<1>1. stack # <<>> => Head(stack).left = <<>>
  BY NothingLeft DEF Idle, Running
<1> QED BY <1>1, ReadyParts, BaseStack DEF Base

\* end drains before it frees.
LEMMA OrderEnd ==
  ASSUME Ready, ListInv', TypeOK', NEW s \in Subscribers, End(s)
  PROVE  OrderInv'
<1> DEFINE q == indices[s]
<1>1. UNCHANGED <<stack, lastCall>> /\ \A f \in Frames(stack) : f.left = <<>>
  BY CallsLeaveNothing DEF End, MayCall
<1>2. Restacked /\ stack' \in Seq(Frame)
  BY <1>1, ReadyParts, SameStack
<1>3. CASE UNCHANGED <<listVars, outgoing, delivered>>
  <2>1. Fewest
    BY <1>3 DEF Fewest, listVars
  <2> QED BY <1>1, <1>2, <1>3, <2>1, ReadyParts, KeptOrder
<1>4. CASE ~UNCHANGED <<listVars, outgoing, delivered>>
  <2>1. \A i \in DOMAIN q : q[i] < Len(outgoing)
    BY <1>4, Zenon DEF End
  <2>2. PICK kept \in 1 .. Len(q) :
          /\ delivered' = [delivered EXCEPT ![s] = delivered[s] \o [i \in 1 .. kept |-> outgoing[q[i] + 1]]]
          /\ FreeSubscriber(s)
          /\ outgoing' = ClearIfUnused(drainable')
    BY <2>1 DEF End
  <2> DEFINE w == [i \in 1 .. kept |-> outgoing[q[i] + 1]]
  <2>3. /\ w \in Seq(0 .. MaxCalls)
        /\ Increasing(w) /\ Until(w, lastCall + 1)
        /\ Until(outgoing, lastCall) => Until(w, lastCall)
        /\ \A j \in 1 .. Len(w) : Until(delivered[s], w[j])
    BY <2>1, EndWrites
  <2>4. delivered' = [delivered EXCEPT ![s] = delivered[s] \o w]
    BY <2>2
  <2> HIDE DEF w
  <2>5. /\ indices' = [indices EXCEPT ![s] = <<>>]
        /\ indices'[s] = <<>>
        /\ \A x \in Subscribers : indices'[x] \in {indices[x], <<>>}
    BY <2>2, ReadyParts, FreeEmpties
  <2>6. Fewest
    BY <1>1, <2>2, <2>5, ClearedFewest
  <2>7. /\ outgoing \in Seq(0 .. MaxCalls) /\ delivered \in [Subscribers -> Seq(0 .. MaxCalls)]
        /\ lastCall \in Nat /\ indices \in [Subscribers -> Seq(0 .. MaxOutgoing)]
    BY ReadyParts, OrderTypes
  <2>8. /\ delivered'[s] = delivered[s] \o w
        /\ \A x \in Subscribers : x # s => delivered'[x] = delivered[x] /\ indices'[x] = indices[x]
    BY <2>4, <2>5, <2>7
  <2>9. /\ Increasing(delivered'[s]) /\ Until(delivered'[s], lastCall + 1)
        /\ Until(outgoing, lastCall) /\ Until(delivered[s], lastCall) => Until(delivered'[s], lastCall)
    <3>1. delivered[s] \in Seq(0 .. MaxCalls) /\ Increasing(delivered[s]) /\ Until(delivered[s], lastCall + 1)
      BY <2>7, ReadyParts DEF MessagesInv
    <3>2. lastCall \in Int /\ lastCall + 1 \in Int
      BY <2>7
    <3>3. Increasing(delivered[s] \o w) /\ Until(delivered[s] \o w, lastCall + 1)
      BY <2>3, <3>1, <3>2, Appended
    <3>4. Until(outgoing, lastCall) /\ Until(delivered[s], lastCall) => Until(delivered[s] \o w, lastCall)
      BY <2>3, <3>1, <3>2, Appended
    <3> QED BY <2>8, <3>3, <3>4
  <2>10. LeftInv'
    BY <1>1, ReadyParts DEF LeftInv
  <2>11. \A m : Until(outgoing, m) => Until(outgoing', m)
    BY <2>6, Nothing DEF Fewest
  <2>12. CallInv'
    <3>1. ASSUME NEW h \in Frames(stack), h.kind \in OfCall
          PROVE  /\ h.msg = lastCall /\ lastCall > 0 /\ Until(outgoing', lastCall)
                 /\ \A x \in Due(h) \ {NoSub} : Until(delivered'[x], lastCall)
                 /\ h.kind = "send" => indices'[h.sub] = <<>>
      <4>1. h \in Frame
        BY <3>1, ReadyParts
      <4>2. Due(h) \subseteq Subscribers \cup {NoSub} /\ (h.kind = "send" => h.sub \in Subscribers)
        BY <4>1 DEF Due, Frame, FrameRecord, Handles
      <4>3. /\ h.msg = lastCall /\ lastCall > 0 /\ Until(outgoing, lastCall)
            /\ \A x \in Due(h) \ {NoSub} : Until(delivered[x], lastCall)
            /\ h.kind = "send" => indices[h.sub] = <<>>
        BY <3>1, ReadyParts DEF CallInv
      <4>4. \A x \in Due(h) \ {NoSub} : Until(delivered'[x], lastCall)
        BY <2>8, <2>9, <4>2, <4>3
      <4>5. h.kind = "send" => indices'[h.sub] = <<>>
        BY <2>5, <4>2, <4>3
      <4> QED BY <2>11, <4>3, <4>4, <4>5
    <3> QED BY <1>1, <1>2, <3>1 DEF CallInv, Restacked
  <2>13. BoxInv'
    <3>1. ASSUME NEW x \in Subscribers PROVE Waits(x, indices[x])'
      <4>1. CASE indices'[x] = <<>>
        BY <4>1, Nothing DEF Waits
      <4>2. CASE indices'[x] # <<>>
        <5>1. x # s /\ outgoing' = outgoing
          BY <2>5, <2>6, <4>2 DEF Fewest
        <5>2. Waits(x, indices[x]) /\ delivered'[x] = delivered[x] /\ indices'[x] = indices[x]
          BY <2>8, <5>1, ReadyParts DEF BoxInv
        <5>3. Reached(x) => Reached(x)'
          BY <1>1 DEF Reached
        <5> QED BY <5>1, <5>2, <5>3 DEF Waits
      <4> QED BY <4>1, <4>2
    <3> QED BY <1>1, <3>1 DEF BoxInv
  <2>14. MessagesInv'
    <3>1. Increasing(outgoing')
      BY <2>6, Nothing, ReadyParts DEF Fewest, MessagesInv
    <3> QED BY <1>1, <2>8, <2>9, <2>11, <3>1, ReadyParts DEF MessagesInv
  <2> QED BY <2>10, <2>12, <2>13, <2>14 DEF OrderInv
<1> QED BY <1>3, <1>4

-----------------------------------------------------------------------------
(* The walk of a publish.                                                  *)

\* A publish is the only call under way.
LEMMA OnlyCall ==
  ASSUME Ready, stack # <<>>, Head(stack).kind \in {"publishStart", "publish"}
  PROVE  LET f == Head(stack)
             r == Tail(stack)
         IN  /\ f \in Frame /\ r \in Seq(Frame) /\ Frames(stack) = Frames(r) \cup {f}
             /\ Apart(r) /\ \A g \in Frames(r) : g.left = <<>> /\ g.kind \notin OfCall
             /\ f.left = <<>> /\ f.msg = lastCall /\ lastCall > 0 /\ Until(outgoing, lastCall)
             /\ \A s \in Subscribers : Until(delivered[s], lastCall)
<1> DEFINE f == Head(stack)
           r == Tail(stack)
<1>1. /\ f \in Frame /\ r \in Seq(Frame) /\ Frames(stack) = Frames(r) \cup {f} /\ f.left = <<>>
      /\ Apart(r) /\ \A g \in Frames(r) : Due(f) \cap Due(g) = {} /\ g.left = <<>>
  BY ReadyParts, FramesSplit, ApartSplit, NothingLeft DEF CallInv, LeftInv
<1>2. Due(f) = Subscribers \cup {NoSub} /\ f.kind \in OfCall /\ f.kind \in Grounds
  BY DEF Due, OfCall, Grounds
<1>3. \A g \in Frames(r) : g.kind \notin Drains
  <2>1. Count(Drains, r) = 0
    BY <1>2, ReadyParts, Below0
  <2>2. \A j \in 1 .. Len(r) : r[j].kind \notin Drains
    BY <1>1, <2>1, CountZero
  <2> QED BY <2>2 DEF Frames
<1>4. ASSUME NEW g \in Frames(r) PROVE g.kind \notin OfCall
  <2>1. g \in Frame /\ g.kind \notin Drains /\ Due(f) \cap Due(g) = {}
    BY <1>1, <1>3, FramesTypes
  <2>2. g.kind = "send" => g.sub \in Subscribers /\ g.sub \in Due(g)
    BY <2>1 DEF Due, Frame, Handles
  <2>3. g.kind = "publishStart" => NoSub \in Due(g)
    BY DEF Due
  <2> QED BY <1>2, <2>1, <2>2, <2>3 DEF OfCall, Drains
<1>5. /\ f.msg = lastCall /\ lastCall > 0 /\ Until(outgoing, lastCall)
      /\ \A s \in Subscribers : Until(delivered[s], lastCall)
  <2>1. f \in Frames(stack) /\ CallInv
    BY <1>1, ReadyParts
  <2>2. \A s \in Subscribers : s \in Due(f) \ {NoSub}
    BY <1>2, TopicTreeAssumption
  <2> QED BY <1>2, <2>1, <2>2 DEF CallInv
<1> QED BY <1>1, <1>4, <1>5

\* The publish goes on as g.
LEMMA Walking ==
  ASSUME Ready, stack # <<>>, Head(stack).kind \in {"publishStart", "publish"},
         NEW g \in Frame, g.kind = "publish", g.msg = lastCall, g.left = <<>>,
         stack' = <<g>> \o Tail(stack), UNCHANGED <<outgoing, delivered, lastCall>>,
         \A s \in Subscribers :
           /\ Increasing(indices'[s])
           /\ \A k \in 1 .. Len(indices'[s]) :
                \/ indices'[s][k] < Len(outgoing) /\ Until(delivered[s], outgoing[indices'[s][k] + 1])
                \/ indices'[s][k] = Len(outgoing) /\ g.used /\ s \notin g.todo
  PROVE  OrderInv' /\ stack' \in Seq(Frame)
<1> DEFINE r == Tail(stack)
<1>1. /\ r \in Seq(Frame) /\ Apart(r) /\ lastCall > 0 /\ Until(outgoing, lastCall)
      /\ \A h \in Frames(r) : h.left = <<>> /\ h.kind \notin OfCall
      /\ \A s \in Subscribers : Until(delivered[s], lastCall)
  BY OnlyCall
<1> HIDE DEF r
<1>2. /\ stack' = <<g>> \o r /\ stack' \in Seq(Frame) /\ Tail(stack') = r
      /\ Frames(stack') = Frames(r) \cup {g}
  <2>1. stack' = <<g>> \o r
    BY DEF r
  <2>2. /\ <<g>> \o r \in Seq(Frame) /\ Tail(<<g>> \o r) = r
        /\ Frames(<<g>> \o r) = Frames(r) \cup {g}
    BY <1>1, PushElements, FramesPush
  <2> QED BY <2>1, <2>2
<1>3. Apart(stack')
  <2>1. \A h \in Frames(r) : Due(h) = {}
    BY <1>1 DEF Due, OfCall
  <2>2. Apart(<<g>> \o r)
    BY <1>1, <2>1, ApartPush
  <2> QED BY <1>2, <2>2
<1>4. LeftInv'
  BY <1>1, <1>2 DEF LeftInv
<1>5. CallInv'
  <2>1. \A h \in Frames(stack') : h.kind \in OfCall => h = g
    BY <1>1, <1>2
  <2>2. \A s \in Due(g) \ {NoSub} : s \in Subscribers
    BY DEF Due
  <2> QED BY <1>1, <1>3, <2>1, <2>2 DEF CallInv
<1>6. BoxInv'
  <2>1. ASSUME NEW s \in Subscribers PROVE Waits(s, indices[s])'
    <3>1. g.used /\ s \notin g.todo => Reached(s)'
      BY <1>2 DEF Reached
    <3> QED BY <3>1 DEF Waits
  <2>2. \A h \in Frames(stack') : h.left = <<>>
    BY <1>1, <1>2
  <2> QED BY <2>1, <2>2 DEF BoxInv
<1>7. MessagesInv'
  BY ReadyParts DEF MessagesInv
<1> QED BY <1>2, <1>4, <1>5, <1>6, <1>7 DEF OrderInv

\* The publish enters its loop.
LEMMA OrderStart ==
  ASSUME Ready, StartIterating
  PROVE  OrderInv'
<1> DEFINE f == Head(stack)
           g == [f EXCEPT !.kind = "publish", !.todo = members[f.topic]]
<1>1. stack # <<>> /\ f.kind = "publishStart" /\ UNCHANGED <<indices, outgoing, delivered, lastCall>>
  BY DEF StartIterating, Running, listVars, sockets
<1>2. CASE UNCHANGED stack
  <2>1. Restacked /\ stack' \in Seq(Frame) /\ Fewest
    BY <1>1, <1>2, ReadyParts, SameStack DEF Fewest
  <2> QED BY <1>1, <2>1, ReadyParts, KeptOrder
<1>3. CASE f.topic \in topics /\ stack' = <<g>> \o Tail(stack)
  <2>1. f \in Frame /\ f \in FrameRecord /\ f.left = <<>> /\ f.msg = lastCall
    BY <1>1, ReadyParts, HeadFrame, OnlyCall
  <2>2. f.topic \in Topics /\ members[f.topic] \in SUBSET Subscribers
    BY <1>3, ReadyParts DEF TypeOK
  <2>3. g \in Frame /\ g.kind = "publish" /\ g.left = <<>> /\ g.msg = lastCall
    <3> DEFINE M == members[f.topic]
    <3>1. M \in SUBSET Subscribers
      BY <2>2
    <3> HIDE DEF M
    <3>2. /\ [f EXCEPT !.kind = "publish", !.todo = M] \in Frame
          /\ [f EXCEPT !.kind = "publish", !.todo = M].kind = "publish"
          /\ [f EXCEPT !.kind = "publish", !.todo = M].left = <<>>
          /\ [f EXCEPT !.kind = "publish", !.todo = M].msg = lastCall
      BY <2>1, <2>2, <3>1 DEF Frame, FrameRecord, Handles, Walks, Drains
    <3> QED BY <3>2 DEF M
  <2> HIDE DEF g
  <2>4. \A h \in Frames(stack) : h.kind # "publish"
    BY <1>1, OnlyCall DEF OfCall
  <2>5. \A s \in Subscribers : Waits(s, indices[s]) /\ ~Reached(s)
    BY <2>4, ReadyParts DEF BoxInv, Reached
  <2>6. ASSUME NEW s \in Subscribers
        PROVE  /\ Increasing(indices'[s])
               /\ \A k \in 1 .. Len(indices'[s]) :
                    \/ indices'[s][k] < Len(outgoing) /\ Until(delivered[s], outgoing[indices'[s][k] + 1])
                    \/ indices'[s][k] = Len(outgoing) /\ g.used /\ s \notin g.todo
    BY <1>1, <2>5 DEF Waits
  <2> QED BY <1>1, <1>3, <2>3, <2>6, Walking
<1> QED BY <1>2, <1>3 DEF StartIterating, Top, Below

\* One more index is the greatest.
LEMMA IncreasingAppend ==
  ASSUME NEW q \in Seq(Nat), NEW n \in Nat, Increasing(q), Until(q, n)
  PROVE  Increasing(Append(q, n))
<1> DEFINE w == Append(q, n)
<1>1. /\ Len(q) \in Nat /\ Len(w) = Len(q) + 1 /\ w[Len(q) + 1] = n
      /\ \A i \in 1 .. Len(q) : w[i] = q[i] /\ q[i] \in Nat
  OBVIOUS
<1> HIDE DEF w
<1>2. ASSUME NEW i \in 1 .. Len(w), NEW j \in 1 .. Len(w), i < j PROVE w[i] < w[j]
  <2>1. i \in 1 .. Len(q)
    BY <1>1, <1>2
  <2>2. CASE j \in 1 .. Len(q)
    BY <1>1, <1>2, <2>1, <2>2 DEF Increasing
  <2>3. CASE j = Len(q) + 1
    BY <1>1, <2>1, <2>3 DEF Until
  <2> QED BY <1>1, <2>2, <2>3
<1>3. Increasing(w)
  BY <1>2 DEF Increasing
<1> QED BY <1>3 DEF w

\* The next index is the one the message of the publish will have.
LEMMA NextFits ==
  ASSUME Ready
  PROVE  NextIndex = Len(outgoing) /\ Len(outgoing) \in Nat
<1>1. Len(outgoing) \in Nat /\ Len(outgoing) <= MaxOutgoing /\ MaxOutgoing \in Nat
  BY ReadyParts, OrderTypes, TopicTreeAssumption DEF Ready, QueueFits
<1>2. \A n, m \in Nat : n <= m => n % (m + 1) = n
  OBVIOUS
<1> QED BY <1>1, <1>2 DEF NextIndex

\* A subscriber is given one index by a publish.
LEMMA OrderReference ==
  ASSUME Ready, stack # <<>>, Head(stack).kind = "publish",
         NEW s \in Head(stack).todo, Reference(Head(stack), s),
         UNCHANGED <<outgoing, delivered, lastCall>>
  PROVE  OrderInv' /\ stack' \in Seq(Frame)
<1> DEFINE f == Head(stack)
           g == [f EXCEPT !.todo = f.todo \ {s}, !.cur = NoSub, !.used = TRUE]
           q == indices[s]
           n == Len(outgoing)
<1>1. /\ indices' = [indices EXCEPT ![s] = Append(q, n)]
      /\ stack' = <<g>> \o Tail(stack) /\ n \in Nat
  BY NextFits DEF Reference, Top, Below
<1>2. f \in Frame /\ f \in FrameRecord /\ f.left = <<>> /\ f.msg = lastCall /\ s \in Subscribers
  <2>1. f \in Frame /\ f \in FrameRecord /\ f.left = <<>> /\ f.msg = lastCall
    BY ReadyParts, HeadFrame, OnlyCall
  <2> QED BY <2>1 DEF FrameRecord
<1>3. /\ g \in Frame /\ g.kind = "publish" /\ g.left = <<>> /\ g.msg = lastCall
      /\ g.used /\ g.todo = f.todo \ {s}
  BY <1>2 DEF Frame, FrameRecord, Handles, Walks, Drains
<1> HIDE DEF g
<1>4. \A h \in Frames(stack) : h.kind = "publish" => h = f
  BY OnlyCall DEF OfCall
<1>5. \A x : Reached(x) => f.used /\ x \notin f.todo
  BY <1>4 DEF Reached
<1>6. indices \in [Subscribers -> Seq(0 .. MaxOutgoing)] /\ q \in Seq(Nat)
  BY <1>2, ReadyParts, OrderTypes, IndexList
<1>7. \A x \in Subscribers : Waits(x, indices[x])
  BY ReadyParts DEF BoxInv
<1>8. Increasing(q) /\ Until(q, n)
      /\ \A k \in 1 .. Len(q) : q[k] < n /\ Until(delivered[s], outgoing[q[k] + 1])
  <2>1. ~Reached(s)
    BY <1>5
  <2> QED BY <1>2, <1>7, <2>1 DEF Waits, Until
<1>9. ASSUME NEW x \in Subscribers
      PROVE  /\ Increasing(indices'[x])
             /\ \A k \in 1 .. Len(indices'[x]) :
                  \/ indices'[x][k] < Len(outgoing) /\ Until(delivered[x], outgoing[indices'[x][k] + 1])
                  \/ indices'[x][k] = Len(outgoing) /\ g.used /\ x \notin g.todo
  <2>1. CASE x = s
    <3> DEFINE w == Append(q, n)
    <3>1. indices'[x] = w
      BY <1>1, <1>2, <1>6, <2>1
    <3>2. Increasing(w)
      BY <1>1, <1>6, <1>8, IncreasingAppend
    <3>3. /\ Len(q) \in Nat /\ Len(w) = Len(q) + 1 /\ w[Len(q) + 1] = n
          /\ \A k \in 1 .. Len(q) : w[k] = q[k]
      BY <1>1, <1>6
    <3> HIDE DEF w
    <3>4. ASSUME NEW k \in 1 .. Len(w)
          PROVE  \/ w[k] < n /\ Until(delivered[s], outgoing[w[k] + 1])
                 \/ w[k] = n /\ g.used /\ s \notin g.todo
      <4>1. k \in 1 .. Len(q) \/ k = Len(q) + 1
        BY <3>3
      <4> QED BY <1>3, <1>8, <3>3, <4>1
    <3> QED BY <2>1, <3>1, <3>2, <3>4
  <2>2. CASE x # s
    <3>1. indices'[x] = indices[x]
      BY <1>1, <1>6, <2>2
    <3>2. Reached(x) => g.used /\ x \notin g.todo
      BY <1>3, <1>5, <2>2
    <3> QED BY <1>7, <3>1, <3>2 DEF Waits
  <2> QED BY <2>1, <2>2
<1> HIDE DEF n
<1> QED BY <1>1, <1>3, <1>9, Walking

\* publishBig skips a member, or sends to it.
LEMMA QuietVisitBig ==
  ASSUME Ready, PublishBigVisit
  PROVE  \E s \in Subscribers :
           /\ Restacked /\ Fewest /\ stack' \in Seq(Frame)
           /\ UNCHANGED <<outgoing, delivered, lastCall>>
           /\ \/ UNCHANGED indices /\ \A g \in Frames(stack') : g.left = <<>>
              \/ /\ \E rest : Base(rest) /\ BeginDrain(s, rest)
                 /\ indices' = [indices EXCEPT ![s] = <<>>]
<1> DEFINE f == Head(stack)
           g(s) == [f EXCEPT !.todo = f.todo \ {s}]
           base(s) == <<g(s)>> \o Tail(stack)
           c(s) == SendFrame(s, f.msg)
           d(s) == DroppedFrame(s)
<1>1. /\ stack # <<>> /\ f.kind = "publishBig" /\ f.kind \in Walks /\ f.kind \in OfCall
      /\ UNCHANGED <<outgoing, delivered, lastCall>>
  BY DEF PublishBigVisit, Running, Walks, OfCall, sockets
<1>2. PICK s \in f.todo :
        \/ stack' = base(s) /\ UNCHANGED listVars
        \/ BeginSend(s, f.msg, base(s))
  BY DEF PublishBigVisit, Top, Below
<1>3. f \in Frame /\ f \in FrameRecord /\ f \in Frames(stack) /\ s \in Subscribers /\ Due(f) = f.todo
  <2>1. f \in Frame /\ f \in FrameRecord /\ f \in Frames(stack) /\ Due(f) = f.todo
    BY <1>1, ReadyParts, HeadFrame, FramesSplit DEF Due
  <2> QED BY <1>2, <2>1 DEF FrameRecord
<1>4. s # NoSub /\ f.msg = lastCall /\ lastCall > 0 /\ Until(outgoing, lastCall) /\ Until(delivered[s], lastCall)
  <2>1. s \in Due(f) \ {NoSub} /\ s # NoSub
    BY <1>2, <1>3, TopicTreeAssumption
  <2> QED BY <1>1, <1>3, <2>1, ReadyParts DEF CallInv
<1>5. Base(base(s))
  BY <1>1, <1>3, VisitBase
<1>6. ASSUME NEW h \in Frames(base(s)) PROVE s \notin Due(h)
  <2>1. g(s) \in Frame /\ g(s).kind = "publishBig" /\ g(s).todo = f.todo \ {s}
    BY <1>1, <1>3 DEF Frame, FrameRecord, Handles, Walks, Drains
  <2> HIDE DEF g
  <2>2. Tail(stack) \in Seq(Frame) /\ \A x \in Frames(Tail(stack)) : Due(f) \cap Due(x) = {}
    BY <1>1, ReadyParts, FramesSplit, ApartSplit DEF CallInv
  <2>3. Frames(base(s)) = Frames(Tail(stack)) \cup {g(s)}
    BY <2>1, <2>2, FramesPush
  <2>4. s \notin Due(g(s))
    BY <2>1 DEF Due
  <2> QED BY <1>2, <1>3, <1>6, <2>2, <2>3, <2>4
<1>7. c(s) \in Frame /\ c(s).kind = "send" /\ c(s).msg = f.msg /\ c(s).left = <<>> /\ c(s).sub = s
  <2>1. f.msg \in 0 .. MaxCalls
    BY <1>3 DEF FrameRecord
  <2> QED BY <1>3, <2>1, ReadyParts, NewFrames DEF SendFrame, Blank
<1>8. d(s) \in Frame /\ Fresh(d(s)) /\ d(s).left = <<>>
  BY <1>3, ReadyParts, NewFrames, FreshFrames
<1>9. indices \in [Subscribers -> Seq(0 .. MaxOutgoing)]
  BY ReadyParts, OrderTypes
<1> HIDE DEF base, c, d, f
<1>10. ASSUME Base(stack'), UNCHANGED indices
       PROVE  /\ Restacked /\ Fewest /\ stack' \in Seq(Frame)
              /\ \A h \in Frames(stack') : h.left = <<>>
  BY <1>1, <1>10, BaseSame DEF Base, Fewest
<1>11. CASE stack' = base(s) /\ UNCHANGED listVars
  <2>1. UNCHANGED indices
    BY <1>11 DEF listVars
  <2> QED BY <1>1, <1>3, <1>5, <1>10, <1>11, <2>1
<1>12. CASE stack' = <<d(s)>> \o base(s) /\ UNCHANGED listVars
  <2>1. UNCHANGED indices
    BY <1>12 DEF listVars
  <2>2. Base(stack')
    BY <1>5, <1>8, <1>12, BasePush
  <2> QED BY <1>1, <1>3, <1>10, <2>1, <2>2
<1>13. ASSUME indices'[s] = <<>> PROVE Base(<<c(s)>> \o base(s))
  <2>1. Sends(c(s))
    BY <1>4, <1>7, <1>13 DEF Sends
  <2> QED BY <1>5, <1>6, <1>7, <2>1, BaseSend
<1>14. CASE BeginDrain(s, <<c(s)>> \o base(s))
  <2>1. indices' = [indices EXCEPT ![s] = <<>>]
    BY <1>14 DEF BeginDrain
  <2>2. indices'[s] = <<>>
    BY <1>3, <1>9, <2>1
  <2>3. Base(<<c(s)>> \o base(s))
    BY <1>13, <2>2
  <2>4. Restacked /\ stack' \in Seq(Frame)
    BY <1>3, <1>14, <2>3, DrainRestacked
  <2>5. Fewest
    BY <1>1, <1>3, <1>9, <2>1 DEF Fewest
  <2> QED BY <1>1, <1>3, <1>14, <2>1, <2>3, <2>4, <2>5
<1>15. CASE ~Behind(s) /\ stack' = <<c(s)>> \o base(s) /\ UNCHANGED listVars
  <2>1. UNCHANGED indices /\ indices[s] = <<>>
    BY <1>15 DEF listVars, Behind, NeedsDrainage
  <2>2. Base(stack')
    BY <1>13, <1>15, <2>1
  <2> QED BY <1>1, <1>3, <1>10, <2>1, <2>2
<1>16. BeginSend(s, f.msg, base(s)) =>
         \/ stack' = <<d(s)>> \o base(s) /\ UNCHANGED listVars
         \/ BeginDrain(s, <<c(s)>> \o base(s))
         \/ ~Behind(s) /\ stack' = <<c(s)>> \o base(s) /\ UNCHANGED listVars
  BY DEF BeginSend, c, d
<1> QED BY <1>2, <1>11, <1>12, <1>14, <1>15, <1>16

\* The message of a publish enters the queue when its walk is over.
LEMMA OrderPublished ==
  ASSUME Ready, FinishPublish
  PROVE  OrderInv' /\ (\A g \in Frames(stack') : g.left = <<>> /\ g.kind \notin OfCall)
                   /\ stack' \in Seq(Frame)
<1> DEFINE f == Head(stack)
           r == Tail(stack)
<1>1. /\ stack # <<>> /\ f.kind = "publish" /\ LeaveDraining(r)
      /\ outgoing' = IF f.used THEN Append(outgoing, f.msg) ELSE outgoing
      /\ UNCHANGED <<indices, delivered, lastCall>>
  BY DEF FinishPublish, Running, Below, listVars, sockets
<1>2. /\ f \in Frame /\ r \in Seq(Frame) /\ Frames(stack) = Frames(r) \cup {f}
      /\ Apart(r) /\ \A g \in Frames(r) : g.left = <<>> /\ g.kind \notin OfCall
      /\ f.msg = lastCall /\ lastCall > 0 /\ Until(outgoing, lastCall)
      /\ \A s \in Subscribers : Until(delivered[s], lastCall)
  BY <1>1, OnlyCall
<1>3. /\ outgoing \in Seq(0 .. MaxCalls) /\ Len(outgoing) \in Nat
      /\ lastCall \in 0 .. MaxCalls /\ lastCall \in Nat
      /\ indices \in [Subscribers -> Seq(0 .. MaxOutgoing)]
  BY ReadyParts, OrderTypes
<1> HIDE DEF r
<1>4. /\ stack' \in Seq(Frame) /\ Apart(stack')
      /\ \A g \in Frames(stack') : g.left = <<>> /\ g.kind \notin OfCall
  <2>1. CASE stack' = r
    BY <1>2, <2>1
  <2>2. CASE stack' = <<ApplyFrame>> \o r
    <3>1. ApplyFrame \in Frame /\ ApplyFrame.left = <<>> /\ ApplyFrame.kind \notin OfCall
      BY ReadyParts, NewFrames DEF ApplyFrame, Blank, OfCall
    <3>2. Due(ApplyFrame) = {}
      BY <3>1 DEF Due, OfCall
    <3>3. /\ <<ApplyFrame>> \o r \in Seq(Frame) /\ Apart(<<ApplyFrame>> \o r)
          /\ Frames(<<ApplyFrame>> \o r) = Frames(r) \cup {ApplyFrame}
      BY <1>2, <3>1, <3>2, PushElements, FramesPush, ApartPush
    <3> QED BY <1>2, <2>2, <3>1, <3>3
  <2> QED BY <1>1, <2>1, <2>2 DEF LeaveDraining
<1>5. LeftInv'
  <2>1. stack' # <<>> => Frames(Tail(stack')) \subseteq Frames(stack')
    BY <1>4, FramesSplit
  <2> QED BY <1>4, <2>1 DEF LeftInv
<1>6. CallInv'
  BY <1>4 DEF CallInv
<1>7. \A s \in Subscribers : Waits(s, indices[s])
  BY ReadyParts DEF BoxInv
<1>8. \A s : Reached(s) => f.used
  BY <1>2 DEF Reached, OfCall
<1>9. CASE f.used
  <2>1. /\ outgoing' = Append(outgoing, lastCall) /\ outgoing' = outgoing \o <<lastCall>>
        /\ Len(outgoing') = Len(outgoing) + 1 /\ outgoing'[Len(outgoing) + 1] = lastCall
        /\ \A i \in 1 .. Len(outgoing) : outgoing'[i] = outgoing[i]
    BY <1>1, <1>2, <1>3, <1>9
  <2>2. ASSUME NEW s \in Subscribers PROVE Waits(s, indices[s])'
    <3>1. ASSUME NEW k \in 1 .. Len(indices[s])
          PROVE  indices[s][k] < Len(outgoing') /\ Until(delivered[s], outgoing'[indices[s][k] + 1])
      <4>1. indices[s][k] \in Nat
        BY <1>3, TopicTreeAssumption
      <4>2. CASE indices[s][k] < Len(outgoing) /\ Until(delivered[s], outgoing[indices[s][k] + 1])
        <5>1. indices[s][k] + 1 \in 1 .. Len(outgoing)
          BY <1>3, <4>1, <4>2
        <5>2. outgoing'[indices[s][k] + 1] = outgoing[indices[s][k] + 1]
          BY <2>1, <5>1
        <5> QED BY <1>3, <2>1, <4>1, <4>2, <5>2
      <4>3. CASE indices[s][k] = Len(outgoing)
        <5>1. outgoing'[indices[s][k] + 1] = lastCall
          BY <2>1, <4>3
        <5> QED BY <1>2, <1>3, <2>1, <4>3, <5>1
      <4> QED BY <1>7, <4>2, <4>3 DEF Waits
    <3> QED BY <1>1, <1>7, <3>1 DEF Waits
  <2>3. BoxInv'
    BY <1>4, <2>2 DEF BoxInv
  <2>4. Increasing(outgoing') /\ Until(outgoing', lastCall + 1)
    <3>1. lastCall < lastCall + 1 /\ lastCall + 1 \in Int /\ Increasing(outgoing)
      BY <1>3, ReadyParts DEF MessagesInv
    <3>2. Increasing(outgoing \o <<lastCall>>) /\ Until(outgoing \o <<lastCall>>, lastCall + 1)
      BY <1>2, <1>3, <3>1, AppendedOne
    <3> QED BY <2>1, <3>2
  <2>5. MessagesInv'
    BY <1>1, <2>4, ReadyParts DEF MessagesInv
  <2> QED BY <1>4, <1>5, <1>6, <2>3, <2>5 DEF OrderInv
<1>10. CASE ~f.used
  <2>1. outgoing' = outgoing
    BY <1>1, <1>10
  <2>2. \A s \in Subscribers : Waits(s, indices[s])'
    BY <1>1, <1>7, <1>8, <1>10, <2>1 DEF Waits
  <2>3. BoxInv'
    BY <1>4, <2>2 DEF BoxInv
  <2>4. MessagesInv'
    BY <1>1, <2>1, ReadyParts DEF MessagesInv
  <2> QED BY <1>4, <1>5, <1>6, <2>3, <2>4 DEF OrderInv
<1> QED BY <1>9, <1>10

-----------------------------------------------------------------------------
(* The invariant holds.                                                    *)

\* Nothing is queued or written at first.
LEMMA OrderInit == Init => OrderInv
<1> SUFFICES ASSUME Init PROVE OrderInv
  OBVIOUS
<1>1. /\ stack = <<>> /\ outgoing = <<>>
      /\ \A s \in Subscribers : indices[s] = <<>> /\ delivered[s] = <<>>
  BY DEF Init
<1>2. Frames(stack) = {} /\ Apart(stack)
  BY <1>1 DEF Frames, Apart
<1>3. \A s \in Subscribers : Waits(s, indices[s])
  BY <1>1, Nothing
<1>4. LeftInv /\ CallInv /\ BoxInv
  BY <1>1, <1>2, <1>3 DEF LeftInv, CallInv, BoxInv
<1>5. MessagesInv
  BY <1>1, Nothing DEF MessagesInv
<1> QED BY <1>4, <1>5 DEF OrderInv

\* Every step keeps the invariant.
LEMMA OrderStep ==
  ASSUME Ready, TypeOK', ListInv', [Next]_vars
  PROVE  OrderInv'
<1>1. ASSUME Restacked, Fewest, stack' \in Seq(Frame), UNCHANGED <<delivered, lastCall>>
      PROVE  OrderInv'
  BY <1>1, ReadyParts, KeptOrder
<1>2. CASE \/ \E s \in Subscribers, t \in Topics : (Subscribe(s, t) /\ Live(s)) \/ Unsubscribe(s, t)
           \/ \E s \in Subscribers : Close(s) \/ Writable(s)
           \/ FreePending \/ UNCHANGED vars
  <2>1. Restacked /\ Fewest /\ UNCHANGED <<stack, outgoing, delivered, lastCall>>
    BY <1>2, QuietOutside
  <2> QED BY <1>1, <2>1, ReadyParts
<1>3. CASE \E s \in Subscribers, t \in Topics : Subscribe(s, t) /\ ~Live(s)
  BY <1>3, OrderRenew
<1>4. CASE \E s \in Subscribers \cup {NoSub}, t \in Topics : Publish(s, t) \/ PublishBig(s, t)
  BY <1>4, PublishBegins
<1>5. CASE \E s \in Subscribers : Send(s) \/ End(s)
  BY <1>5, SendBegins, OrderEnd
<1>6. CASE LoopDrain \/ HandlerReturn \/ FinishApply \/ FinishPublishBig
  BY <1>1, <1>6, QuietFrames
<1>7. CASE FinishDrain \/ FinishDrainAll
  BY <1>1, <1>7, QuietDrains
<1>8. CASE DrainNext
  BY <1>1, <1>8, QuietWalk
<1>9. CASE ApplyOp
  BY <1>1, <1>9, QuietApply
<1>10. CASE PublishVisit
  <2>1. stack # <<>> /\ Head(stack).kind = "publish" /\ UNCHANGED <<outgoing, delivered, lastCall>>
    BY <1>10 DEF PublishVisit, Running, sockets
  <2> QED BY <1>1, <1>10, <2>1, QuietVisit, OrderReference
<1>11. CASE PublishBigVisit
  BY <1>1, <1>11, QuietVisitBig
<1>12. CASE DrainMessage \/ FinishSend \/ StartIterating \/ FinishPublish
  BY <1>12, OrderDrain, OrderSend, OrderStart, OrderPublished
<1> QED BY <1>2, <1>3, <1>4, <1>5, <1>6, <1>7, <1>8, <1>9, <1>10, <1>11, <1>12
        DEF Next, Step, Loop, Application, Library

\* Without publish and send in the handlers, nothing is applied out of order.
LEMMA OutsideKeeps == SendsOutside => KeepsOrder
  BY DEF SendsOutside, KeepsOrder

\* The applications that send from event handlers only.
LEMMA ReadyOutside ==
  ASSUME SendsOutside, IInv, PointerInv, OrderInv, QueueFits
  PROVE  Ready
<1>1. handlerCalls \in Applications
  BY DEF IInv, TypeOK
<1> QED BY <1>1 DEF SendsOutside, Ready

\* The invariant holds while the queue fits its indices.
LEMMA OrderHolds == ASSUME SendsOutside PROVE Spec /\ []QueueFits => [](IInv /\ PointerInv /\ OrderInv)
<1>1. Spec => [](IInv /\ PointerInv)
  BY OutsideKeeps, PointersHold
<1>2. /\ IInv /\ PointerInv /\ OrderInv /\ QueueFits
      /\ IInv' /\ PointerInv' /\ [Next]_vars
      => OrderInv'
  <2> SUFFICES ASSUME IInv, PointerInv, OrderInv, QueueFits, IInv', PointerInv', [Next]_vars
               PROVE  OrderInv'
    OBVIOUS
  <2>1. Ready
    BY ReadyOutside
  <2>2. TypeOK' /\ ListInv'
    BY DEF IInv, PointerInv
  <2> QED BY <2>1, <2>2, OrderStep
<1> QED BY <1>1, <1>2, OrderInit, PTL DEF Spec

\* Whatever else handlers close, end and subscribe while messages are drained,
\* every WebSocket is written what was published and sent to it in call order,
\* nothing twice (TopicTree.h:105-122 and 290-375; "to stay synced",
\* WebSocket.h:119).
THEOREM WrittenInOrder == ASSUME SendsOutside PROVE Spec /\ []QueueFits => []DeliveredInCallOrder
<1>1. IInv /\ OrderInv => DeliveredInCallOrder
  <2> SUFFICES ASSUME IInv, OrderInv, NEW s \in Subscribers,
                      NEW i \in DOMAIN delivered[s], NEW j \in DOMAIN delivered[s], i < j
               PROVE  delivered[s][i] < delivered[s][j]
    BY DEF DeliveredInCallOrder
  <2>1. DOMAIN delivered[s] = 1 .. Len(delivered[s])
    BY OrderTypes DEF IInv
  <2> QED BY <2>1 DEF OrderInv, MessagesInv, Increasing
<1> QED BY <1>1, OrderHolds, PTL

\* The queue holds at most what was called.
LEMMA QueueBound ==
  ASSUME TypeOK, OrderInv
  PROVE  Len(outgoing) <= lastCall + 1
<1>1. /\ Len(outgoing) \in Nat /\ lastCall \in Nat
      /\ \A i \in 1 .. Len(outgoing) : outgoing[i] \in Nat
  BY OrderTypes, TopicTreeAssumption
<1>2. Increasing(outgoing) /\ Until(outgoing, lastCall + 1)
  BY DEF OrderInv, MessagesInv
<1> DEFINE S == {i \in 1 .. Len(outgoing) : outgoing[i] < i - 1}
<1>3. S = {}
  <2> SUFFICES ASSUME S # {} PROVE FALSE
    OBVIOUS
  <2>1. S \in SUBSET Nat
    BY <1>1
  <2>2. PICK m \in S : \A n \in S : m <= n
    BY <2>1, LeastNatural
  <2>3. m \in 1 .. Len(outgoing) /\ outgoing[m] < m - 1 /\ m # 1
    BY <1>1, <2>2
  <2>4. m - 1 \in 1 .. Len(outgoing) /\ m - 1 < m /\ m - 1 \notin S
    BY <1>1, <2>2, <2>3
  <2>5. outgoing[m - 1] < outgoing[m]
    BY <1>2, <2>3, <2>4 DEF Increasing
  <2>6. ~(outgoing[m - 1] < (m - 1) - 1)
    BY <2>4
  <2> QED BY <1>1, <2>3, <2>4, <2>5, <2>6
<1>4. CASE outgoing = <<>>
  BY <1>1, <1>4
<1>5. CASE outgoing # <<>>
  <2>1. Len(outgoing) \in 1 .. Len(outgoing)
    BY <1>1, <1>5
  <2>2. ~(outgoing[Len(outgoing)] < Len(outgoing) - 1) /\ outgoing[Len(outgoing)] < lastCall + 1
    BY <1>2, <1>3, <2>1 DEF Until
  <2> QED BY <1>1, <2>1, <2>2
<1> QED BY <1>4, <1>5

\* The queue cannot outgrow its indices in fewer calls than it has room for.
LEMMA FewCallsFit == ASSUME SendsOutside, MaxCalls < MaxOutgoing PROVE Spec => []QueueFits
<1>1. Spec => [](IInv /\ PointerInv)
  BY OutsideKeeps, PointersHold
<1>2. IInv /\ OrderInv => QueueFits
  <2> SUFFICES ASSUME IInv, OrderInv PROVE QueueFits
    OBVIOUS
  <2>1. TypeOK /\ Len(outgoing) \in Nat /\ lastCall \in 0 .. MaxCalls
    BY OrderTypes DEF IInv
  <2>2. Len(outgoing) <= lastCall + 1
    BY <2>1, QueueBound
  <2> QED BY <2>1, <2>2, TopicTreeAssumption DEF QueueFits
<1>3. IInv /\ PointerInv /\ OrderInv /\ IInv' /\ PointerInv' /\ [Next]_vars => OrderInv'
  <2> SUFFICES ASSUME IInv, PointerInv, OrderInv, IInv', PointerInv', [Next]_vars PROVE OrderInv'
    OBVIOUS
  <2>1. Ready
    BY <1>2, ReadyOutside
  <2>2. TypeOK' /\ ListInv'
    BY DEF IInv, PointerInv
  <2> QED BY <2>1, <2>2, OrderStep
<1> QED BY <1>1, <1>2, <1>3, OrderInit, PTL DEF Spec

-----------------------------------------------------------------------------
(* The mailboxes.                                                          *)

\* The indices of s, or what is left of them when s is being drained.
HeldIn(st, ix, s) ==
  IF st # <<>> /\ Head(st).sub = s /\ Head(st).left # <<>> THEN Head(st).left ELSE ix[s]

\* The messages that the indices q refer to; c is being published.
Box(q, out, c) == [k \in 1 .. Len(q) |-> IF q[k] < Len(out) THEN out[q[k] + 1] ELSE c]

MailOf(st, ix, out) == [s \in Subscribers |-> Box(HeldIn(st, ix, s), out, CurrentOf(st))]

\* The messages of a mailbox, one by one.
LEMMA BoxFields ==
  ASSUME NEW q \in Seq(Nat), NEW out \in Seq(0 .. MaxCalls), NEW c \in 0 .. MaxCalls
  PROVE  /\ Box(q, out, c) \in Seq(0 .. MaxCalls)
         /\ Len(Box(q, out, c)) = Len(q) /\ Len(q) \in Nat
         /\ \A k \in 1 .. Len(q) :
              Box(q, out, c)[k] = IF q[k] < Len(out) THEN out[q[k] + 1] ELSE c
         /\ q = <<>> => Box(q, out, c) = <<>>
<1> DEFINE b == Box(q, out, c)
<1>1. \A k \in 1 .. Len(q) : (IF q[k] < Len(out) THEN out[q[k] + 1] ELSE c) \in 0 .. MaxCalls
  <2>1. ASSUME NEW k \in 1 .. Len(q), q[k] < Len(out) PROVE out[q[k] + 1] \in 0 .. MaxCalls
    <3> DEFINE n == q[k]
               l == Len(out)
    <3>1. n \in Nat /\ l \in Nat /\ n < l
      BY <2>1
    <3> HIDE DEF n, l
    <3>2. n + 1 \in 1 .. l
      BY <3>1
    <3>3. \A i \in 1 .. Len(out) : out[i] \in 0 .. MaxCalls
      BY TopicTreeAssumption
    <3> QED BY <3>2, <3>3 DEF n, l
  <2> QED BY <2>1
<1>2. Len(q) \in Nat
  OBVIOUS
<1>3. b \in Seq(0 .. MaxCalls) /\ Len(b) = Len(q)
  BY <1>1, <1>2, SeqDef DEF Box
<1>4. \A k \in 1 .. Len(q) : b[k] = IF q[k] < Len(out) THEN out[q[k] + 1] ELSE c
  BY DEF Box
<1> HIDE DEF b
<1>5. q = <<>> => b = <<>>
  BY <1>3
<1> QED BY <1>2, <1>3, <1>4, <1>5 DEF b

\* Only the newest frame has something to write, to a subscriber without indices.
LEMMA HeldOf ==
  ASSUME NEW st \in Seq(Frame), NEW ix \in [Subscribers -> Seq(0 .. MaxOutgoing)],
         NEW s \in Subscribers,
         \A f \in Frames(st) : f.left # <<>> => ix[f.sub] = <<>>,
         st # <<>> => \A f \in Frames(Tail(st)) : f.left = <<>>
  PROVE  LeftOf(st, s) \o ix[s] = HeldIn(st, ix, s) /\ HeldIn(st, ix, s) \in Seq(Nat)
<1>1. LeftOf(st, s) = IF st # <<>> /\ Head(st).sub = s THEN Head(st).left ELSE <<>>
  BY LeftOfTop
<1>2. ix[s] \in Seq(Nat)
  <2> DEFINE q == ix[s]
  <2>1. q \in Seq(0 .. MaxOutgoing)
    OBVIOUS
  <2> HIDE DEF q
  <2>2. /\ Len(q) \in Nat /\ \A i \in 1 .. Len(q) : q[i] \in Nat
        /\ q = [i \in 1 .. Len(q) |-> q[i]]
    BY <2>1, TopicTreeAssumption
  <2>3. q \in Seq(Nat)
    BY <2>2, SeqDef
  <2> QED BY <2>3 DEF q
<1>3. CASE st # <<>> /\ Head(st).sub = s /\ Head(st).left # <<>>
  <2>1. Head(st) \in Frame /\ Head(st) \in Frames(st)
    BY <1>3, FramesSplit
  <2>2. Head(st).left \in Seq(Nat) /\ ix[s] = <<>>
    BY <1>3, <2>1 DEF Frame, FrameRecord
  <2>3. Head(st).left \o <<>> = Head(st).left
    BY <2>2
  <2> QED BY <1>1, <1>3, <2>2, <2>3 DEF HeldIn
<1>4. CASE ~(st # <<>> /\ Head(st).sub = s /\ Head(st).left # <<>>)
  <2>1. LeftOf(st, s) = <<>> /\ HeldIn(st, ix, s) = ix[s]
    BY <1>1, <1>4 DEF HeldIn
  <2>2. <<>> \o ix[s] = ix[s]
    BY <1>2
  <2> QED BY <1>2, <2>1, <2>2
<1> QED BY <1>3, <1>4

\* The mailboxes in terms of the newest frame.
LEMMA MailIs ==
  /\ current = CurrentOf(stack) /\ current' = CurrentOf(stack')
  /\ TypeOK /\ OrderInv => mail = MailOf(stack, indices, outgoing)
  /\ TypeOK' /\ OrderInv' => mail' = MailOf(stack', indices', outgoing')
<1>1. current = CurrentOf(stack) /\ current' = CurrentOf(stack')
  BY DEF current, CurrentOf
<1>2. /\ \A s : Left(s) = LeftOf(stack, s)
      /\ mail = [s \in Subscribers |-> Box(LeftOf(stack, s) \o indices[s], outgoing, CurrentOf(stack))]
  BY <1>1 DEF mail, Left, LeftOf, Resolve, Box
<1>3. /\ \A s : Left(s)' = LeftOf(stack', s)
      /\ mail' = [s \in Subscribers |-> Box(LeftOf(stack', s) \o indices'[s], outgoing', CurrentOf(stack'))]
  BY <1>1 DEF mail, Left, LeftOf, Resolve, Box
<1>4. ASSUME TypeOK, OrderInv PROVE mail = MailOf(stack, indices, outgoing)
  <2>1. \A s \in Subscribers : LeftOf(stack, s) \o indices[s] = HeldIn(stack, indices, s)
    BY <1>4, HeldOf DEF TypeOK, OrderInv, LeftInv
  <2> QED BY <1>2, <2>1 DEF MailOf
<1>5. ASSUME TypeOK', OrderInv' PROVE mail' = MailOf(stack', indices', outgoing')
  <2>1. \A s \in Subscribers : LeftOf(stack', s) \o indices'[s] = HeldIn(stack', indices', s)
    BY <1>5, HeldOf DEF TypeOK, OrderInv, LeftInv
  <2> QED BY <1>3, <2>1 DEF MailOf
<1> QED BY <1>1, <1>4, <1>5

\* An empty mailbox.
LEMMA BoxEmpty == \A out, c : Box(<<>>, out, c) = <<>>
  BY DEF Box

\* A mailbox that is not touched.
LEMMA MailAt ==
  ASSUME NEW s \in Subscribers, HeldIn(stack', indices', s) = HeldIn(stack, indices, s),
         \/ outgoing' = outgoing /\ CurrentOf(stack') = CurrentOf(stack)
         \/ HeldIn(stack, indices, s) = <<>>
  PROVE  MailOf(stack', indices', outgoing')[s] = MailOf(stack, indices, outgoing)[s]
  BY BoxEmpty DEF MailOf

\* The walk of a publish stays where it is.
LEMMA CurrentKept ==
  ASSUME Ready, Restacked, stack' \in Seq(Frame)
  PROVE  CurrentOf(stack') = CurrentOf(stack)
<1>1. stack \in Seq(Frame) /\ Apart(stack) /\ Apart(stack')
  BY ReadyParts DEF CallInv, Restacked
<1>2. CASE \E f \in Frames(stack) : f.kind = "publish"
  <2>1. PICK f \in Frames(stack) : f.kind = "publish"
    BY <1>2
  <2>2. PICK g \in Frames(stack') : Fewer(g, f)
    BY <2>1 DEF Restacked
  <2>3. g.kind = "publish" /\ g.msg = f.msg
    BY <2>1, <2>2 DEF Fewer
  <2>4. CurrentOf(stack) = f.msg
    BY <1>1, <2>1, CurrentOfPublish
  <2>5. CurrentOf(stack') = g.msg
    BY <1>1, <2>2, <2>3, CurrentOfPublish
  <2> QED BY <2>3, <2>4, <2>5
<1>3. CASE \A f \in Frames(stack) : f.kind # "publish"
  <2>1. \A g \in Frames(stack') : g.kind # "publish"
    BY <1>3 DEF Restacked, Stems, Fresh, OfCall, Sends, Fewer
  <2> QED BY <1>1, <1>3, <2>1, CurrentOfNone
<1> QED BY <1>2, <1>3

\* What both states of a step say of the mailboxes.
LEMMA ReadyMail ==
  ASSUME Ready, TypeOK', OrderInv'
  PROVE  /\ mail = MailOf(stack, indices, outgoing) /\ mail' = MailOf(stack', indices', outgoing')
         /\ current = CurrentOf(stack) /\ current' = CurrentOf(stack')
         /\ DOMAIN mail = Subscribers /\ DOMAIN mail' = Subscribers
         /\ mail = [s \in Subscribers |-> mail[s]] /\ mail' = [s \in Subscribers |-> mail'[s]]
<1>1. mail = MailOf(stack, indices, outgoing) /\ mail' = MailOf(stack', indices', outgoing')
  BY ReadyParts, MailIs
<1> QED BY <1>1, MailIs DEF MailOf

\* Steps that neither write nor post.
LEMMA QuietMail ==
  ASSUME Ready, TypeOK', OrderInv', Restacked, Fewest, UNCHANGED <<delivered, lastCall>>,
         \A s \in Subscribers : HeldIn(stack', indices', s) = HeldIn(stack, indices, s)
  PROVE  UNCHANGED Boxes!boxes
<1>1. CurrentOf(stack') = CurrentOf(stack)
  BY CurrentKept DEF TypeOK
<1>2. ASSUME NEW s \in Subscribers PROVE mail'[s] = mail[s]
  <2>1. CASE outgoing' = outgoing
    BY <1>1, <2>1, MailAt, ReadyMail
  <2>2. CASE indices'[s] = <<>> /\ \A g \in Frames(stack') : g.left = <<>>
    <3>1. stack' # <<>> => Head(stack') \in Frames(stack')
      BY FramesSplit DEF TypeOK
    <3>2. HeldIn(stack', indices', s) = <<>>
      BY <2>2, <3>1 DEF HeldIn
    <3> QED BY <3>2, MailAt, ReadyMail
  <2> QED BY <2>1, <2>2 DEF Fewest
<1>3. mail' = mail
  BY <1>2, ReadyMail
<1> QED BY <1>1, <1>3, ReadyMail DEF Boxes!boxes

\* Nothing is left to write, before and after.
LEMMA HeldSame ==
  ASSUME Ready, stack' \in Seq(Frame), UNCHANGED indices,
         stack # <<>> => Head(stack).left = <<>>,
         \A g \in Frames(stack') : g.left = <<>>
  PROVE  \A s \in Subscribers : HeldIn(stack', indices', s) = HeldIn(stack, indices, s)
<1>1. stack' # <<>> => Head(stack') \in Frames(stack')
  BY FramesSplit
<1> QED BY <1>1 DEF HeldIn

\* The indices of s become what is left to write of them.
LEMMA HeldMoved ==
  ASSUME Ready, NEW s \in Subscribers, indices' = [indices EXCEPT ![s] = <<>>],
         stack # <<>> => Head(stack).left = <<>>,
         stack' # <<>>, Head(stack').sub = s, Head(stack').left = indices[s]
  PROVE  \A x \in Subscribers : HeldIn(stack', indices', x) = HeldIn(stack, indices, x)
<1>1. indices \in [Subscribers -> Seq(0 .. MaxOutgoing)]
  BY ReadyParts, OrderTypes
<1>2. indices'[s] = <<>> /\ \A x \in Subscribers : x # s => indices'[x] = indices[x]
  BY <1>1
<1> QED BY <1>2 DEF HeldIn

\* Steps that touch nothing that the mailboxes are made of.
LEMMA SameBoxes ==
  ASSUME UNCHANGED <<stack, indices, outgoing, delivered>>
  PROVE  UNCHANGED Boxes!boxes
<1>1. mail' = mail
  BY DEF mail, Left, current, Resolve
<1>2. current' = current
  BY DEF current
<1> QED BY <1>1, <1>2 DEF Boxes!boxes

\* Frames that come and go, and walks that go on.
LEMMA BoxesQuiet ==
  ASSUME Ready, TypeOK', OrderInv', ListInv',
         \/ LoopDrain \/ HandlerReturn \/ FinishApply \/ FinishPublishBig
         \/ FinishDrain \/ FinishDrainAll \/ ApplyOp
  PROVE  UNCHANGED Boxes!boxes
<1>1. stack # <<>> => Head(stack).left = <<>>
  BY NothingLeft DEF LoopDrain, Idle, HandlerReturn, FinishApply, FinishPublishBig, FinishDrain,
                     FinishDrainAll, ApplyOp, Running
<1>2. /\ Restacked /\ Fewest /\ stack' \in Seq(Frame)
      /\ UNCHANGED <<indices, delivered, lastCall>>
      /\ \A g \in Frames(stack') : g.left = <<>>
  BY QuietFrames, QuietDrains, QuietApply
<1> QED BY <1>1, <1>2, HeldSame, QuietMail

\* A drain begins.
LEMMA BoxesBegin ==
  ASSUME Ready, NEW s \in Subscribers, NEW rest, Base(rest), BeginDrain(s, rest),
         stack # <<>> => Head(stack).left = <<>>
  PROVE  \A x \in Subscribers : HeldIn(stack', indices', x) = HeldIn(stack, indices, x)
<1>1. /\ indices' = [indices EXCEPT ![s] = <<>>] /\ stack' = <<DrainFrame(s)>> \o rest
      /\ rest \in Seq(Frame) /\ DrainFrame(s) \in Frame
  BY ReadyParts, NewFrames DEF BeginDrain, Base
<1>2. DrainFrame(s).sub = s /\ DrainFrame(s).left = indices[s]
  BY DEF DrainFrame, Blank
<1> DEFINE d == DrainFrame(s)
<1> HIDE DEF d
<1>3. stack' # <<>> /\ Head(stack') = d
  <2>1. stack' = <<d>> \o rest /\ d \in Frame
    BY <1>1 DEF d
  <2> QED BY <1>1, <2>1, PushElements
<1> QED BY <1>1, <1>2, <1>3, HeldMoved DEF d

\* The walk over the list takes the indices of the next subscriber.
LEMMA BoxesWalk ==
  ASSUME Ready, TypeOK', OrderInv', DrainNext
  PROVE  UNCHANGED Boxes!boxes
<1>1. stack # <<>> /\ Head(stack).left = <<>>
  BY DEF DrainNext, Running
<1>2. /\ Restacked /\ Fewest /\ UNCHANGED <<delivered, lastCall>>
      /\ Head(stack).cur \in Subscribers /\ stack' # <<>>
      /\ Head(stack').sub = Head(stack).cur /\ Head(stack').left = indices[Head(stack).cur]
      /\ indices' = [indices EXCEPT ![Head(stack).cur] = <<>>]
  BY QuietWalk
<1>3. \A x \in Subscribers : HeldIn(stack', indices', x) = HeldIn(stack, indices, x)
  BY <1>1, <1>2, HeldMoved
<1> QED BY <1>2, <1>3, QuietMail

\* A walk over the members of a topic that posts nothing.
LEMMA BoxesVisits ==
  ASSUME Ready, TypeOK', OrderInv', PublishVisit \/ PublishBigVisit,
         ~(PublishVisit /\ \E s \in Head(stack).todo : Reference(Head(stack), s))
  PROVE  UNCHANGED Boxes!boxes
<1>1. stack # <<>> => Head(stack).left = <<>>
  BY NothingLeft DEF PublishVisit, PublishBigVisit, Running
<1>2. PICK s \in Subscribers :
           /\ Restacked /\ Fewest /\ stack' \in Seq(Frame)
           /\ UNCHANGED <<outgoing, delivered, lastCall>>
           /\ \/ UNCHANGED indices /\ \A g \in Frames(stack') : g.left = <<>>
              \/ /\ \E rest : Base(rest) /\ BeginDrain(s, rest)
                 /\ indices' = [indices EXCEPT ![s] = <<>>]
  BY QuietVisit, QuietVisitBig
<1>3. \A x \in Subscribers : HeldIn(stack', indices', x) = HeldIn(stack, indices, x)
  <2>1. CASE UNCHANGED indices /\ \A g \in Frames(stack') : g.left = <<>>
    BY <1>1, <1>2, <2>1, HeldSame
  <2>2. CASE \E rest : Base(rest) /\ BeginDrain(s, rest)
    BY <1>1, <2>2, BoxesBegin
  <2> QED BY <1>2, <2>1, <2>2
<1> QED BY <1>2, <1>3, QuietMail

\* The messages in a mailbox.
LEMMA MailTypes ==
  ASSUME Ready, NEW s \in Subscribers
  PROVE  LET h == HeldIn(stack, indices, s)
             m == MailOf(stack, indices, outgoing)[s]
         IN  /\ h \in Seq(Nat) /\ Len(h) \in Nat
             /\ m \in Seq(0 .. MaxCalls) /\ Len(m) = Len(h)
             /\ \A k \in 1 .. Len(h) :
                  m[k] = IF h[k] < Len(outgoing) THEN outgoing[h[k] + 1] ELSE CurrentOf(stack)
             /\ CurrentOf(stack) \in 0 .. MaxCalls
             /\ Waits(s, h)
<1> DEFINE h == HeldIn(stack, indices, s)
           c == CurrentOf(stack)
<1>1. h \in Seq(Nat)
  BY ReadyParts, HeldOf DEF TypeOK, LeftInv
<1>2. c \in 0 .. MaxCalls
  <2>1. CASE \E f \in Frames(stack) : f.kind = "publish"
    <3>1. PICK f \in Frames(stack) : f.kind = "publish"
      BY <2>1
    <3>2. c = f.msg
      BY <3>1, ReadyParts, CurrentOfPublish DEF CallInv
    <3> QED BY <3>2, ReadyParts DEF Frame, FrameRecord
  <2>2. CASE \A f \in Frames(stack) : f.kind # "publish"
    <3>1. c = 0
      BY <2>2, ReadyParts, CurrentOfNone
    <3> QED BY <3>1, TopicTreeAssumption
  <2> QED BY <2>1, <2>2
<1>3. Waits(s, h)
  <2>1. CASE h = indices[s]
    BY <2>1, ReadyParts DEF BoxInv
  <2>2. CASE h # indices[s]
    <3>1. stack # <<>> /\ Head(stack).sub = s /\ h = Head(stack).left /\ Head(stack).left # <<>>
      BY <2>2 DEF HeldIn
    <3>2. Head(stack) \in Frames(stack)
      BY <3>1, ReadyParts, FramesSplit
    <3> QED BY <3>1, <3>2, ReadyParts DEF BoxInv
  <2> QED BY <2>1, <2>2
<1>4. outgoing \in Seq(0 .. MaxCalls) /\ MailOf(stack, indices, outgoing)[s] = Box(h, outgoing, c)
  BY ReadyParts, OrderTypes DEF MailOf
<1> HIDE DEF h, c
<1>5. /\ Box(h, outgoing, c) \in Seq(0 .. MaxCalls) /\ Len(Box(h, outgoing, c)) = Len(h) /\ Len(h) \in Nat
      /\ \A k \in 1 .. Len(h) :
           Box(h, outgoing, c)[k] = IF h[k] < Len(outgoing) THEN outgoing[h[k] + 1] ELSE c
  BY <1>1, <1>2, <1>4, BoxFields
<1> QED BY <1>1, <1>2, <1>3, <1>4, <1>5 DEF h, c

\* All that waits for s is given up.
LEMMA MailEmptied ==
  ASSUME Ready, TypeOK', OrderInv', NEW s \in Subscribers, HeldIn(stack', indices', s) = <<>>,
         \A x \in Subscribers : x # s => mail'[x] = mail[x]
  PROVE  mail' = [mail EXCEPT ![s] = <<>>]
<1>1. mail'[s] = <<>>
  BY ReadyMail, BoxEmpty DEF MailOf
<1> QED BY <1>1, ReadyMail

\* What waits for s is given up, and nothing else changes.
LEMMA GivenUp ==
  ASSUME Ready, TypeOK', OrderInv', NEW s \in Subscribers, HeldIn(stack', indices', s) = <<>>,
         \A x \in Subscribers : x # s => HeldIn(stack', indices', x) = HeldIn(stack, indices, x),
         UNCHANGED <<outgoing, delivered, lastCall>>, Restacked
  PROVE  Boxes!Deliver(s)
<1>1. current' = current /\ CurrentOf(stack') = CurrentOf(stack)
  BY CurrentKept, ReadyMail DEF TypeOK
<1>2. mail' = [mail EXCEPT ![s] = <<>>]
  BY <1>1, MailAt, ReadyMail, MailEmptied
<1>4. Len(mail[s]) \in Nat
  BY ReadyMail, MailTypes
<1>5. delivered' = [delivered EXCEPT ![s] = delivered[s] \o SubSeq(mail[s], 1, 0)]
  <2>1. SubSeq(mail[s], 1, 0) = <<>>
    OBVIOUS
  <2>2. delivered[s] \o <<>> = delivered[s] /\ delivered \in [Subscribers -> Seq(0 .. MaxCalls)]
    BY ReadyParts, OrderTypes
  <2> QED BY <2>1, <2>2
<1>6. 0 \in 0 .. Len(mail[s])
  BY <1>4
<1> QED BY <1>1, <1>2, <1>5, <1>6 DEF Boxes!Deliver

\* A socket that closes gives up what waits for it.
LEMMA BoxesClose ==
  ASSUME Ready, TypeOK', OrderInv', NEW s \in Subscribers, Close(s)
  PROVE  Boxes!Deliver(s)
<1>1. /\ Restacked /\ UNCHANGED <<stack, outgoing, delivered, lastCall>>
      /\ stack # <<>> => Head(stack).left = <<>>
  BY QuietOutside, NothingLeft DEF Close, MayCall, Idle, Running
<1>2. indices' = [indices EXCEPT ![s] = <<>>] /\ indices'[s] = <<>>
  BY ReadyParts, FreeEmpties DEF Close
<1>3. \A x \in Subscribers : x # s => indices'[x] = indices[x]
  BY <1>2, ReadyParts, OrderTypes
<1>4. /\ HeldIn(stack', indices', s) = <<>>
      /\ \A x \in Subscribers : x # s => HeldIn(stack', indices', x) = HeldIn(stack, indices, x)
  BY <1>1, <1>2, <1>3 DEF HeldIn
<1> QED BY <1>1, <1>4, GivenUp

\* Nothing waits for a new WebSocket.
LEMMA BoxesRenew ==
  ASSUME Ready, NEW s \in Subscribers, NEW t \in Topics, Subscribe(s, t), ~Live(s)
  PROVE  Boxes!Renew(s)
<1>1. /\ UNCHANGED <<stack, indices, outgoing>> /\ delivered' = [delivered EXCEPT ![s] = <<>>]
      /\ stack # <<>> => Head(stack).left = <<>>
  BY NothingLeft DEF Subscribe, listVars, MayCall, Idle, Running
<1>2. indices[s] = <<>>
  BY ReadyParts DEF Live, FreedInv
<1>3. HeldIn(stack, indices, s) = <<>>
  BY <1>1, <1>2 DEF HeldIn
<1>4. mail[s] = <<>>
  BY <1>3, ReadyParts, MailIs, BoxEmpty DEF MailOf
<1>5. UNCHANGED <<mail, current>>
  <2>1. mail' = mail
    BY <1>1 DEF mail, Left, current, Resolve
  <2>2. current' = current
    BY <1>1 DEF current
  <2> QED BY <2>1, <2>2
<1> QED BY <1>1, <1>4, <1>5 DEF Boxes!Renew

\* A call begins, maybe with a drain.
LEMMA CallBoxes ==
  ASSUME Ready, TypeOK', OrderInv', stack = <<>>, UNCHANGED <<outgoing, delivered>>,
         NEW c \in Frame, c.kind # "publish", c.left = <<>>, NEW h \in Frame, h.kind # "publish",
         stack' \in {<<c>> \o stack, <<h>> \o (<<c>> \o stack)},
         \/ UNCHANGED indices /\ h.left = <<>>
         \/ /\ stack' = <<h>> \o (<<c>> \o stack) /\ h.sub \in Subscribers
            /\ h.left = indices[h.sub] /\ indices' = [indices EXCEPT ![h.sub] = <<>>]
  PROVE  UNCHANGED Boxes!boxes
<1> DEFINE r == <<c>> \o stack
           up == <<h>> \o r
<1>1. stack \in Seq(Frame) /\ Frames(stack) = {}
  BY ReadyParts, FramesTypes
<1>2. r \in Seq(Frame) /\ Frames(r) = {c}
  <2>1. r \in Seq(Frame)
    BY <1>1, PushElements
  <2>2. Frames(r) = Frames(stack) \cup {c}
    BY <1>1, FramesPush
  <2> QED BY <1>1, <2>1, <2>2
<1> HIDE DEF r
<1>3. up \in Seq(Frame) /\ Frames(up) = {c, h} /\ up # <<>> /\ Head(up) = h
  BY <1>2, PushElements, FramesPush
<1> HIDE DEF up
<1>4. stack' \in {r, up}
  BY DEF r, up
<1>5. stack' \in Seq(Frame) /\ Frames(stack') \subseteq {c, h}
  BY <1>2, <1>3, <1>4
<1>6. CurrentOf(stack) = 0 /\ CurrentOf(stack') = 0
  <2>1. \A f \in Frames(stack) : f.kind # "publish"
    BY <1>1
  <2>2. \A f \in Frames(stack') : f.kind # "publish"
    BY <1>5
  <2> QED BY <1>1, <1>5, <2>1, <2>2, CurrentOfNone
<1>7. \A x \in Subscribers : HeldIn(stack', indices', x) = HeldIn(stack, indices, x)
  <2>1. CASE UNCHANGED indices /\ h.left = <<>>
    BY <1>5, <2>1, HeldSame
  <2>2. CASE /\ stack' = up /\ h.sub \in Subscribers
             /\ h.left = indices[h.sub] /\ indices' = [indices EXCEPT ![h.sub] = <<>>]
    BY <1>3, <2>2, HeldMoved
  <2> QED BY <2>1, <2>2 DEF r, up
<1>8. mail' = mail
  <2>1. \A x \in Subscribers : mail'[x] = mail[x]
    BY <1>6, <1>7, MailAt, ReadyMail
  <2> QED BY <2>1, ReadyMail
<1> QED BY <1>6, <1>8, ReadyMail DEF Boxes!boxes

\* A call begins: nothing is posted or written yet.
LEMMA BoxesCalls ==
  ASSUME Ready, TypeOK', OrderInv',
         \/ \E s \in Subscribers \cup {NoSub}, t \in Topics : Publish(s, t) \/ PublishBig(s, t)
         \/ \E s \in Subscribers : Send(s)
  PROVE  UNCHANGED Boxes!boxes
<1>1. /\ stack = <<>> /\ UNCHANGED <<outgoing, delivered>> /\ lastCall + 1 \in 0 .. MaxCalls
      /\ drainingDepth = 0
  <2>1. stack = <<>> /\ UNCHANGED <<outgoing, delivered>> /\ lastCall + 1 \in 0 .. MaxCalls
    BY ReadyParts, TopicTreeAssumption DEF Ready, Publish, PublishBig, Send, MayCall, Idle, TypeOK
  <2> QED BY <2>1, SoundTypes DEF Ready, IInv, StackInv
<1>2. /\ DrainAllFrame \in Frame /\ DrainAllFrame.kind # "publish" /\ DrainAllFrame.left = <<>>
  BY ReadyParts, NewFrames DEF DrainAllFrame, Blank
<1>3. ASSUME NEW s \in Subscribers \cup {NoSub}, NEW t \in Topics, Publish(s, t) \/ PublishBig(s, t)
      PROVE  UNCHANGED Boxes!boxes
  <2> DEFINE c == PublishFrame("publishStart", s, t, lastCall + 1)
             p == PublishFrame("publishBig", s, t, lastCall + 1)
             b == [p EXCEPT !.todo = members[t]]
  <2>1. c \in Frame /\ c.kind # "publish" /\ c.left = <<>>
    BY <1>1, PublishFrames DEF Walks, PublishFrame, Blank
  <2>2. b \in Frame /\ b.kind # "publish" /\ b.left = <<>>
    <3>1. members[t] \in SUBSET Subscribers
      BY ReadyParts DEF TypeOK
    <3>2. p \in Frame /\ p.kind = "publishBig" /\ p.left = <<>>
      BY <1>1, PublishFrames DEF Walks, PublishFrame, Blank
    <3> HIDE DEF p
    <3> QED BY <3>1, <3>2 DEF Frame, FrameRecord, Handles, Walks, Drains
  <2>3. UNCHANGED indices
    BY <1>3 DEF Publish, PublishBig, listVars
  <2>4. stack' \in {<<c>> \o stack, <<DrainAllFrame>> \o (<<c>> \o stack), <<b>> \o stack}
    BY <1>1, <1>3 DEF Publish, PublishBig, BeginPublish, Push
  <2> HIDE DEF c, b
  <2> QED BY <1>1, <1>2, <2>1, <2>2, <2>3, <2>4, CallBoxes
<1>4. ASSUME NEW s \in Subscribers, Send(s)
      PROVE  UNCHANGED Boxes!boxes
  <2> DEFINE c == SendFrame(s, lastCall + 1)
             d == DroppedFrame(s)
             h == DrainFrame(s)
  <2>1. /\ c \in Frame /\ c.kind # "publish" /\ c.left = <<>>
        /\ d \in Frame /\ d.kind # "publish" /\ d.left = <<>>
        /\ h \in Frame /\ h.kind # "publish" /\ h.sub = s /\ h.left = indices[s]
    BY <1>1, ReadyParts, NewFrames DEF SendFrame, DroppedFrame, DrainFrame, Blank
  <2>2. \/ stack' = <<d>> \o stack /\ UNCHANGED indices
        \/ stack' = <<c>> \o stack /\ UNCHANGED indices
        \/ stack' = <<h>> \o (<<c>> \o stack) /\ indices' = [indices EXCEPT ![s] = <<>>]
    BY <1>4 DEF Send, BeginSend, BeginDrain, listVars
  <2> HIDE DEF c, d, h
  <2> QED BY <1>1, <2>1, <2>2, CallBoxes
<1> QED BY <1>3, <1>4

\* Nothing that waits is still being published: the walk may begin or end.
LEMMA MailSettled ==
  ASSUME Ready, TypeOK', OrderInv',
         \A s \in Subscribers : HeldIn(stack', indices', s) = HeldIn(stack, indices, s),
         \A s \in Subscribers : \A k \in 1 .. Len(HeldIn(stack, indices, s)) :
           HeldIn(stack, indices, s)[k] < Len(outgoing),
         outgoing' = outgoing
  PROVE  mail' = mail
<1>1. ASSUME NEW s \in Subscribers PROVE mail'[s] = mail[s]
  <2> DEFINE h == HeldIn(stack, indices, s)
  <2>1. HeldIn(stack', indices', s) = h /\ \A k \in 1 .. Len(h) : h[k] < Len(outgoing)
    OBVIOUS
  <2> HIDE DEF h
  <2>2. Box(h, outgoing', CurrentOf(stack')) = Box(h, outgoing, CurrentOf(stack))
    BY <2>1 DEF Box
  <2> QED BY <2>1, <2>2, ReadyMail DEF MailOf, h
<1> QED BY <1>1, ReadyMail

\* The walk of a publish begins.
LEMMA BoxesStart ==
  ASSUME Ready, TypeOK', OrderInv', StartIterating
  PROVE  Boxes!Publish \/ UNCHANGED Boxes!boxes
<1> DEFINE f == Head(stack)
           g == [f EXCEPT !.kind = "publish", !.todo = members[f.topic]]
           r == Tail(stack)
<1>1. /\ stack # <<>> /\ f.kind = "publishStart" /\ UNCHANGED <<indices, outgoing, delivered, lastCall>>
      /\ stack' = <<g>> \o r \/ UNCHANGED stack
  BY DEF StartIterating, Running, listVars, sockets, Top, Below
<1>2. CASE UNCHANGED stack
  BY <1>1, <1>2, SameBoxes
<1>3. CASE stack' = <<g>> \o r
  <2>1. /\ f \in FrameRecord /\ f.left = <<>> /\ f.msg = lastCall /\ lastCall > 0
        /\ r \in Seq(Frame) /\ \A h \in Frames(r) : h.left = <<>> /\ h.kind \notin OfCall
        /\ Frames(stack) = Frames(r) \cup {f}
    BY <1>1, ReadyParts, HeadFrame, OnlyCall
  <2>2. g.kind = "publish" /\ g.left = <<>> /\ g.msg = lastCall
    BY <2>1 DEF FrameRecord
  <2>3. stack' \in Seq(Frame) /\ stack' # <<>> /\ Head(stack') = g /\ Head(stack') \in Frames(stack')
    <3>1. stack' \in Seq(Frame)
      BY DEF TypeOK
    <3> HIDE DEF g
    <3>2. stack' # <<>> /\ Head(stack') = g
      BY <1>3, <2>1
    <3> QED BY <3>1, <3>2, FramesSplit
  <2> HIDE DEF g, r
  <2>4. CurrentOf(stack') = lastCall
    <3>1. Apart(stack')
      BY DEF OrderInv, CallInv
    <3> QED BY <2>2, <2>3, <3>1, CurrentOfPublish
  <2>5. \A s \in Subscribers : HeldIn(stack', indices', s) = HeldIn(stack, indices, s)
    BY <1>1, <2>1, <2>2, <2>3 DEF HeldIn
  <2>6. \A s : ~Reached(s)
    BY <1>1, <2>1 DEF Reached, OfCall
  <2>7. \A s \in Subscribers : \A k \in 1 .. Len(HeldIn(stack, indices, s)) :
           HeldIn(stack, indices, s)[k] < Len(outgoing)
    BY <2>6, MailTypes DEF Waits
  <2>8. mail' = mail
    BY <1>1, <2>5, <2>7, MailSettled
  <2>9. lastCall \in Boxes!Message
    BY <2>1, ReadyParts, OrderTypes, TopicTreeAssumption DEF Boxes!Message
  <2> QED BY <1>1, <2>4, <2>8, <2>9, ReadyMail DEF Boxes!Publish
<1> QED BY <1>1, <1>2, <1>3

\* A publish ends: its message is in the queue for those that have an index.
LEMMA BoxesPublished ==
  ASSUME Ready, TypeOK', OrderInv', FinishPublish
  PROVE  Boxes!Publish
<1> DEFINE f == Head(stack)
<1>1. /\ stack # <<>> /\ f.kind = "publish" /\ f.kind \in OfCall
      /\ outgoing' = IF f.used THEN Append(outgoing, f.msg) ELSE outgoing
      /\ UNCHANGED <<indices, delivered, lastCall>>
  BY DEF FinishPublish, Running, Below, OfCall, listVars, sockets
<1>2. /\ f \in Frames(stack) /\ Frames(stack) = Frames(Tail(stack)) \cup {f}
      /\ \A g \in Frames(Tail(stack)) : g.kind \notin OfCall
      /\ f.left = <<>> /\ f.msg = lastCall
  BY <1>1, OnlyCall
<1>3. CurrentOf(stack) = lastCall
  BY <1>1, <1>2, ReadyParts, CurrentOfPublish DEF CallInv
<1>4. stack' \in Seq(Frame) /\ \A g \in Frames(stack') : g.left = <<>> /\ g.kind \notin OfCall
  BY OrderPublished
<1>5. CurrentOf(stack') = 0
  <2>1. \A g \in Frames(stack') : g.kind # "publish"
    BY <1>4 DEF OfCall
  <2> QED BY <1>4, <2>1, CurrentOfNone
<1>6. \A s \in Subscribers : HeldIn(stack', indices', s) = HeldIn(stack, indices, s)
  BY <1>1, <1>2, <1>4, HeldSame
<1>7. mail' = mail
  <2>1. CASE f.used
    <3>1. /\ outgoing \in Seq(0 .. MaxCalls) /\ Len(outgoing) \in Nat
          /\ lastCall \in 0 .. MaxCalls
      BY ReadyParts, OrderTypes
    <3>2. /\ Len(outgoing') = Len(outgoing) + 1 /\ outgoing'[Len(outgoing) + 1] = lastCall
          /\ \A i \in 1 .. Len(outgoing) : outgoing'[i] = outgoing[i]
      BY <1>1, <1>2, <2>1, <3>1
    <3>3. ASSUME NEW s \in Subscribers PROVE mail'[s] = mail[s]
      <4> DEFINE h == HeldIn(stack, indices, s)
      <4>1. HeldIn(stack', indices', s) = h /\ h \in Seq(Nat) /\ Waits(s, h)
        BY <1>6, MailTypes
      <4> HIDE DEF h
      <4>2. ASSUME NEW k \in 1 .. Len(h)
            PROVE  (IF h[k] < Len(outgoing') THEN outgoing'[h[k] + 1] ELSE 0)
                     = (IF h[k] < Len(outgoing) THEN outgoing[h[k] + 1] ELSE lastCall)
        <5>1. h[k] \in Nat
          BY <4>1
        <5>2. CASE h[k] < Len(outgoing)
          <6>1. h[k] + 1 \in 1 .. Len(outgoing)
            BY <3>1, <5>1, <5>2
          <6> QED BY <3>1, <3>2, <5>1, <5>2, <6>1
        <5>3. CASE h[k] = Len(outgoing)
          BY <3>1, <3>2, <5>1, <5>3
        <5> QED BY <4>1, <5>2, <5>3 DEF Waits
      <4>3. Box(h, outgoing', 0) = Box(h, outgoing, lastCall)
        BY <4>2 DEF Box
      <4> QED BY <1>3, <1>5, <4>1, <4>3, ReadyMail DEF MailOf, h
    <3> QED BY <3>3, ReadyMail
  <2>2. CASE ~f.used
    <3>1. \A s : ~Reached(s)
      BY <1>2, <2>2 DEF Reached, OfCall
    <3>2. \A s \in Subscribers : \A k \in 1 .. Len(HeldIn(stack, indices, s)) :
             HeldIn(stack, indices, s)[k] < Len(outgoing)
      BY <3>1, MailTypes DEF Waits
    <3> QED BY <1>1, <1>6, <2>2, <3>2, MailSettled
  <2> QED BY <2>1, <2>2
<1> QED BY <1>1, <1>5, <1>7, ReadyMail DEF Boxes!Publish

\* Messages of both sequences are older than m.
LEMMA NewerBoth ==
  ASSUME NEW q \in Seq(0 .. MaxCalls), NEW p \in Seq(0 .. MaxCalls), NEW m, Until(q, m), Until(p, m)
  PROVE  Boxes!Newer(m, q \o p)
<1> DEFINE w == q \o p
<1>1. /\ Len(q) \in Nat /\ Len(p) \in Nat /\ Len(w) = Len(q) + Len(p) /\ DOMAIN w = 1 .. Len(w)
      /\ \A i \in 1 .. Len(q) : w[i] = q[i]
      /\ \A i \in 1 .. Len(p) : w[Len(q) + i] = p[i]
  OBVIOUS
<1> HIDE DEF w
<1>2. ASSUME NEW i \in 1 .. Len(w) PROVE w[i] < m
  <2>1. CASE i <= Len(q)
    BY <1>1, <2>1 DEF Until
  <2>2. CASE i > Len(q)
    <3>1. i - Len(q) \in 1 .. Len(p) /\ Len(q) + (i - Len(q)) = i
      BY <1>1, <2>2
    <3>2. w[i] = p[i - Len(q)]
      BY <1>1, <3>1
    <3> QED BY <3>1, <3>2 DEF Until
  <2> QED BY <1>1, <2>1, <2>2
<1>3. Boxes!Newer(m, w)
  BY <1>1, <1>2 DEF Boxes!Newer
<1> QED BY <1>3 DEF w

\* One more index, of the message that is being published.
LEMMA BoxAppend ==
  ASSUME NEW q \in Seq(Nat), NEW out \in Seq(0 .. MaxCalls), NEW c \in 0 .. MaxCalls
  PROVE  Box(Append(q, Len(out)), out, c) = Append(Box(q, out, c), c)
<1> DEFINE n == Len(out)
           p == Append(q, n)
           b == Box(q, out, c)
           d == Box(p, out, c)
<1>1. n \in Nat /\ p \in Seq(Nat)
  OBVIOUS
<1>2. Len(q) \in Nat /\ Len(p) = Len(q) + 1 /\ p[Len(q) + 1] = n /\ \A k \in 1 .. Len(q) : p[k] = q[k]
  BY <1>1
<1>3. /\ b \in Seq(0 .. MaxCalls) /\ Len(b) = Len(q)
      /\ \A k \in 1 .. Len(q) : b[k] = IF q[k] < n THEN out[q[k] + 1] ELSE c
  BY BoxFields
<1> HIDE DEF p, n
<1>4. /\ d \in Seq(0 .. MaxCalls) /\ Len(d) = Len(p)
      /\ \A k \in 1 .. Len(p) : d[k] = IF p[k] < n THEN out[p[k] + 1] ELSE c
  BY <1>1, BoxFields DEF n
<1> HIDE DEF b, d
<1>5. /\ Append(b, c) \in Seq(0 .. MaxCalls) /\ Len(Append(b, c)) = Len(d)
      /\ Append(b, c)[Len(q) + 1] = c /\ \A k \in 1 .. Len(q) : Append(b, c)[k] = b[k]
  BY <1>2, <1>3, <1>4
<1>6. ASSUME NEW k \in 1 .. Len(d) PROVE d[k] = Append(b, c)[k]
  <2>1. CASE k \in 1 .. Len(q)
    BY <1>2, <1>3, <1>4, <1>5, <2>1
  <2>2. CASE k = Len(q) + 1
    <3>1. p[k] = n /\ ~(n < n) /\ k \in 1 .. Len(p)
      BY <1>1, <1>2, <2>2
    <3>2. d[k] = c
      BY <1>4, <3>1
    <3>3. Append(b, c)[k] = c
      BY <1>5, <2>2
    <3> QED BY <3>2, <3>3
  <2>3. Len(d) = Len(q) + 1 /\ Len(q) \in Nat
    BY <1>2, <1>4
  <2>4. k \in 1 .. Len(q) \/ k = Len(q) + 1
    BY <2>3
  <2> QED BY <2>1, <2>2, <2>4
<1> DEFINE e == Append(b, c)
<1>7. e \in Seq(0 .. MaxCalls) /\ Len(e) = Len(d) /\ \A k \in 1 .. Len(d) : d[k] = e[k]
  BY <1>5, <1>6
<1> HIDE DEF e
<1>8. d = e
  BY <1>4, <1>7
<1> QED BY <1>8 DEF b, d, e, p, n

\* A publish reaches a subscriber.
LEMMA BoxesReference ==
  ASSUME Ready, TypeOK', OrderInv', stack # <<>>, Head(stack).kind = "publish",
         NEW s \in Head(stack).todo, Reference(Head(stack), s),
         UNCHANGED <<outgoing, delivered, lastCall>>
  PROVE  s \in Subscribers /\ Boxes!Post(s)
<1> DEFINE f == Head(stack)
           g == [f EXCEPT !.todo = f.todo \ {s}, !.cur = NoSub, !.used = TRUE]
           r == Tail(stack)
           q == indices[s]
           c == lastCall
<1>1. /\ indices' = [indices EXCEPT ![s] = Append(q, Len(outgoing))]
      /\ stack' = <<g>> \o r
  BY NextFits DEF Reference, Top, Below
<1>2. /\ f \in FrameRecord /\ f.left = <<>> /\ f.msg = c /\ c > 0 /\ s \in Subscribers
      /\ r \in Seq(Frame) /\ Frames(stack) = Frames(r) \cup {f} /\ f \in Frames(stack)
      /\ \A h \in Frames(r) : h.left = <<>> /\ h.kind \notin OfCall
      /\ Until(outgoing, c) /\ \A x \in Subscribers : Until(delivered[x], c)
  <2>1. f \in FrameRecord
    BY ReadyParts, HeadFrame
  <2>2. s \in Subscribers
    BY <2>1 DEF FrameRecord
  <2> QED BY <2>1, <2>2, OnlyCall
<1>3. g.kind = "publish" /\ g.left = <<>> /\ g.msg = c
  BY <1>2 DEF FrameRecord
<1> HIDE DEF g
<1>4. stack' \in Seq(Frame) /\ stack' # <<>> /\ Head(stack') = g /\ g \in Frames(stack')
  <2>1. stack' \in Seq(Frame)
    BY DEF TypeOK
  <2>2. stack' # <<>> /\ Head(stack') = g
    BY <1>1, <1>2
  <2> QED BY <2>1, <2>2, FramesSplit
<1>5. CurrentOf(stack) = c /\ CurrentOf(stack') = c
  <2>1. Apart(stack) /\ Apart(stack') /\ stack \in Seq(Frame)
    BY ReadyParts DEF OrderInv, CallInv
  <2>2. CurrentOf(stack) = f.msg
    BY <1>2, <2>1, CurrentOfPublish
  <2>3. CurrentOf(stack') = g.msg
    BY <1>3, <1>4, <2>1, CurrentOfPublish
  <2> QED BY <1>2, <1>3, <2>2, <2>3
<1> HIDE DEF r
<1>6. /\ indices \in [Subscribers -> Seq(0 .. MaxOutgoing)] /\ outgoing \in Seq(0 .. MaxCalls)
      /\ c \in 0 .. MaxCalls /\ delivered[s] \in Seq(0 .. MaxCalls) /\ q \in Seq(Nat)
  <2>1. s \in Subscribers
    BY <1>2
  <2> QED BY <2>1, ReadyParts, OrderTypes, IndexList
<1>7. /\ HeldIn(stack, indices, s) = q /\ HeldIn(stack', indices', s) = Append(q, Len(outgoing))
      /\ \A x \in Subscribers : x # s => HeldIn(stack', indices', x) = HeldIn(stack, indices, x)
  <2>1. indices'[s] = Append(q, Len(outgoing)) /\ \A x \in Subscribers : x # s => indices'[x] = indices[x]
    BY <1>1, <1>2, <1>6
  <2> QED BY <1>2, <1>3, <1>4, <2>1 DEF HeldIn
<1>8. mail[s] = Box(q, outgoing, c) /\ mail'[s] = Append(mail[s], c)
  <2>1. mail[s] = Box(q, outgoing, c) /\ mail'[s] = Box(Append(q, Len(outgoing)), outgoing, c)
    BY <1>2, <1>5, <1>7, ReadyMail DEF MailOf
  <2> QED BY <1>6, <2>1, BoxAppend
<1>9. \A x \in Subscribers : x # s => mail'[x] = mail[x]
  BY <1>5, <1>7, MailAt, ReadyMail
<1>10. mail' = [mail EXCEPT ![s] = Append(mail[s], c)]
  BY <1>2, <1>8, <1>9, ReadyMail
<1>11. Until(mail[s], c) /\ mail[s] \in Seq(0 .. MaxCalls)
  <2>1. ~Reached(s)
    BY <1>2 DEF Reached, OfCall
  <2> DEFINE m == mail[s]
  <2>2. /\ Len(m) = Len(q) /\ m \in Seq(0 .. MaxCalls) /\ Waits(s, q)
        /\ \A k \in 1 .. Len(q) : m[k] = IF q[k] < Len(outgoing) THEN outgoing[q[k] + 1] ELSE CurrentOf(stack)
    BY <1>2, <1>7, ReadyMail, MailTypes
  <2> HIDE DEF m
  <2>3. ASSUME NEW k \in 1 .. Len(q) PROVE m[k] < c
    <3>1. q[k] < Len(outgoing) /\ q[k] \in Nat /\ Len(outgoing) \in Nat
      BY <1>6, <2>1, <2>2 DEF Waits
    <3>2. q[k] + 1 \in 1 .. Len(outgoing)
      BY <3>1
    <3> QED BY <1>2, <2>2, <3>1, <3>2 DEF Until
  <2>4. Until(m, c)
    BY <2>2, <2>3 DEF Until
  <2> QED BY <2>2, <2>4 DEF m
<1>12. Boxes!Newer(c, mail[s] \o delivered[s])
  BY <1>2, <1>6, <1>11, NewerBoth
<1>13. current = c /\ current' = c
  BY <1>5, ReadyMail
<1> QED BY <1>2, <1>10, <1>12, <1>13 DEF Boxes!Post

\* The first element of a sequence, and the others.
LEMMA SplitFirst ==
  ASSUME NEW S, NEW b \in Seq(S), b # <<>>
  PROVE  /\ SubSeq(b, 1, 1) = <<b[1]>>
         /\ SubSeq(b, 2, Len(b)) = Tail(b)
         /\ 1 \in 0 .. Len(b)
<1>1. Len(b) \in Nat /\ Len(b) > 0 /\ 1 \in 1 .. Len(b) /\ b[1] \in S
  OBVIOUS
<1>2. SubSeq(b, 2, Len(b)) = Tail(b)
  BY TailIsSubSeq
<1> DEFINE o == SubSeq(b, 1, 1)
<1>3. o \in Seq(S) /\ Len(o) = 1 /\ o[1] = b[1]
  BY <1>1
<1> HIDE DEF o
<1>4. /\ <<b[1]>> \in Seq(S) /\ Len(<<b[1]>>) = 1 /\ <<b[1]>>[1] = b[1]
  BY <1>1
<1>5. o = <<b[1]>>
  BY <1>3, <1>4, SeqEqual
<1> QED BY <1>1, <1>2, <1>5 DEF o

\* The oldest of some messages, and the others.
LEMMA BoxSplit ==
  ASSUME NEW q \in Seq(Nat), q # <<>>, NEW out \in Seq(0 .. MaxCalls), NEW c \in 0 .. MaxCalls
  PROVE  LET b == Box(q, out, c)
         IN  /\ Box(Tail(q), out, c) = SubSeq(b, 2, Len(b))
             /\ SubSeq(b, 1, 1) = <<b[1]>>
             /\ 1 \in 0 .. Len(b)
<1> DEFINE p == Tail(q)
           b == Box(q, out, c)
           d == Box(p, out, c)
           e == Tail(b)
<1>1. /\ p \in Seq(Nat) /\ Len(q) \in Nat /\ Len(q) > 0 /\ Len(p) = Len(q) - 1
      /\ \A k \in 1 .. Len(p) : k + 1 \in 1 .. Len(q) /\ p[k] = q[k + 1]
  OBVIOUS
<1>2. /\ b \in Seq(0 .. MaxCalls) /\ Len(b) = Len(q)
      /\ \A k \in 1 .. Len(q) : b[k] = IF q[k] < Len(out) THEN out[q[k] + 1] ELSE c
  BY BoxFields
<1> HIDE DEF p
<1>3. /\ d \in Seq(0 .. MaxCalls) /\ Len(d) = Len(p)
      /\ \A k \in 1 .. Len(p) : d[k] = IF p[k] < Len(out) THEN out[p[k] + 1] ELSE c
  BY <1>1, BoxFields
<1> HIDE DEF b, d
<1>4. b \in Seq(0 .. MaxCalls) /\ Len(b) = Len(q) /\ b # <<>>
  BY <1>1, <1>2
<1>5. e \in Seq(0 .. MaxCalls) /\ Len(e) = Len(b) - 1 /\ \A k \in 1 .. Len(e) : e[k] = b[k + 1]
  BY <1>4, HeadTailProperties
<1> HIDE DEF e
<1>6. d \in Seq(0 .. MaxCalls) /\ Len(d) = Len(e)
  BY <1>1, <1>3, <1>4, <1>5
<1>7. ASSUME NEW k \in 1 .. Len(d) PROVE d[k] = e[k]
  <2>1. k \in 1 .. Len(p) /\ k \in 1 .. Len(e)
    BY <1>3, <1>6
  <2>2. k + 1 \in 1 .. Len(q) /\ p[k] = q[k + 1]
    BY <1>1, <2>1
  <2>3. b[k + 1] = IF q[k + 1] < Len(out) THEN out[q[k + 1] + 1] ELSE c
    BY <1>2, <2>2
  <2>4. e[k] = b[k + 1]
    BY <1>5, <2>1
  <2> QED BY <1>3, <2>1, <2>2, <2>3, <2>4
<1>8. d = e
  BY <1>5, <1>6, <1>7, SeqEqual
<1>9. SubSeq(b, 1, 1) = <<b[1]>> /\ SubSeq(b, 2, Len(b)) = e /\ 1 \in 0 .. Len(b)
  BY <1>4, SplitFirst DEF e
<1> QED BY <1>8, <1>9 DEF d, b, p

\* The newest frame is not of a publish, before and after.
LEMMA CurrentBeside ==
  ASSUME Ready, TypeOK', OrderInv', stack # <<>>, stack' # <<>>, Tail(stack') = Tail(stack),
         Head(stack).kind # "publish", Head(stack').kind # "publish"
  PROVE  CurrentOf(stack') = CurrentOf(stack)
<1> DEFINE r == Tail(stack)
<1>1. /\ stack \in Seq(Frame) /\ Apart(stack) /\ Frames(stack) = Frames(r) \cup {Head(stack)}
  BY ReadyParts, FramesSplit DEF CallInv
<1>2. stack' \in Seq(Frame) /\ Apart(stack')
  BY DEF TypeOK, OrderInv, CallInv
<1>3. Frames(stack') = Frames(r) \cup {Head(stack')}
  BY <1>2, FramesSplit
<1> HIDE DEF r
<1>4. CASE \E f \in Frames(r) : f.kind = "publish"
  <2>1. PICK f \in Frames(r) : f.kind = "publish"
    BY <1>4
  <2>2. f \in Frames(stack) /\ f \in Frames(stack')
    BY <1>1, <1>3, <2>1
  <2>3. CurrentOf(stack) = f.msg
    BY <1>1, <2>1, <2>2, CurrentOfPublish
  <2>4. CurrentOf(stack') = f.msg
    BY <1>2, <2>1, <2>2, CurrentOfPublish
  <2> QED BY <2>3, <2>4
<1>5. CASE \A f \in Frames(r) : f.kind # "publish"
  <2>1. CurrentOf(stack) = 0
    BY <1>1, <1>5, CurrentOfNone
  <2>2. CurrentOf(stack') = 0
    BY <1>2, <1>3, <1>5, CurrentOfNone
  <2> QED BY <2>1, <2>2
<1> QED BY <1>4, <1>5

\* A drain writes the oldest message.
LEMMA BoxesWritten ==
  ASSUME Ready, TypeOK', OrderInv', stack # <<>>, Head(stack).kind \in {"drain", "drainAll"},
         Head(stack).left # <<>>, Head(Head(stack).left) < Len(outgoing),
         LET f == Head(stack)
         IN  /\ delivered' = [delivered EXCEPT ![f.sub] = delivered[f.sub] \o <<outgoing[Head(f.left) + 1]>>]
             /\ stack' = <<[f EXCEPT !.left = Tail(f.left)]>> \o Tail(stack),
         UNCHANGED <<indices, outgoing, lastCall>>
  PROVE  Head(stack).sub \in Subscribers /\ Boxes!Deliver(Head(stack).sub)
<1> DEFINE f == Head(stack)
           s == f.sub
           l == f.left
           g == [f EXCEPT !.left = Tail(l)]
           r == Tail(stack)
<1>1. /\ f \in Frame /\ f \in FrameRecord /\ f \in Frames(stack) /\ s \in Subscribers
      /\ l \in Seq(Nat) /\ l # <<>> /\ indices[s] = <<>> /\ r \in Seq(Frame)
  <2>1. f \in Frame /\ f \in FrameRecord /\ f \in Frames(stack) /\ r \in Seq(Frame)
    BY ReadyParts, HeadFrame, FramesSplit
  <2> QED BY <2>1, ReadyParts DEF Frame, FrameRecord, LeftInv
<1>2. g \in Frame /\ g.kind = f.kind /\ g.left = Tail(l) /\ g.sub = s
  BY <1>1, ReadyParts, DrainFrames, TopFields
<1>3. stack' = <<g>> \o r /\ Head(l) = l[1] /\ l[1] < Len(outgoing)
      /\ delivered' = [delivered EXCEPT ![s] = delivered[s] \o <<outgoing[l[1] + 1]>>]
  BY <1>1
<1>4. f.kind # "publish" /\ s = Head(stack).sub /\ l = Head(stack).left /\ r = Tail(stack)
  OBVIOUS
<1> HIDE DEF f, s, l, g, r
<1>5. stack' # <<>> /\ Head(stack') = g /\ Tail(stack') = r
  BY <1>1, <1>2, <1>3, PushElements
<1>6. CurrentOf(stack') = CurrentOf(stack)
  BY <1>2, <1>4, <1>5, CurrentBeside DEF f
<1>7. HeldIn(stack, indices, s) = l /\ HeldIn(stack', indices', s) = Tail(l)
  <2>1. HeldIn(stack, indices, s) = l
    BY <1>1, <1>4 DEF HeldIn
  <2>2. HeldIn(stack', indices', s) = IF Tail(l) # <<>> THEN Tail(l) ELSE indices[s]
    BY <1>2, <1>5 DEF HeldIn
  <2> QED BY <1>1, <2>1, <2>2
<1>8. \A x \in Subscribers : x # s => HeldIn(stack', indices', x) = HeldIn(stack, indices, x)
  BY <1>2, <1>4, <1>5 DEF HeldIn
<1>9. \A x \in Subscribers : x # s => mail'[x] = mail[x]
  BY <1>6, <1>8, MailAt, ReadyMail
<1>10. /\ outgoing \in Seq(0 .. MaxCalls) /\ CurrentOf(stack) \in 0 .. MaxCalls
       /\ Len(l) \in Nat /\ Len(l) > 0
  <2>1. CurrentOf(stack) \in 0 .. MaxCalls
    BY <1>1, MailTypes
  <2>2. Len(l) \in Nat /\ Len(l) > 0
    BY <1>1
  <2> QED BY <2>1, <2>2, ReadyParts, OrderTypes
<1>11. mail[s] = Box(l, outgoing, CurrentOf(stack)) /\ mail'[s] = Box(Tail(l), outgoing, CurrentOf(stack))
  BY <1>1, <1>6, <1>7, ReadyMail DEF MailOf
<1>12. mail[s][1] = outgoing[l[1] + 1]
  <2>1. 1 \in 1 .. Len(l)
    BY <1>10
  <2> QED BY <1>3, <1>11, <2>1 DEF Box
<1> DEFINE c == CurrentOf(stack)
           b == mail[s]
<1>13. b = Box(l, outgoing, c) /\ c \in 0 .. MaxCalls
  BY <1>10, <1>11
<1> HIDE DEF b, c
<1>14. /\ Box(Tail(l), outgoing, c) = SubSeq(b, 2, Len(b))
       /\ SubSeq(b, 1, 1) = <<b[1]>> /\ 1 \in 0 .. Len(b)
  BY <1>1, <1>10, <1>13, BoxSplit
<1>15. /\ mail'[s] = SubSeq(mail[s], 1 + 1, Len(mail[s])) /\ 1 \in 0 .. Len(mail[s])
       /\ SubSeq(mail[s], 1, 1) = <<outgoing[l[1] + 1]>>
  BY <1>11, <1>12, <1>14 DEF b, c
<1>16. mail' = [mail EXCEPT ![s] = SubSeq(mail[s], 1 + 1, Len(mail[s]))]
  BY <1>1, <1>9, <1>15, ReadyMail
<1>17. delivered' = [delivered EXCEPT ![s] = delivered[s] \o SubSeq(mail[s], 1, 1)]
  BY <1>3, <1>15
<1>18. current' = current
  BY <1>6, ReadyMail
<1>19. Boxes!Deliver(s)
  BY <1>15, <1>16, <1>17, <1>18 DEF Boxes!Deliver
<1> QED BY <1>1, <1>4, <1>19

\* A drain goes on: a message is written, or the others are given up.
LEMMA BoxesDrain ==
  ASSUME Ready, TypeOK', OrderInv', DrainMessage
  PROVE  UNCHANGED Boxes!boxes \/ \E s \in Subscribers : Boxes!Deliver(s)
<1> DEFINE f == Head(stack)
           g == [f EXCEPT !.left = <<>>]
           d == DroppedFrame(f.sub)
<1>1. /\ stack # <<>> /\ f.kind \in {"drain", "drainAll"} /\ f.left # <<>>
      /\ UNCHANGED <<indices, outgoing, lastCall>>
  BY DEF DrainMessage, Draining, Running, listVars
<1>2. \/ /\ Head(f.left) < Len(outgoing)
         /\ delivered' = [delivered EXCEPT ![f.sub] = delivered[f.sub] \o <<outgoing[Head(f.left) + 1]>>]
         /\ stack' = <<[f EXCEPT !.left = Tail(f.left)]>> \o Tail(stack)
      \/ stack' = <<d>> \o (<<g>> \o Tail(stack)) /\ UNCHANGED delivered
      \/ UNCHANGED <<stack, delivered>>
  BY DEF DrainMessage, Written, Top, Below
<1>3. CASE stack' = <<d>> \o (<<g>> \o Tail(stack)) /\ UNCHANGED delivered
  <2>1. f \in Frame /\ f.sub \in Subscribers /\ f \in Frames(stack) /\ indices[f.sub] = <<>>
    <3>1. f \in Frame /\ f \in Frames(stack)
      BY <1>1, ReadyParts, HeadFrame, FramesSplit
    <3> QED BY <1>1, <3>1, ReadyParts DEF Frame, LeftInv
  <2>2. g \in Frame /\ g.kind = f.kind /\ g.left = <<>>
    BY <1>1, <2>1, ReadyParts, DrainFrames, TopFields
  <2>3. Fresh(g) /\ f.kind # "publish"
    BY <1>1, <2>2 DEF Fresh, OfCall
  <2>4. d \in Frame /\ Fresh(d) /\ d.left = <<>>
    BY <2>1, ReadyParts, NewFrames, FreshFrames
  <2> HIDE DEF g, d
  <2>5. Base(<<g>> \o Tail(stack))
    BY <1>1, <2>2, <2>3, ReadyParts, BaseTop
  <2>6. Restacked
    BY <1>3, <2>4, <2>5, BasePush
  <2>7. stack' # <<>> /\ Head(stack') = d
    BY <1>3, <2>4, <2>5, PushElements DEF Base
  <2>8. HeldIn(stack', indices', f.sub) = <<>>
    BY <1>1, <2>1, <2>4, <2>7 DEF HeldIn
  <2>9. \A x \in Subscribers : x # f.sub => HeldIn(stack', indices', x) = HeldIn(stack, indices, x)
    BY <1>1, <2>4, <2>7 DEF HeldIn
  <2> HIDE DEF f
  <2>10. Boxes!Deliver(f.sub)
    BY <1>1, <1>3, <2>1, <2>6, <2>8, <2>9, GivenUp
  <2> QED BY <2>1, <2>10
<1>4. CASE UNCHANGED <<stack, delivered>>
  BY <1>1, <1>4, SameBoxes
<1> QED BY <1>1, <1>2, <1>3, <1>4, BoxesWritten

\* A direct send is written: nothing waits for its socket.
LEMMA BoxesSend ==
  ASSUME Ready, TypeOK', OrderInv', FinishSend
  PROVE  UNCHANGED Boxes!boxes \/ \E s \in Subscribers : Boxes!Pass(s)
<1> DEFINE f == Head(stack)
           s == f.sub
<1>1. /\ stack # <<>> /\ f.kind = "send" /\ stack' = Tail(stack)
      /\ UNCHANGED <<indices, outgoing, lastCall>>
      /\ \/ delivered' = [delivered EXCEPT ![s] = delivered[s] \o <<f.msg>>]
         \/ UNCHANGED delivered
  BY DEF FinishSend, Running, Below, Written, listVars
<1>2. Base(Tail(stack)) /\ f.left = <<>>
  BY <1>1, ReadyParts, BaseTail, NothingLeft
<1>3. Restacked /\ stack' \in Seq(Frame) /\ \A h \in Frames(stack') : h.left = <<>>
  BY <1>1, <1>2, BaseSame DEF Base
<1>4. Fewest
  BY <1>1 DEF Fewest
<1>5. \A x \in Subscribers : HeldIn(stack', indices', x) = HeldIn(stack, indices, x)
  BY <1>1, <1>2, <1>3, HeldSame
<1>6. CASE UNCHANGED delivered
  BY <1>1, <1>3, <1>4, <1>5, <1>6, QuietMail
<1>7. CASE delivered' = [delivered EXCEPT ![s] = delivered[s] \o <<f.msg>>]
  <2>1. f \in Frame /\ s \in Subscribers /\ f \in Frames(stack)
    BY <1>1, ReadyParts, HeadFrame, FramesSplit DEF Frame, Handles
  <2>2. s # NoSub /\ Due(f) = {s}
    BY <1>1, <2>1, TopicTreeAssumption DEF Due
  <2>3. f.msg = lastCall /\ lastCall > 0 /\ Until(delivered[s], lastCall) /\ indices[s] = <<>>
    BY <1>1, <2>1, <2>2, ReadyParts DEF CallInv, OfCall
  <2>4. HeldIn(stack, indices, s) = <<>>
    BY <1>2, <2>3 DEF HeldIn
  <2> HIDE DEF s, f
  <2>5. mail[s] = <<>>
    BY <2>1, <2>4, BoxEmpty, ReadyMail DEF MailOf
  <2>6. CurrentOf(stack') = CurrentOf(stack)
    BY <1>3, CurrentKept
  <2>7. mail' = mail /\ current' = current
    <3>1. \A x \in Subscribers : mail'[x] = mail[x]
      BY <1>1, <1>5, <2>6, MailAt, ReadyMail
    <3> QED BY <2>6, <3>1, ReadyMail
  <2>8. lastCall \in Boxes!Message
    BY <2>3, ReadyParts, OrderTypes, TopicTreeAssumption DEF Boxes!Message
  <2>9. delivered[s] \in Seq(0 .. MaxCalls)
    BY <2>1, ReadyParts, OrderTypes
  <2>10. Boxes!Newer(lastCall, delivered[s])
    <3>1. DOMAIN delivered[s] = 1 .. Len(delivered[s])
      BY <2>9
    <3> QED BY <2>3, <3>1 DEF Boxes!Newer, Until
  <2>11. delivered' = [delivered EXCEPT ![s] = Append(delivered[s], lastCall)]
    <3>1. delivered[s] \o <<lastCall>> = Append(delivered[s], lastCall)
      BY <2>9
    <3> QED BY <1>7, <2>3, <3>1
  <2>12. Boxes!Pass(s)
    BY <2>5, <2>7, <2>8, <2>10, <2>11 DEF Boxes!Pass
  <2> QED BY <2>1, <2>12
<1> QED BY <1>1, <1>6, <1>7

\* The first elements of a sequence.
LEMMA FirstOnes ==
  ASSUME NEW S, NEW b \in Seq(S), NEW w \in Seq(S), NEW n \in 1 .. Len(b), Len(w) = n,
         \A i \in 1 .. n : w[i] = b[i]
  PROVE  SubSeq(b, 1, n) = w /\ n \in 0 .. Len(b)
<1> DEFINE o == SubSeq(b, 1, n)
<1>1. o \in Seq(S) /\ Len(o) = n /\ \A i \in 1 .. n : o[i] = b[i]
  OBVIOUS
<1>2. n \in 0 .. Len(b)
  OBVIOUS
<1> HIDE DEF o
<1>3. \A i \in 1 .. Len(o) : o[i] = w[i]
  BY <1>1
<1>4. o = w
  BY <1>1, <1>3, SeqEqual
<1> QED BY <1>2, <1>4 DEF o

\* What end writes are the oldest messages that wait for s; the others are given up.
LEMMA BoxesEnd ==
  ASSUME Ready, TypeOK', OrderInv', ListInv', NEW s \in Subscribers, End(s)
  PROVE  UNCHANGED Boxes!boxes \/ Boxes!Deliver(s)
<1> DEFINE q == indices[s]
<1>1. UNCHANGED <<stack, lastCall>> /\ \A f \in Frames(stack) : f.left = <<>>
  BY CallsLeaveNothing DEF End, MayCall
<1>2. CASE UNCHANGED <<listVars, outgoing, delivered>>
  BY <1>1, <1>2, SameBoxes DEF listVars
<1>3. CASE ~UNCHANGED <<listVars, outgoing, delivered>>
  <2>1. \A i \in DOMAIN q : q[i] < Len(outgoing)
    BY <1>3, Zenon DEF End
  <2>2. PICK kept \in 1 .. Len(q) :
          /\ delivered' = [delivered EXCEPT ![s] = delivered[s] \o [i \in 1 .. kept |-> outgoing[q[i] + 1]]]
          /\ FreeSubscriber(s)
          /\ outgoing' = ClearIfUnused(drainable')
    BY <2>1 DEF End
  <2> DEFINE w == [i \in 1 .. kept |-> outgoing[q[i] + 1]]
  <2>3. w \in Seq(0 .. MaxCalls) /\ Len(w) = kept
    BY <2>1, EndWrites
  <2>4. /\ delivered' = [delivered EXCEPT ![s] = delivered[s] \o w]
        /\ \A i \in 1 .. kept : w[i] = outgoing[q[i] + 1]
    BY <2>2
  <2> HIDE DEF w
  <2>5. /\ indices' = [indices EXCEPT ![s] = <<>>]
        /\ indices'[s] = <<>>
        /\ \A x \in Subscribers : indices'[x] \in {indices[x], <<>>}
    BY <2>2, ReadyParts, FreeEmpties
  <2>6. Fewest
    BY <1>1, <2>2, <2>5, ClearedFewest
  <2>7. stack # <<>> => Head(stack).left = <<>>
    BY <1>1, ReadyParts, FramesSplit
  <2>8. /\ \A x \in Subscribers : HeldIn(stack, indices, x) = indices[x]
        /\ \A x \in Subscribers : HeldIn(stack', indices', x) = indices'[x]
    BY <1>1, <2>7 DEF HeldIn
  <2>9. \A x \in Subscribers : x # s => indices'[x] = indices[x]
    BY <2>5, ReadyParts, OrderTypes
  <2>10. ASSUME NEW x \in Subscribers, x # s PROVE mail'[x] = mail[x]
    <3>1. HeldIn(stack', indices', x) = HeldIn(stack, indices, x)
      BY <2>8, <2>9, <2>10
    <3>2. outgoing' = outgoing \/ HeldIn(stack, indices, x) = <<>>
      BY <2>6, <2>8, <2>9, <2>10 DEF Fewest
    <3>3. CurrentOf(stack') = CurrentOf(stack)
      BY <1>1
    <3> QED BY <3>1, <3>2, <3>3, MailAt, ReadyMail
  <2>11. mail' = [mail EXCEPT ![s] = <<>>]
    BY <2>5, <2>8, <2>10, MailEmptied
  <2> DEFINE b == mail[s]
  <2>12. /\ b \in Seq(0 .. MaxCalls) /\ Len(b) = Len(q)
         /\ \A k \in 1 .. Len(q) : b[k] = IF q[k] < Len(outgoing) THEN outgoing[q[k] + 1] ELSE CurrentOf(stack)
    BY <2>8, MailTypes, ReadyMail
  <2> HIDE DEF b
  <2>13. /\ kept \in 1 .. Len(b) /\ kept \in 1 .. Len(q)
         /\ \A i \in 1 .. kept : i \in 1 .. Len(q) /\ i \in DOMAIN q
    <3>1. q \in Seq(0 .. MaxOutgoing)
      BY ReadyParts, OrderTypes
    <3>2. Len(q) \in Nat /\ DOMAIN q = 1 .. Len(q)
      BY <3>1
    <3>3. Len(b) = Len(q)
      BY <2>12
    <3> HIDE DEF q
    <3> QED BY <3>2, <3>3
  <2>14. ASSUME NEW i \in 1 .. kept PROVE w[i] = b[i]
    <3>1. i \in 1 .. Len(q) /\ q[i] < Len(outgoing)
      BY <2>1, <2>13
    <3> QED BY <2>4, <2>12, <3>1
  <2>15. SubSeq(b, 1, kept) = w /\ kept \in 0 .. Len(b)
    BY <2>3, <2>12, <2>13, <2>14, FirstOnes
  <2>16. delivered' = [delivered EXCEPT ![s] = delivered[s] \o SubSeq(mail[s], 1, kept)] /\ kept \in 0 .. Len(mail[s])
    BY <2>4, <2>15 DEF b
  <2>17. current' = current
    BY <1>1, ReadyMail
  <2> QED BY <2>11, <2>16, <2>17 DEF Boxes!Deliver
<1> QED BY <1>2, <1>3

\* Every step of TopicTree is one of the mailboxes, or invisible to them.
LEMMA BoxesStep ==
  ASSUME Ready, TypeOK', ListInv', OrderInv', [Next]_vars
  PROVE  [Boxes!Next]_(Boxes!boxes)
<1>1. CASE \/ \E s \in Subscribers, t \in Topics : (Subscribe(s, t) /\ Live(s)) \/ Unsubscribe(s, t)
           \/ \E s \in Subscribers : Writable(s)
           \/ FreePending \/ UNCHANGED vars
  <2>1. UNCHANGED <<stack, indices, outgoing, delivered>>
    BY <1>1 DEF Subscribe, Unsubscribe, Writable, FreePending, listVars, sockets, vars
  <2> QED BY <2>1, SameBoxes
<1>2. CASE \E s \in Subscribers, t \in Topics : Subscribe(s, t) /\ ~Live(s)
  <2>1. \E s \in Subscribers : Boxes!Renew(s)
    BY <1>2, BoxesRenew
  <2> QED BY <2>1 DEF Boxes!Next
<1>3. CASE \/ \E s \in Subscribers \cup {NoSub}, t \in Topics : Publish(s, t) \/ PublishBig(s, t)
           \/ \E s \in Subscribers : Send(s)
  BY <1>3, BoxesCalls
<1>4. CASE \E s \in Subscribers : Close(s) \/ End(s)
  <2>1. UNCHANGED Boxes!boxes \/ \E s \in Subscribers : Boxes!Deliver(s)
    BY <1>4, BoxesClose, BoxesEnd
  <2> QED BY <2>1 DEF Boxes!Next
<1>5. CASE \/ LoopDrain \/ HandlerReturn \/ FinishApply \/ FinishPublishBig
           \/ FinishDrain \/ FinishDrainAll \/ ApplyOp
  BY <1>5, BoxesQuiet
<1>6. CASE DrainNext
  BY <1>6, BoxesWalk
<1>7. CASE PublishVisit \/ PublishBigVisit
  <2>1. CASE PublishVisit /\ \E s \in Head(stack).todo : Reference(Head(stack), s)
    <3>1. /\ stack # <<>> /\ Head(stack).kind = "publish"
          /\ UNCHANGED <<outgoing, delivered, lastCall>>
      BY <2>1 DEF PublishVisit, Running, sockets
    <3>2. \E s \in Subscribers : Boxes!Post(s)
      BY <2>1, <3>1, BoxesReference
    <3> QED BY <3>2 DEF Boxes!Next
  <2>2. CASE ~(PublishVisit /\ \E s \in Head(stack).todo : Reference(Head(stack), s))
    BY <1>7, <2>2, BoxesVisits
  <2> QED BY <2>1, <2>2
<1>8. CASE DrainMessage
  <2>1. UNCHANGED Boxes!boxes \/ \E s \in Subscribers : Boxes!Deliver(s)
    BY <1>8, BoxesDrain
  <2> QED BY <2>1 DEF Boxes!Next
<1>9. CASE FinishSend
  <2>1. UNCHANGED Boxes!boxes \/ \E s \in Subscribers : Boxes!Pass(s)
    BY <1>9, BoxesSend
  <2> QED BY <2>1 DEF Boxes!Next
<1>10. CASE StartIterating \/ FinishPublish
  <2>1. UNCHANGED Boxes!boxes \/ Boxes!Publish
    BY <1>10, BoxesStart, BoxesPublished
  <2> QED BY <2>1 DEF Boxes!Next
<1> QED BY <1>1, <1>2, <1>3, <1>4, <1>5, <1>6, <1>7, <1>8, <1>9, <1>10
        DEF Next, Step, Loop, Application, Library

\* At first every mailbox is empty.
LEMMA BoxesInit == Init => Boxes!Init
<1> SUFFICES ASSUME Init PROVE Boxes!Init
  OBVIOUS
<1>1. /\ stack = <<>> /\ DOMAIN stack = {}
      /\ indices = [s \in Subscribers |-> <<>>] /\ delivered = [s \in Subscribers |-> <<>>]
  BY DEF Init
<1>2. current = 0
  BY <1>1 DEF current
<1>3. \A s \in Subscribers : Left(s) = <<>> /\ indices[s] = <<>>
  BY <1>1 DEF Left
<1>4. \A s \in Subscribers : Left(s) \o indices[s] = <<>>
  BY <1>3
<1>5. \A s \in Subscribers : mail[s] = <<>>
  BY <1>4 DEF mail
<1>6. mail = [s \in Subscribers |-> <<>>]
  BY <1>5 DEF mail
<1> QED BY <1>1, <1>2, <1>6 DEF Boxes!Init

\* The queue that all WebSockets share, its indices, their clearing and what
\* handlers interrupt implement one first-in first-out mailbox per WebSocket,
\* in which a direct send overtakes nothing (TopicTree.h:105-122 and 290-375;
\* WebSocket.h:119).
THEOREM MailboxesImplemented == ASSUME SendsOutside PROVE Spec /\ []QueueFits => ImplementsMailboxes
<1>1. /\ IInv /\ PointerInv /\ OrderInv /\ QueueFits
      /\ IInv' /\ PointerInv' /\ OrderInv' /\ [Next]_vars
      => [Boxes!Next]_(Boxes!boxes)
  <2> SUFFICES ASSUME IInv, PointerInv, OrderInv, QueueFits, IInv', PointerInv', OrderInv', [Next]_vars
               PROVE  [Boxes!Next]_(Boxes!boxes)
    OBVIOUS
  <2>1. Ready
    BY ReadyOutside
  <2>2. TypeOK' /\ ListInv'
    BY DEF IInv, PointerInv
  <2> QED BY <2>1, <2>2, BoxesStep
<1> QED BY <1>1, BoxesInit, OrderHolds, PTL DEF Spec, ImplementsMailboxes, Boxes!Spec

\* An application that makes no more calls than the indices can count is served
\* in call order, whatever its handlers close, end and subscribe
\* (the index is a uint16_t, TopicTree.h:360).
THEOREM FewCallsInOrder ==
  ASSUME SendsOutside, MaxCalls < MaxOutgoing
  PROVE  Spec => []DeliveredInCallOrder /\ ImplementsMailboxes
<1>1. Spec => []QueueFits
  BY FewCallsFit
<1>2. Spec /\ []QueueFits => []DeliveredInCallOrder
  BY WrittenInOrder
<1>3. Spec /\ []QueueFits => ImplementsMailboxes
  BY MailboxesImplemented
<1> QED BY <1>1, <1>2, <1>3, PTL

=============================================================================
