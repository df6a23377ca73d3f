-------------------------- MODULE TopicTreeProofs --------------------------
(***************************************************************************)
(* Theorems about TopicTree, for any number of subscribers, topics, calls, *)
(* nested handlers and any size of the index array and of the queue.       *)
(***************************************************************************)
EXTENDS TopicTree, FiniteSetTheorems, FunctionTheorems, SequenceTheorems,
        TLAPS

-----------------------------------------------------------------------------
(* The call stack.                                                         *)

\* A non-empty stack is its newest frame on top of the rest.
LEMMA StackSplit ==
  ASSUME NEW S, NEW st \in Seq(S), st # <<>>
  PROVE  /\ Head(st) \in S
         /\ Tail(st) \in Seq(S)
         /\ st = <<Head(st)>> \o Tail(st)
  OBVIOUS

\* A pushed frame comes first, the others keep their order.
LEMMA PushElements ==
  ASSUME NEW S, NEW st \in Seq(S), NEW f \in S
  PROVE  /\ <<f>> \o st \in Seq(S)
         /\ <<f>> \o st # <<>>
         /\ Len(<<f>> \o st) = Len(st) + 1
         /\ (<<f>> \o st)[1] = f
         /\ \A i \in 1 .. Len(st) : (<<f>> \o st)[i + 1] = st[i]
         /\ Head(<<f>> \o st) = f
         /\ Tail(<<f>> \o st) = st
  OBVIOUS

\* Number of frames of the kinds K.
Places(K, st) == {i \in 1 .. Len(st) : st[i].kind \in K}
Count(K, st)  == Cardinality(Places(K, st))

\* The places of a kind of frame are finitely many.
LEMMA PlacesFinite ==
  ASSUME NEW K, NEW st \in Seq(Frame)
  PROVE  IsFiniteSet(Places(K, st)) /\ Count(K, st) \in Nat
<1>1. IsFiniteSet(1 .. Len(st)) /\ Places(K, st) \subseteq 1 .. Len(st)
  BY FS_Interval DEF Places
<1> QED BY <1>1, FS_Subset, FS_CardinalityType DEF Count

\* Pushing a frame moves the places of the others by one.
LEMMA PlacesPush ==
  ASSUME NEW K, NEW st \in Seq(Frame), NEW f \in Frame
  PROVE  LET shifted == {i + 1 : i \in Places(K, st)}
         IN  /\ f.kind \in K => Places(K, <<f>> \o st) = shifted \cup {1}
             /\ f.kind \notin K => Places(K, <<f>> \o st) = shifted
<1> DEFINE U == {i + 1 : i \in Places(K, st)}
<1>1. ASSUME NEW i \in Places(K, <<f>> \o st)
      PROVE  i \in U \/ (i = 1 /\ f.kind \in K)
  <2>1. CASE i = 1
    BY <1>1, <2>1, PushElements DEF Places
  <2>2. CASE i # 1
    <3>1. i - 1 \in 1 .. Len(st) /\ (<<f>> \o st)[i] = st[i - 1]
      BY <1>1, <2>2, PushElements DEF Places
    <3>2. i - 1 \in Places(K, st) /\ i = (i - 1) + 1
      BY <1>1, <3>1 DEF Places
    <3> QED BY <3>2
  <2> QED BY <2>1, <2>2
<1>2. ASSUME NEW i \in U PROVE i \in Places(K, <<f>> \o st)
  <2>1. PICK j \in Places(K, st) : i = j + 1
    OBVIOUS
  <2>2. (<<f>> \o st)[j + 1] = st[j] /\ Len(<<f>> \o st) = Len(st) + 1
    BY PushElements DEF Places
  <2> QED BY <2>1, <2>2 DEF Places
<1>3. f.kind \in K => 1 \in Places(K, <<f>> \o st)
  BY PushElements DEF Places
<1> QED BY <1>1, <1>2, <1>3

\* Pushing a frame counts one more of its kind.
LEMMA CountPush ==
  ASSUME NEW K, NEW st \in Seq(Frame), NEW f \in Frame
  PROVE  Count(K, <<f>> \o st) = Count(K, st) + IF f.kind \in K THEN 1 ELSE 0
<1> DEFINE A == Places(K, st)
           U == {i + 1 : i \in A}
           shift == [i \in A |-> i + 1]
<1>1. IsFiniteSet(A) /\ Cardinality(A) \in Nat /\ A \subseteq Nat \ {0}
  <2>1. A \subseteq Nat \ {0}
    BY DEF Places
  <2> QED BY <2>1, PlacesFinite DEF Count
<1>2. shift \in Bijection(A, U)
  BY <1>1 DEF Bijection, Injection, Surjection, IsInjective
<1>3. 1 \notin U
  BY <1>1
<1> HIDE DEF A, U, shift
<1>4. IsFiniteSet(U) /\ Cardinality(U) = Cardinality(A)
  BY <1>1, <1>2, FS_Bijection, Fun_ExistsBij
<1>5. Cardinality(U \cup {1}) = Cardinality(U) + 1
  BY <1>3, <1>4, FS_AddElement
<1>6. CASE f.kind \in K
  <2>1. Places(K, <<f>> \o st) = U \cup {1}
    BY <1>6, PlacesPush DEF A, U
  <2> QED BY <1>4, <1>5, <1>6, <2>1 DEF Count, A
<1>7. CASE f.kind \notin K
  <2>1. Places(K, <<f>> \o st) = U
    BY <1>7, PlacesPush DEF A, U
  <2> QED BY <1>1, <1>4, <1>7, <2>1 DEF Count, A
<1> QED BY <1>6, <1>7

-----------------------------------------------------------------------------
(* A call stack st is sound for a value d of drainingDepth, a of applying  *)
(* and t of iteratingTopic: d counts its draining sections, a tells        *)
(* whether applyPending is on it, nothing below applyPending is a draining *)
(* section, and t is only set inside of a publish.                         *)

Iterations == {"publish", "publishBig"}

Based(st) ==
  \A i, j \in 1 .. Len(st) : st[i].kind = "apply" /\ i < j => st[j].kind \notin Drains

Sound(st, d, a, t) ==
  /\ st \in Seq(Frame)
  /\ d = Count(Drains, st)
  /\ Count({"apply"}, st) = IF a THEN 1 ELSE 0
  /\ Based(st)
  /\ t # NoTopic => Count(Iterations, st) # 0

\* No place, no frame of that kind.
LEMMA CountZero ==
  ASSUME NEW K, NEW st \in Seq(Frame), Count(K, st) = 0
  PROVE  \A i \in 1 .. Len(st) : st[i].kind \notin K
<1>1. Places(K, st) = {}
  BY PlacesFinite, FS_EmptySet DEF Count
<1> QED BY <1>1 DEF Places

\* And conversely.
LEMMA ZeroCount ==
  ASSUME NEW K, NEW st \in Seq(Frame), \A i \in 1 .. Len(st) : st[i].kind \notin K
  PROVE  Count(K, st) = 0
<1>1. Places(K, st) = {}
  BY DEF Places
<1> QED BY <1>1, FS_EmptySet DEF Count

\* applyPending is only entered outside of draining sections.
LEMMA BasedPush ==
  ASSUME NEW st \in Seq(Frame), NEW f \in Frame
  PROVE  Based(<<f>> \o st) <=> Based(st) /\ (f.kind = "apply" => Count(Drains, st) = 0)
<1> DEFINE up == <<f>> \o st
<1>0. /\ Len(up) = Len(st) + 1 /\ Len(st) \in Nat
      /\ up[1] = f
      /\ \A i \in 1 .. Len(st) : up[i + 1] = st[i]
  BY PushElements
<1> HIDE DEF up
<1>1. ASSUME Based(up) PROVE Based(st)
  <2>1. ASSUME NEW i \in 1 .. Len(st), NEW j \in 1 .. Len(st), st[i].kind = "apply", i < j
        PROVE  st[j].kind \notin Drains
    <3>1. /\ i + 1 \in 1 .. Len(up) /\ j + 1 \in 1 .. Len(up) /\ i + 1 < j + 1
          /\ up[i + 1] = st[i] /\ up[j + 1] = st[j]
      BY <1>0, <2>1
    <3> QED BY <1>1, <2>1, <3>1 DEF Based
  <2> QED BY <2>1 DEF Based
<1>2. ASSUME Based(up), f.kind = "apply" PROVE Count(Drains, st) = 0
  <2>1. ASSUME NEW j \in 1 .. Len(st) PROVE st[j].kind \notin Drains
    <3>1. 1 \in 1 .. Len(up) /\ j + 1 \in 1 .. Len(up) /\ 1 < j + 1 /\ up[j + 1] = st[j]
      BY <1>0
    <3> QED BY <1>0, <1>2, <3>1 DEF Based
  <2> QED BY <2>1, ZeroCount
<1>3. ASSUME Based(st), f.kind = "apply" => Count(Drains, st) = 0 PROVE Based(up)
  <2>1. ASSUME NEW i \in 1 .. Len(up), NEW j \in 1 .. Len(up), up[i].kind = "apply", i < j
        PROVE  up[j].kind \notin Drains
    <3>1. j - 1 \in 1 .. Len(st) /\ up[j] = st[j - 1]
      BY <1>0, <2>1
    <3>2. CASE i = 1
      BY <1>0, <1>3, <2>1, <3>1, <3>2, CountZero
    <3>3. CASE i # 1
      <4>1. i - 1 \in 1 .. Len(st) /\ up[i] = st[i - 1] /\ i - 1 < j - 1
        BY <1>0, <2>1, <3>3
      <4> QED BY <1>3, <2>1, <3>1, <4>1 DEF Based
    <3> QED BY <3>2, <3>3
  <2> QED BY <2>1 DEF Based
<1> QED BY <1>1, <1>2, <1>3 DEF up

\* The counts of a stack in terms of those below its newest frame.
LEMMA SoundTypes ==
  ASSUME NEW st, NEW d, NEW a, NEW t, Sound(st, d, a, t)
  PROVE  /\ st \in Seq(Frame)
         /\ d \in Nat
         /\ t # NoTopic => d > 0
         /\ st = <<>> => d = 0 /\ ~a /\ t = NoTopic
<1>1. st \in Seq(Frame) /\ d = Count(Drains, st) /\ d \in Nat
  BY PlacesFinite DEF Sound
<1>2. ASSUME t # NoTopic PROVE d # 0
  <2>1. ASSUME d = 0 PROVE FALSE
    <3>1. \A i \in 1 .. Len(st) : st[i].kind \notin Drains
      BY <1>1, <2>1, CountZero
    <3>2. \A i \in 1 .. Len(st) : st[i].kind \notin Iterations
      BY <3>1 DEF Drains, Iterations
    <3> QED BY <1>1, <1>2, <3>2, ZeroCount DEF Sound
  <2> QED BY <2>1
<1>3. ASSUME st = <<>> PROVE d = 0 /\ ~a /\ t = NoTopic
  <2>1. \A K : Count(K, st) = 0
    <3>1. \A i \in 1 .. Len(st) : FALSE
      BY <1>3
    <3> QED BY <1>1, <3>1, ZeroCount
  <2> QED BY <1>1, <1>2, <2>1 DEF Sound
<1> QED BY <1>1, <1>2, <1>3

\* Pushing a frame.
LEMMA SoundPush ==
  ASSUME NEW st, NEW d, NEW a \in BOOLEAN, NEW t, Sound(st, d, a, t), NEW f \in Frame
  PROVE  /\ f.kind \in (Handles \ {"drain"}) \cup {"publishStart"} => Sound(<<f>> \o st, d, a, t)
         /\ f.kind \in {"drain", "drainAll"} => Sound(<<f>> \o st, d + 1, a, t)
         /\ f.kind \in Iterations => \A u : Sound(<<f>> \o st, d + 1, a, u)
         /\ f.kind = "apply" /\ d = 0 /\ ~a => Sound(<<f>> \o st, d, TRUE, t)
<1>1. st \in Seq(Frame) /\ d = Count(Drains, st) /\ d \in Nat
  <2>1. d = Count(Drains, st)
    BY DEF Sound
  <2> QED BY <2>1, SoundTypes
<1>2. /\ <<f>> \o st \in Seq(Frame)
      /\ \A K : Count(K, <<f>> \o st) = Count(K, st) + IF f.kind \in K THEN 1 ELSE 0
      /\ \A K : Count(K, st) \in Nat
  <2>1. <<f>> \o st \in Seq(Frame)
    BY <1>1, PushElements
  <2>2. \A K : Count(K, <<f>> \o st) = Count(K, st) + IF f.kind \in K THEN 1 ELSE 0
    BY <1>1, CountPush, Zenon
  <2>3. \A K : Count(K, st) \in Nat
    BY <1>1, PlacesFinite, Zenon
  <2> QED BY <2>1, <2>2, <2>3
<1>3. Based(<<f>> \o st) <=> Based(st) /\ (f.kind = "apply" => Count(Drains, st) = 0)
  BY <1>1, BasedPush
<1>4. Count(Drains, <<f>> \o st) = d + (IF f.kind \in Drains THEN 1 ELSE 0)
  BY <1>1, <1>2
<1>5. Count({"apply"}, <<f>> \o st) = Count({"apply"}, st) + IF f.kind \in {"apply"} THEN 1 ELSE 0
  BY <1>2
<1>6. Count(Iterations, <<f>> \o st) = Count(Iterations, st) + IF f.kind \in Iterations THEN 1 ELSE 0
  BY <1>2
<1>7. Count(Iterations, st) \in Nat /\ Count({"apply"}, st) \in Nat
  BY <1>2
<1>8. CASE f.kind \in (Handles \ {"drain"}) \cup {"publishStart"}
  BY <1>1, <1>2, <1>3, <1>4, <1>5, <1>6, <1>7, <1>8 DEF Sound, Handles, Drains, Iterations
<1>9. CASE f.kind \in {"drain", "drainAll"}
  BY <1>1, <1>2, <1>3, <1>4, <1>5, <1>6, <1>7, <1>9 DEF Sound, Handles, Drains, Iterations
<1>10. CASE f.kind \in Iterations
  BY <1>1, <1>2, <1>3, <1>4, <1>5, <1>6, <1>7, <1>10 DEF Sound, Handles, Drains, Iterations
<1>11. CASE f.kind = "apply"
  BY <1>1, <1>2, <1>3, <1>4, <1>5, <1>6, <1>7, <1>11 DEF Sound, Handles, Drains, Iterations
<1> QED BY <1>8, <1>9, <1>10, <1>11 DEF Handles, Iterations

\* Popping the newest frame.
LEMMA SoundPop ==
  ASSUME NEW st, NEW d, NEW a \in BOOLEAN, NEW t, Sound(st, d, a, t), st # <<>>
  PROVE  /\ Head(st) \in Frame
         /\ Tail(st) \in Seq(Frame)
         /\ Head(st).kind \in (Handles \ {"drain"}) \cup {"publishStart"} =>
              Sound(Tail(st), d, a, t)
         /\ Head(st).kind \in {"drain", "drainAll"} =>
              d > 0 /\ Sound(Tail(st), d - 1, a, t)
         /\ Head(st).kind \in Iterations =>
              d > 0 /\ Sound(Tail(st), d - 1, a, NoTopic)
         /\ Head(st).kind = "apply" =>
              d = 0 /\ a /\ t = NoTopic /\ Sound(Tail(st), 0, FALSE, NoTopic)
<1> DEFINE f == Head(st)
           r == Tail(st)
<1>1. st \in Seq(Frame) /\ d = Count(Drains, st) /\ d \in Nat /\ (t # NoTopic => d > 0)
  <2>1. d = Count(Drains, st)
    BY DEF Sound
  <2> QED BY <2>1, SoundTypes
<1>2. f \in Frame /\ r \in Seq(Frame) /\ st = <<f>> \o r
  BY <1>1, StackSplit
<1> HIDE DEF f, r
<1>3. /\ \A K : Count(K, st) = Count(K, r) + IF f.kind \in K THEN 1 ELSE 0
      /\ \A K : Count(K, r) \in Nat
  <2>1. \A K : Count(K, st) = Count(K, r) + IF f.kind \in K THEN 1 ELSE 0
    BY <1>2, CountPush, Zenon
  <2>2. \A K : Count(K, r) \in Nat
    BY <1>2, PlacesFinite, Zenon
  <2> QED BY <2>1, <2>2
<1>4. Based(st) <=> Based(r) /\ (f.kind = "apply" => Count(Drains, r) = 0)
  BY <1>2, BasedPush
<1>5. d = Count(Drains, r) + (IF f.kind \in Drains THEN 1 ELSE 0)
  BY <1>1, <1>3
<1>6. Count({"apply"}, st) = Count({"apply"}, r) + IF f.kind \in {"apply"} THEN 1 ELSE 0
  BY <1>3
<1>7. Count(Iterations, st) = Count(Iterations, r) + IF f.kind \in Iterations THEN 1 ELSE 0
  BY <1>3
<1>8. Count(Iterations, r) \in Nat /\ Count({"apply"}, r) \in Nat /\ Count(Drains, r) \in Nat
  BY <1>3
<1>9. CASE f.kind \in (Handles \ {"drain"}) \cup {"publishStart"}
  BY <1>1, <1>2, <1>4, <1>5, <1>6, <1>7, <1>8, <1>9 DEF Sound, Handles, Drains, Iterations, f, r
<1>10. CASE f.kind \in {"drain", "drainAll"}
  BY <1>1, <1>2, <1>4, <1>5, <1>6, <1>7, <1>8, <1>10 DEF Sound, Handles, Drains, Iterations, f, r
<1>11. CASE f.kind \in Iterations
  BY <1>1, <1>2, <1>4, <1>5, <1>6, <1>7, <1>8, <1>11 DEF Sound, Handles, Drains, Iterations, f, r
<1>12. CASE f.kind = "apply"
  BY <1>1, <1>2, <1>4, <1>5, <1>6, <1>7, <1>8, <1>12 DEF Sound, Handles, Drains, Iterations, f, r
<1> QED BY <1>2, <1>9, <1>10, <1>11, <1>12 DEF Handles, Iterations, f, r

\* Replacing the newest frame by one of the same kind.
LEMMA SoundTop ==
  ASSUME NEW st, NEW d, NEW a \in BOOLEAN, NEW t, Sound(st, d, a, t), st # <<>>,
         NEW f \in Frame, f.kind = Head(st).kind
  PROVE  Sound(<<f>> \o Tail(st), d, a, t)
<1> DEFINE g == Head(st)
           r == Tail(st)
<1>1. st \in Seq(Frame)
  BY SoundTypes
<1>2. g \in Frame /\ r \in Seq(Frame) /\ st = <<g>> \o r
  BY <1>1, StackSplit
<1> HIDE DEF g, r
<1>3. \A K : /\ Count(K, st) = Count(K, r) + IF g.kind \in K THEN 1 ELSE 0
             /\ Count(K, <<f>> \o r) = Count(K, r) + IF f.kind \in K THEN 1 ELSE 0
  BY <1>2, CountPush
<1>4. \A K : Count(K, <<f>> \o r) = Count(K, st)
  BY <1>3 DEF g
<1>5. Based(<<f>> \o r) <=> Based(st)
  <2>1. f.kind = g.kind
    BY DEF g
  <2> QED BY <1>2, <2>1, BasedPush, Zenon
<1>6. <<f>> \o r \in Seq(Frame)
  BY <1>2, PushElements
<1> QED BY <1>4, <1>5, <1>6 DEF Sound, r

-----------------------------------------------------------------------------
(* Frames the code pushes or rewrites are frames.                          *)

\* A subscriber's indices are a list of naturals.
LEMMA IndexList ==
  ASSUME TypeOK, NEW s \in Subscribers
  PROVE  indices[s] \in Seq(Nat)
<1>1. indices[s] \in Seq(0 .. MaxOutgoing)
  BY DEF TypeOK
<1>2. /\ Len(indices[s]) \in Nat
      /\ \A i \in 1 .. Len(indices[s]) : indices[s][i] \in Nat
      /\ indices[s] = [i \in 1 .. Len(indices[s]) |-> indices[s][i]]
  BY <1>1, TopicTreeAssumption
<1> QED BY <1>2, SeqDef

\* The fields of a frame before any is set.
LEMMA BlankFields ==
  ASSUME NEW k \in Handles \cup Walks \cup Drains \cup {"apply"}
  PROVE  /\ Blank(k) \in FrameRecord
         /\ Blank(k).kind = k
         /\ Blank(k).left = <<>>
<1>1. <<>> \in Seq(Nat) /\ 0 \in 0 .. MaxCalls
  BY TopicTreeAssumption
<1> QED BY <1>1 DEF Blank, FrameRecord

\* What a drain, a send or applyPending pushes.
LEMMA NewFrames ==
  ASSUME TypeOK
  PROVE  /\ \A s \in Subscribers : DroppedFrame(s) \in Frame /\ DroppedFrame(s).kind = "dropped"
         /\ \A s \in Subscribers, m \in 0 .. MaxCalls :
              SendFrame(s, m) \in Frame /\ SendFrame(s, m).kind = "send"
         /\ \A s \in Subscribers : DrainFrame(s) \in Frame /\ DrainFrame(s).kind = "drain"
         /\ DrainAllFrame \in Frame /\ DrainAllFrame.kind = "drainAll"
         /\ ApplyFrame \in Frame /\ ApplyFrame.kind = "apply"
<1>1. ASSUME NEW s \in Subscribers
      PROVE  DroppedFrame(s) \in Frame /\ DroppedFrame(s).kind = "dropped"
  <2>1. Blank("dropped") \in FrameRecord /\ Blank("dropped").kind = "dropped" /\ Blank("dropped").left = <<>>
    BY BlankFields DEF Handles, Drains
  <2> QED BY <2>1 DEF DroppedFrame, Frame, FrameRecord, Handles, Walks
<1>2. ASSUME NEW s \in Subscribers, NEW m \in 0 .. MaxCalls
      PROVE  SendFrame(s, m) \in Frame /\ SendFrame(s, m).kind = "send"
  <2>1. Blank("send") \in FrameRecord /\ Blank("send").kind = "send" /\ Blank("send").left = <<>>
    BY BlankFields DEF Handles, Drains
  <2> QED BY <2>1 DEF SendFrame, Frame, FrameRecord, Handles, Walks
<1>3. ASSUME NEW s \in Subscribers
      PROVE  DrainFrame(s) \in Frame /\ DrainFrame(s).kind = "drain"
  <2>1. Blank("drain") \in FrameRecord /\ Blank("drain").kind = "drain" /\ Blank("drain").left = <<>>
    BY BlankFields DEF Handles, Drains
  <2>2. indices[s] \in Seq(Nat)
    BY IndexList
  <2> QED BY <2>1, <2>2 DEF DrainFrame, Frame, FrameRecord, Handles, Walks
<1>4. DrainAllFrame \in Frame /\ DrainAllFrame.kind = "drainAll"
  <2>1. Blank("drainAll") \in FrameRecord /\ Blank("drainAll").kind = "drainAll" /\ Blank("drainAll").left = <<>>
    BY BlankFields DEF Handles, Drains
  <2>2. drainable \in Subscribers \cup {NoSub}
    BY DEF TypeOK
  <2> QED BY <2>1, <2>2 DEF DrainAllFrame, Frame, FrameRecord, Handles, Walks
<1>5. ApplyFrame \in Frame /\ ApplyFrame.kind = "apply"
  <2>1. Blank("apply") \in FrameRecord /\ Blank("apply").kind = "apply" /\ Blank("apply").left = <<>>
    BY BlankFields DEF Handles, Drains
  <2> QED BY <2>1 DEF ApplyFrame, Frame, FrameRecord, Handles, Walks
<1> QED BY <1>1, <1>2, <1>3, <1>4, <1>5

\* What a publish pushes.
LEMMA PublishFrames ==
  ASSUME NEW k \in Walks, NEW s \in Subscribers \cup {NoSub}, NEW t \in Topics,
         NEW m \in 0 .. MaxCalls
  PROVE  /\ PublishFrame(k, s, t, m) \in Frame
         /\ PublishFrame(k, s, t, m).kind = k
<1>0. <<>> \in Seq(Nat)
  OBVIOUS
<1> QED BY <1>0, TopicTreeAssumption DEF PublishFrame, Blank, Frame, FrameRecord, Handles, Walks, Drains

\* A walk's frame after one more subscriber.
LEMMA WalkFrames ==
  ASSUME NEW f \in Frame, f.kind \in Walks, NEW M \in SUBSET Subscribers,
         NEW c \in Subscribers \cup {NoSub}
  PROVE  /\ [f EXCEPT !.todo = M] \in Frame
         /\ [f EXCEPT !.todo = M].kind = f.kind
         /\ [f EXCEPT !.cur = c] \in Frame
         /\ [f EXCEPT !.cur = c].kind = f.kind
         /\ [f EXCEPT !.todo = M, !.cur = c] \in Frame
         /\ [f EXCEPT !.todo = M, !.cur = c].kind = f.kind
         /\ [f EXCEPT !.todo = M, !.cur = c, !.used = TRUE] \in Frame
         /\ [f EXCEPT !.todo = M, !.cur = c, !.used = TRUE].kind = f.kind
         /\ [f EXCEPT !.kind = "publish", !.todo = M] \in Frame
         /\ [f EXCEPT !.kind = "publish", !.todo = M].kind = "publish"
  BY DEF Frame, FrameRecord, Handles, Walks, Drains

\* A drain's frame after one more message or subscriber.
LEMMA DrainFrames ==
  ASSUME TypeOK, NEW f \in Frame
  PROVE  /\ f.kind \in {"drain", "drainAll"} /\ f.left # <<>> =>
              /\ f.sub \in Subscribers
              /\ Head(f.left) \in Nat
              /\ [f EXCEPT !.left = Tail(f.left)] \in Frame
              /\ [f EXCEPT !.left = Tail(f.left)].kind = f.kind
              /\ [f EXCEPT !.left = <<>>] \in Frame
              /\ [f EXCEPT !.left = <<>>].kind = f.kind
         /\ f.kind = "apply" =>
              [f EXCEPT !.op = f.op + 1] \in Frame /\ [f EXCEPT !.op = f.op + 1].kind = "apply"
<1>1. ASSUME f.kind \in {"drain", "drainAll"}, f.left # <<>>
      PROVE  /\ f.sub \in Subscribers
             /\ Head(f.left) \in Nat
             /\ [f EXCEPT !.left = Tail(f.left)] \in Frame
             /\ [f EXCEPT !.left = Tail(f.left)].kind = f.kind
             /\ [f EXCEPT !.left = <<>>] \in Frame
             /\ [f EXCEPT !.left = <<>>].kind = f.kind
  <2>1. f.left \in Seq(Nat)
    BY DEF Frame, FrameRecord
  <2>2. Tail(f.left) \in Seq(Nat) /\ Head(f.left) \in Nat /\ <<>> \in Seq(Nat)
    BY <2>1, <1>1
  <2> QED BY <1>1, <2>2 DEF Frame, FrameRecord, Handles, Walks, Drains
<1>2. ASSUME f.kind = "apply"
      PROVE  [f EXCEPT !.op = f.op + 1] \in Frame /\ [f EXCEPT !.op = f.op + 1].kind = "apply"
  BY <1>2 DEF Frame, FrameRecord, Handles, Walks, Drains
<1> QED BY <1>1, <1>2

\* The walk over the list moves on.
LEMMA NextFrame ==
  ASSUME NEW f \in Frame, f.kind = "drainAll", NEW c \in Subscribers \cup {NoSub},
         NEW s \in Subscribers, NEW l \in Seq(Nat)
  PROVE  /\ [f EXCEPT !.cur = c, !.sub = s, !.left = l] \in Frame
         /\ [f EXCEPT !.cur = c, !.sub = s, !.left = l].kind = "drainAll"
  BY DEF Frame, FrameRecord, Handles, Walks, Drains

-----------------------------------------------------------------------------
(* The stack stays sound.                                                  *)

StackInv == Sound(stack, drainingDepth, applying, iteratingTopic)

\* Leaving a draining section, with or without entering applyPending.
LEMMA LeaveSound ==
  ASSUME TypeOK, StackInv, stack # <<>>, Head(stack).kind \in Drains,
         LeaveDraining(Tail(stack)),
         iteratingTopic' = IF Head(stack).kind \in Iterations THEN NoTopic ELSE iteratingTopic
  PROVE  StackInv'
<1> DEFINE d == drainingDepth - 1
           t == IF Head(stack).kind \in Iterations THEN NoTopic ELSE iteratingTopic
<1>1. drainingDepth \in Nat /\ drainingDepth > 0 /\ applying \in BOOLEAN
  BY SoundPop DEF TypeOK, StackInv, Drains, Iterations
<1>2. Sound(Tail(stack), d, applying, t)
  BY <1>1, SoundPop DEF StackInv, Drains, Iterations
<1>3. ApplyFrame \in Frame /\ ApplyFrame.kind = "apply"
  BY NewFrames
<1>4. CASE drainingDepth = 1 /\ pending /\ ~applying
  <2>0. d = 0 /\ drainingDepth' = d
    BY <1>1, <1>4 DEF LeaveDraining
  <2>1. stack' = <<ApplyFrame>> \o Tail(stack) /\ applying' = TRUE
    BY <1>4, Zenon DEF LeaveDraining
  <2>2. Sound(<<ApplyFrame>> \o Tail(stack), d, TRUE, t)
    BY <1>1, <1>2, <1>3, <1>4, <2>0, SoundPush
  <2> QED BY <2>0, <2>1, <2>2 DEF StackInv
<1>5. CASE ~(drainingDepth = 1 /\ pending /\ ~applying)
  <2>1. stack' = Tail(stack) /\ drainingDepth' = d /\ applying' = applying
    BY <1>1, <1>5 DEF LeaveDraining
  <2> QED BY <1>2, <2>1 DEF StackInv
<1> QED BY <1>4, <1>5

\* Beginning to drain one subscriber.
LEMMA BeginDrainSound ==
  ASSUME TypeOK, NEW s \in Subscribers, NEW rest, NEW t,
         Sound(rest, drainingDepth, applying, t), BeginDrain(s, rest)
  PROVE  Sound(stack', drainingDepth', applying, t)
<1>1. applying \in BOOLEAN
  BY DEF TypeOK
<1>2. DrainFrame(s) \in Frame /\ DrainFrame(s).kind = "drain"
  BY NewFrames
<1>3. stack' = <<DrainFrame(s)>> \o rest /\ drainingDepth' = drainingDepth + 1
  BY DEF BeginDrain, EnterDraining
<1> QED BY <1>1, <1>2, <1>3, SoundPush

\* Beginning to send, with or without a drain.
LEMMA BeginSendSound ==
  ASSUME TypeOK, NEW s \in Subscribers, NEW m \in 0 .. MaxCalls, NEW rest, NEW t,
         Sound(rest, drainingDepth, applying, t), BeginSend(s, m, rest)
  PROVE  Sound(stack', drainingDepth', applying, t)
<1>1. applying \in BOOLEAN
  BY DEF TypeOK
<1>2. /\ DroppedFrame(s) \in Frame /\ DroppedFrame(s).kind = "dropped"
      /\ SendFrame(s, m) \in Frame /\ SendFrame(s, m).kind = "send"
  BY NewFrames
<1>3. /\ Sound(<<DroppedFrame(s)>> \o rest, drainingDepth, applying, t)
      /\ Sound(<<SendFrame(s, m)>> \o rest, drainingDepth, applying, t)
  BY <1>1, <1>2, SoundPush DEF Handles
<1>4. CASE s \in full /\ stack' = <<DroppedFrame(s)>> \o rest /\ UNCHANGED drainingDepth
  BY <1>3, <1>4
<1>5. CASE Behind(s) /\ BeginDrain(s, <<SendFrame(s, m)>> \o rest)
  BY <1>3, <1>5, BeginDrainSound
<1>6. CASE stack' = <<SendFrame(s, m)>> \o rest /\ UNCHANGED drainingDepth
  BY <1>3, <1>6
<1> QED BY <1>4, <1>5, <1>6 DEF BeginSend

\* Beginning a publish, with or without a drain of the full queue.
LEMMA BeginPublishSound ==
  ASSUME TypeOK, NEW s \in Subscribers \cup {NoSub}, NEW t \in Topics, NEW m \in 0 .. MaxCalls,
         NEW rest, NEW u, Sound(rest, drainingDepth, applying, u), BeginPublish(s, t, m, rest)
  PROVE  Sound(stack', drainingDepth', applying, u)
<1> DEFINE start == <<PublishFrame("publishStart", s, t, m)>> \o rest
<1>1. applying \in BOOLEAN
  BY DEF TypeOK
<1>2. /\ PublishFrame("publishStart", s, t, m) \in Frame
      /\ PublishFrame("publishStart", s, t, m).kind = "publishStart"
  BY PublishFrames DEF Walks
<1>3. DrainAllFrame \in Frame /\ DrainAllFrame.kind = "drainAll"
  BY NewFrames
<1>4. Sound(start, drainingDepth, applying, u)
  <2> DEFINE f == PublishFrame("publishStart", s, t, m)
  <2>1. f \in Frame /\ f.kind = "publishStart"
    BY <1>2
  <2> HIDE DEF f
  <2>2. Sound(<<f>> \o rest, drainingDepth, applying, u)
    BY <1>1, <2>1, SoundPush
  <2> QED BY <2>2 DEF f
<1>5. CASE stack' = start /\ drainingDepth' = drainingDepth
  BY <1>4, <1>5
<1>6. CASE stack' = <<DrainAllFrame>> \o start /\ drainingDepth' = drainingDepth + 1
  <2> HIDE DEF start
  <2>1. Sound(<<DrainAllFrame>> \o start, drainingDepth + 1, applying, u)
    BY <1>1, <1>3, <1>4, SoundPush
  <2> QED BY <1>6, <2>1
<1> QED BY <1>5, <1>6 DEF BeginPublish, EnterDraining

\* The empty stack is sound.
LEMMA SoundInit == Init => StackInv
<1> SUFFICES ASSUME Init PROVE StackInv
  OBVIOUS
<1>1. stack = <<>> /\ drainingDepth = 0 /\ applying = FALSE /\ iteratingTopic = NoTopic
  BY DEF Init
<1>2. stack \in Seq(Frame) /\ \A i \in 1 .. Len(stack) : FALSE
  BY <1>1
<1>3. \A K : Count(K, stack) = 0
  BY <1>2, ZeroCount
<1>4. Based(stack)
  BY <1>2 DEF Based
<1> QED BY <1>1, <1>2, <1>3, <1>4 DEF StackInv, Sound

\* What the application calls.
LEMMA SoundApplication == TypeOK /\ StackInv /\ Application => StackInv'
<1> SUFFICES ASSUME TypeOK, StackInv, Application PROVE StackInv'
  OBVIOUS
<1> USE DEF StackInv
<1>1. ASSUME NEW s \in Subscribers, NEW t \in Topics, Subscribe(s, t) \/ Unsubscribe(s, t)
      PROVE  StackInv'
  BY <1>1 DEF Subscribe, Unsubscribe, nested
<1>2. ASSUME NEW s \in Subscribers, Close(s) \/ End(s) PROVE StackInv'
  BY <1>2 DEF Close, End, nested
<1>3. ASSUME NEW s \in Subscribers, Send(s) PROVE StackInv'
  <2>1. lastCall + 1 \in 0 .. MaxCalls /\ BeginSend(s, lastCall + 1, stack)
        /\ UNCHANGED <<iteratingTopic, applying>>
    BY <1>3, TopicTreeAssumption DEF Send, TypeOK
  <2>2. Sound(stack', drainingDepth', applying, iteratingTopic)
    BY <2>1, BeginSendSound
  <2> QED BY <2>1, <2>2
<1>4. ASSUME NEW s \in Subscribers \cup {NoSub}, NEW t \in Topics, Publish(s, t) PROVE StackInv'
  <2>1. lastCall + 1 \in 0 .. MaxCalls /\ UNCHANGED <<iteratingTopic, applying>>
    BY <1>4, TopicTreeAssumption DEF Publish, TypeOK
  <2>2. CASE UNCHANGED <<drainingDepth, stack>>
    BY <2>1, <2>2
  <2>3. CASE BeginPublish(s, t, lastCall + 1, stack)
    <3>1. Sound(stack', drainingDepth', applying, iteratingTopic)
      BY <2>1, <2>3, BeginPublishSound
    <3> QED BY <2>1, <3>1
  <2> QED BY <1>4, <2>2, <2>3 DEF Publish
<1>5. ASSUME NEW s \in Subscribers \cup {NoSub}, NEW t \in Topics, PublishBig(s, t) PROVE StackInv'
  <2> DEFINE f == [PublishFrame("publishBig", s, t, lastCall + 1) EXCEPT !.todo = members[t]]
  <2>1. lastCall + 1 \in 0 .. MaxCalls /\ members[t] \in SUBSET Subscribers /\ applying \in BOOLEAN
    BY <1>5, TopicTreeAssumption DEF PublishBig, TypeOK
  <2>2. f \in Frame /\ f.kind = "publishBig"
    <3> DEFINE g == PublishFrame("publishBig", s, t, lastCall + 1)
    <3>1. "publishBig" \in Walks
      BY DEF Walks
    <3>2. g \in Frame /\ g.kind = "publishBig"
      BY <2>1, <3>1, PublishFrames
    <3> HIDE DEF g
    <3>3. [g EXCEPT !.todo = members[t]] \in Frame
          /\ [g EXCEPT !.todo = members[t]].kind = "publishBig"
      BY <2>1, <3>1, <3>2, WalkFrames
    <3> QED BY <3>3 DEF g
  <2>3. /\ stack' = <<f>> \o stack /\ drainingDepth' = drainingDepth + 1
        /\ iteratingTopic' = t /\ applying' = applying
    BY <1>5 DEF PublishBig, Push, EnterDraining
  <2> HIDE DEF f
  <2>4. Sound(<<f>> \o stack, drainingDepth + 1, applying, t)
    BY <2>1, <2>2, SoundPush DEF Iterations
  <2> QED BY <2>3, <2>4
<1> QED BY <1>1, <1>2, <1>3, <1>4, <1>5 DEF Application

\* Drains.
LEMMA SoundDrains ==
  TypeOK /\ StackInv
    /\ (DrainMessage \/ FinishDrain \/ DrainNext \/ FinishDrainAll \/ FinishSend
          \/ HandlerReturn \/ LoopDrain)
    => StackInv'
<1> SUFFICES ASSUME TypeOK, StackInv,
                    DrainMessage \/ FinishDrain \/ DrainNext \/ FinishDrainAll \/ FinishSend
                      \/ HandlerReturn \/ LoopDrain
             PROVE  StackInv'
  OBVIOUS
<1> DEFINE f == Head(stack)
<1>0. applying \in BOOLEAN /\ (stack # <<>> => f \in Frame)
  BY SoundPop DEF TypeOK, StackInv
<1>1. CASE DrainMessage
  <2>1. stack # <<>> /\ f.kind \in {"drain", "drainAll"} /\ f.left # <<>> /\ UNCHANGED nested
    BY <1>1 DEF DrainMessage, Draining, Running
  <2>2. CASE stack' = <<[f EXCEPT !.left = Tail(f.left)]>> \o Tail(stack)
    <3>1. [f EXCEPT !.left = Tail(f.left)] \in Frame /\ [f EXCEPT !.left = Tail(f.left)].kind = f.kind
      BY <1>0, <2>1, DrainFrames
    <3>2. Sound(stack', drainingDepth, applying, iteratingTopic)
      BY <1>0, <2>1, <2>2, <3>1, SoundTop DEF StackInv
    <3> QED BY <2>1, <3>2 DEF StackInv, nested
  <2>3. CASE stack' = <<DroppedFrame(f.sub)>> \o (<<[f EXCEPT !.left = <<>>]>> \o Tail(stack))
    <3> DEFINE g == [f EXCEPT !.left = <<>>]
               h == DroppedFrame(f.sub)
    <3>1. /\ g \in Frame /\ g.kind = f.kind
          /\ h \in Frame /\ h.kind = "dropped"
      BY <1>0, <2>1, DrainFrames, NewFrames
    <3> HIDE DEF g, h
    <3>2. Sound(<<g>> \o Tail(stack), drainingDepth, applying, iteratingTopic)
      BY <1>0, <2>1, <3>1, SoundTop DEF StackInv
    <3>3. Sound(<<h>> \o (<<g>> \o Tail(stack)), drainingDepth, applying, iteratingTopic)
      BY <1>0, <3>1, <3>2, SoundPush DEF Handles
    <3> QED BY <2>1, <2>3, <3>3 DEF StackInv, nested, g, h
  <2>4. CASE UNCHANGED stack
    BY <2>1, <2>4 DEF StackInv, nested
  <2> QED BY <1>1, <2>2, <2>3, <2>4 DEF DrainMessage, Top, Below
<1>2. CASE FinishDrain
  BY <1>2, LeaveSound DEF FinishDrain, Running, Below, Drains, Iterations
<1>3. CASE DrainNext
  <2> DEFINE s == f.cur
             l == IF WasFreed(s) THEN <<>> ELSE indices[s]
             g == [f EXCEPT !.cur = next[s], !.sub = s, !.left = l]
  <2>1. stack # <<>> /\ f.kind = "drainAll" /\ stack' = <<g>> \o Tail(stack) /\ UNCHANGED nested
    BY <1>3 DEF DrainNext, Running, Top, Below
  <2>2. s \in Subscribers
    BY <1>0, <1>3, <2>1 DEF DrainNext, Frame, FrameRecord
  <2>3. next[s] \in Subscribers \cup {NoSub}
    BY <2>2 DEF TypeOK
  <2>4. g \in Frame /\ g.kind = f.kind
    <3>1. l \in Seq(Nat)
      BY <2>2, IndexList
    <3>2. f \in Frame /\ f.kind = "drainAll"
      BY <1>0, <2>1
    <3> HIDE DEF f, s, l
    <3> QED BY <2>2, <2>3, <3>1, <3>2, NextFrame
  <2> HIDE DEF g
  <2>5. Sound(stack', drainingDepth, applying, iteratingTopic)
    BY <1>0, <2>1, <2>4, SoundTop DEF StackInv
  <2> QED BY <2>1, <2>5 DEF StackInv, nested
<1>4. CASE FinishDrainAll
  BY <1>4, LeaveSound DEF FinishDrainAll, Running, Below, Drains, Iterations
<1>5. CASE FinishSend \/ HandlerReturn
  <2>1. stack # <<>> /\ f.kind \in {"send", "dropped"} /\ stack' = Tail(stack) /\ UNCHANGED nested
    BY <1>5 DEF FinishSend, HandlerReturn, Running, Below
  <2>2. Sound(stack', drainingDepth, applying, iteratingTopic)
    BY <1>0, <2>1, SoundPop DEF StackInv, Handles
  <2> QED BY <2>1, <2>2 DEF StackInv, nested
<1>6. CASE LoopDrain
  <2>1. /\ stack' = <<DrainAllFrame>> \o stack /\ drainingDepth' = drainingDepth + 1
        /\ UNCHANGED <<iteratingTopic, applying>>
    BY <1>6 DEF LoopDrain, Push, EnterDraining
  <2>2. DrainAllFrame \in Frame /\ DrainAllFrame.kind = "drainAll"
    BY NewFrames
  <2>3. Sound(<<DrainAllFrame>> \o stack, drainingDepth + 1, applying, iteratingTopic)
    BY <1>0, <2>2, SoundPush DEF StackInv
  <2> QED BY <2>1, <2>3 DEF StackInv
<1> QED BY <1>1, <1>2, <1>3, <1>4, <1>5, <1>6

\* Publishes.
LEMMA SoundPublishes ==
  TypeOK /\ StackInv
    /\ (StartIterating \/ PublishVisit \/ FinishPublish \/ PublishBigVisit \/ FinishPublishBig)
    => StackInv'
<1> SUFFICES ASSUME TypeOK, StackInv,
                    StartIterating \/ PublishVisit \/ FinishPublish \/ PublishBigVisit
                      \/ FinishPublishBig
             PROVE  StackInv'
  OBVIOUS
<1> DEFINE f == Head(stack)
<1>0. applying \in BOOLEAN /\ (stack # <<>> => f \in Frame)
  BY SoundPop DEF TypeOK, StackInv
<1>1. CASE StartIterating
  <2> DEFINE M == members[f.topic]
             g == [f EXCEPT !.kind = "publish", !.todo = M]
  <2>1. stack # <<>> /\ f.kind = "publishStart" /\ applying' = applying
    BY <1>1 DEF StartIterating, Running
  <2>2. CASE f.topic \in topics
    <3>1. /\ stack' = <<g>> \o Tail(stack) /\ drainingDepth' = drainingDepth + 1
          /\ iteratingTopic' = f.topic
      BY <1>1, <2>2 DEF StartIterating, EnterDraining, Top, Below
    <3>2. g \in Frame /\ g.kind = "publish"
      <4>1. M \in SUBSET Subscribers /\ f \in Frame /\ f.kind \in Walks
        BY <1>0, <2>1, <2>2 DEF TypeOK, Walks
      <4> HIDE DEF f, M
      <4> QED BY <4>1, WalkFrames, TopicTreeAssumption
    <3>3. Sound(Tail(stack), drainingDepth, applying, iteratingTopic)
      BY <1>0, <2>1, SoundPop DEF StackInv
    <3> HIDE DEF g
    <3>4. Sound(<<g>> \o Tail(stack), drainingDepth + 1, applying, f.topic)
      BY <1>0, <3>2, <3>3, SoundPush DEF Iterations
    <3> QED BY <2>1, <3>1, <3>4 DEF StackInv
  <2>3. CASE f.topic \notin topics
    BY <1>1, <2>1, <2>3 DEF StartIterating, StackInv
  <2> QED BY <2>2, <2>3
<1>2. CASE PublishVisit
  <2>1. stack # <<>> /\ f.kind = "publish" /\ UNCHANGED <<iteratingTopic, applying>>
    BY <1>2 DEF PublishVisit, Running
  <2>2. f.kind \in Walks
    BY <2>1 DEF Walks
  <2>3. f \in Frame /\ f.todo \in SUBSET Subscribers
    BY <1>0, <2>1 DEF Frame, FrameRecord
  <2>4. PICK s \in f.todo :
          \/ stack' = Top([f EXCEPT !.todo = f.todo \ {s}, !.cur = NoSub]) /\ UNCHANGED drainingDepth
          \/ BeginDrain(s, Top([f EXCEPT !.cur = s]))
          \/ Reference(f, s) /\ UNCHANGED drainingDepth
    BY <1>2 DEF PublishVisit
  <2>5. s \in Subscribers
    BY <2>3, <2>4
  <2> DEFINE g == [f EXCEPT !.todo = f.todo \ {s}, !.cur = NoSub]
             h == [f EXCEPT !.cur = s]
             k == [f EXCEPT !.todo = f.todo \ {s}, !.cur = NoSub, !.used = TRUE]
  <2>6. /\ g \in Frame /\ g.kind = f.kind
        /\ h \in Frame /\ h.kind = f.kind
        /\ k \in Frame /\ k.kind = f.kind
    <3>1. f.todo \ {s} \in SUBSET Subscribers /\ NoSub \in Subscribers \cup {NoSub}
      BY <2>3
    <3> HIDE DEF f
    <3>2. h \in Frame /\ h.kind = f.kind
      BY <2>2, <2>3, <2>5, WalkFrames
    <3>3. g \in Frame /\ g.kind = f.kind
      <4> DEFINE M == f.todo \ {s}
      <4>1. M \in SUBSET Subscribers
        BY <3>1
      <4> HIDE DEF M
      <4> QED BY <2>2, <2>3, <3>1, <4>1 DEF Frame, FrameRecord, Handles, Walks
    <3>4. k \in Frame /\ k.kind = f.kind
      <4> DEFINE M == f.todo \ {s}
      <4>1. M \in SUBSET Subscribers
        BY <3>1
      <4> HIDE DEF M
      <4> QED BY <2>2, <2>3, <3>1, <4>1 DEF Frame, FrameRecord, Handles, Walks
    <3> QED BY <3>2, <3>3, <3>4
  <2>7. CASE BeginDrain(s, Top(h))
    <3> HIDE DEF h
    <3>1. Sound(Top(h), drainingDepth, applying, iteratingTopic)
      BY <1>0, <2>1, <2>6, SoundTop DEF StackInv, Top, Below
    <3>2. Sound(stack', drainingDepth', applying, iteratingTopic)
      BY <2>5, <2>7, <3>1, BeginDrainSound
    <3> QED BY <2>1, <3>2 DEF StackInv
  <2>8. CASE stack' = Top(g) /\ UNCHANGED drainingDepth
    <3> HIDE DEF g
    <3>1. Sound(stack', drainingDepth, applying, iteratingTopic)
      BY <1>0, <2>1, <2>6, <2>8, SoundTop DEF StackInv, Top, Below
    <3> QED BY <2>1, <2>8, <3>1 DEF StackInv
  <2>9. CASE Reference(f, s) /\ UNCHANGED drainingDepth
    <3>1. stack' = Top(k)
      BY <2>9 DEF Reference
    <3> HIDE DEF k
    <3>2. Sound(stack', drainingDepth, applying, iteratingTopic)
      BY <1>0, <2>1, <2>6, <3>1, SoundTop DEF StackInv, Top, Below
    <3> QED BY <2>1, <2>9, <3>2 DEF StackInv
  <2> QED BY <2>4, <2>7, <2>8, <2>9
<1>3. CASE FinishPublish
  BY <1>3, LeaveSound DEF FinishPublish, Running, Below, Drains, Iterations
<1>4. CASE PublishBigVisit
  <2>1. stack # <<>> /\ f.kind = "publishBig" /\ UNCHANGED <<iteratingTopic, applying>>
    BY <1>4 DEF PublishBigVisit, Running
  <2>2. f.kind \in Walks
    BY <2>1 DEF Walks
  <2>3. f \in Frame /\ f.todo \in SUBSET Subscribers /\ f.msg \in 0 .. MaxCalls
    BY <1>0, <2>1 DEF Frame, FrameRecord
  <2>4. PICK s \in f.todo :
          \/ stack' = Top([f EXCEPT !.todo = f.todo \ {s}]) /\ UNCHANGED drainingDepth
          \/ BeginSend(s, f.msg, Top([f EXCEPT !.todo = f.todo \ {s}]))
    BY <1>4 DEF PublishBigVisit
  <2>5. s \in Subscribers
    BY <2>3, <2>4
  <2> DEFINE g == [f EXCEPT !.todo = f.todo \ {s}]
  <2>6. g \in Frame /\ g.kind = f.kind
    <3>1. f.todo \ {s} \in SUBSET Subscribers
      BY <2>3
    <3> HIDE DEF f
    <3> QED BY <2>2, <2>3, <2>5, <3>1, WalkFrames
  <2>7. Sound(Top(g), drainingDepth, applying, iteratingTopic)
    <3> HIDE DEF g
    <3> QED BY <1>0, <2>1, <2>6, SoundTop DEF StackInv, Top, Below
  <2>8. CASE stack' = Top(g) /\ UNCHANGED drainingDepth
    BY <2>1, <2>7, <2>8 DEF StackInv
  <2>9. CASE BeginSend(s, f.msg, Top(g))
    <3>1. Sound(stack', drainingDepth', applying, iteratingTopic)
      BY <2>3, <2>5, <2>7, <2>9, BeginSendSound
    <3> QED BY <2>1, <3>1 DEF StackInv
  <2> QED BY <2>4, <2>8, <2>9
<1>5. CASE FinishPublishBig
  BY <1>5, LeaveSound DEF FinishPublishBig, Running, Below, Drains, Iterations
<1> QED BY <1>1, <1>2, <1>3, <1>4, <1>5

\* applyPending, and what leaves the stack alone.
LEMMA SoundApply ==
  TypeOK /\ StackInv /\ (ApplyOp \/ FreePending \/ FinishApply \/ \E s \in Subscribers : Writable(s))
    => StackInv'
<1> SUFFICES ASSUME TypeOK, StackInv,
                    ApplyOp \/ FreePending \/ FinishApply \/ \E s \in Subscribers : Writable(s)
             PROVE  StackInv'
  OBVIOUS
<1> DEFINE f == Head(stack)
<1>0. applying \in BOOLEAN /\ (stack # <<>> => f \in Frame)
  BY SoundPop DEF TypeOK, StackInv
<1>1. CASE ApplyOp
  <2> DEFINE op == pendingOps[f.op]
             g == [f EXCEPT !.op = f.op + 1]
             rest == Top(g)
  <2>1. stack # <<>> /\ f.kind = "apply" /\ f.op <= Len(pendingOps)
        /\ UNCHANGED <<iteratingTopic, applying>>
    BY <1>1 DEF ApplyOp, Running
  <2>2. g \in Frame /\ g.kind = f.kind
    BY <1>0, <2>1, DrainFrames
  <2>3. Sound(rest, drainingDepth, applying, iteratingTopic)
    <3> HIDE DEF g
    <3> QED BY <1>0, <2>1, <2>2, SoundTop DEF StackInv, Top, Below
  <2>4. op \in PendingOp
    <3>1. f.op \in 1 .. Len(pendingOps) /\ pendingOps \in Seq(PendingOp)
      BY <1>0, <2>1 DEF Frame, FrameRecord, TypeOK
    <3> QED BY <3>1
  <2>5. op.sub \in Subscribers \cup {NoSub} /\ op.topic \in Topics /\ op.msg \in 0 .. MaxCalls
    BY <2>4 DEF PendingOp
  <2> HIDE DEF op
  <2>6. CASE stack' = rest /\ UNCHANGED drainingDepth
    BY <2>1, <2>3, <2>6 DEF StackInv
  <2>7. CASE BeginPublish(op.sub, op.topic, op.msg, rest)
    <3> HIDE DEF rest
    <3>1. Sound(stack', drainingDepth', applying, iteratingTopic)
      BY <2>3, <2>5, <2>7, BeginPublishSound
    <3> QED BY <2>1, <3>1 DEF StackInv
  <2> QED BY <1>1, <2>6, <2>7 DEF ApplyOp, op
<1>2. CASE FreePending
  BY <1>2 DEF FreePending, StackInv, nested
<1>3. CASE FinishApply
  <2>1. /\ stack # <<>> /\ f.kind = "apply" /\ stack' = Tail(stack) /\ applying' = FALSE
        /\ UNCHANGED <<drainingDepth, iteratingTopic>>
    BY <1>3 DEF FinishApply, Running, Below
  <2>2. drainingDepth = 0 /\ iteratingTopic = NoTopic /\ Sound(Tail(stack), 0, FALSE, NoTopic)
    BY <1>0, <2>1, SoundPop DEF StackInv
  <2> QED BY <2>1, <2>2 DEF StackInv
<1>4. CASE \E s \in Subscribers : Writable(s)
  BY <1>4 DEF Writable, StackInv, nested
<1> QED BY <1>1, <1>2, <1>3, <1>4

\* No step leaves an unsound stack.
LEMMA SoundStep == TypeOK /\ StackInv /\ [Next]_vars => StackInv'
<1>1. TypeOK /\ StackInv /\ UNCHANGED vars => StackInv'
  BY DEF vars, nested, StackInv
<1> QED BY <1>1, SoundApplication, SoundDrains, SoundPublishes, SoundApply DEF Next, Step, Loop, Library

-----------------------------------------------------------------------------
(* Type correctness, one group of variables at a time.                     *)

TreeTypes ==
  /\ status \in [Subscribers -> {"none", "live", "doomed"}]
  /\ topicsOf \in [Subscribers -> SUBSET Topics]
  /\ members \in [Topics -> SUBSET Subscribers]
  /\ topics \in SUBSET Topics

ListTypes ==
  /\ indices \in [Subscribers -> Seq(0 .. MaxOutgoing)]
  /\ \A s \in Subscribers : Len(indices[s]) <= MaxIndices
  /\ prev \in [Subscribers -> Subscribers \cup {NoSub}]
  /\ next \in [Subscribers -> Subscribers \cup {NoSub}]
  /\ drainable \in Subscribers \cup {NoSub}

DeferTypes ==
  /\ iteratingTopic \in Topics \cup {NoTopic}
  /\ pending \in BOOLEAN
  /\ applying \in BOOLEAN
  /\ pendingFree \in Seq(Subscribers)
  /\ pendingOps \in Seq(PendingOp)

SocketTypes ==
  /\ outgoing \in Seq(0 .. MaxCalls)
  /\ lastCall \in 0 .. MaxCalls
  /\ full \in SUBSET Subscribers
  /\ delivered \in [Subscribers -> Seq(0 .. MaxCalls)]
  /\ fault \in Faults

\* TypeOK is the groups, the depth and the stack.
LEMMA TypeGroups ==
  TypeOK <=> TreeTypes /\ ListTypes /\ DeferTypes /\ SocketTypes
               /\ drainingDepth \in Nat /\ stack \in Seq(Frame) /\ handlerCalls \in Applications
  BY DEF TypeOK, TreeTypes, ListTypes, DeferTypes, SocketTypes

\* The frame and the operation a step works on.
LEMMA HeadFrame ==
  ASSUME TypeOK, stack # <<>>
  PROVE  Head(stack) \in Frame /\ Head(stack) \in FrameRecord
  BY DEF TypeOK, Frame

\* applyPending looks at a deferred call.
LEMMA OpAtFrame ==
  ASSUME TypeOK, stack # <<>>, Head(stack).kind = "apply", Head(stack).op <= Len(pendingOps)
  PROVE  /\ Head(stack).op \in 1 .. Len(pendingOps)
         /\ pendingOps[Head(stack).op] \in PendingOp
<1>1. Head(stack).op \in Nat /\ Head(stack).op > 0
  BY HeadFrame DEF Frame, FrameRecord
<1>2. pendingOps \in Seq(PendingOp)
  BY DEF TypeOK
<1> QED BY <1>1, <1>2

\* Deleting a subscriber.
LEMMA DestroyTypes ==
  ASSUME TreeTypes, NEW s \in Subscribers, Destroy(s)
  PROVE  TreeTypes'
  BY DEF TreeTypes, Destroy

\* Leaving a topic.
LEMMA EraseTypes ==
  ASSUME TreeTypes, NEW s \in Subscribers, NEW t \in Topics, NEW from, EraseFromTopic(s, t, from)
  PROVE  members' \in [Topics -> SUBSET Subscribers] /\ topics' \in SUBSET Topics
  BY DEF TreeTypes, EraseFromTopic

\* Each step keeps the types of the tree.
LEMMA TreeTypesStep == TypeOK /\ Next => TreeTypes'
<1> SUFFICES ASSUME TypeOK, Next PROVE TreeTypes'
  OBVIOUS
<1>0. TreeTypes
  BY TypeGroups
<1>1. ASSUME NEW s \in Subscribers, NEW t \in Topics, Subscribe(s, t) PROVE TreeTypes'
  BY <1>0, <1>1 DEF Subscribe, TreeTypes
<1>2. ASSUME NEW s \in Subscribers, NEW t \in Topics, Unsubscribe(s, t) PROVE TreeTypes'
  <2>1. status' = status /\ topicsOf' = [topicsOf EXCEPT ![s] = @ \ {t}]
        /\ (UNCHANGED <<members, topics>> \/ EraseFromTopic(s, t, 1))
    BY <1>2 DEF Unsubscribe
  <2>2. members' \in [Topics -> SUBSET Subscribers] /\ topics' \in SUBSET Topics
    BY <1>0, <2>1, EraseTypes DEF TreeTypes
  <2> QED BY <1>0, <2>1, <2>2 DEF TreeTypes
<1>3. ASSUME NEW s \in Subscribers, Close(s) \/ End(s) PROVE TreeTypes'
  <2>1. CASE UNCHANGED treeVars
    BY <1>0, <2>1 DEF TreeTypes, treeVars
  <2>2. CASE Destroy(s)
    BY <1>0, <2>2, DestroyTypes
  <2>3. CASE status' = [status EXCEPT ![s] = "doomed"] /\ UNCHANGED <<topicsOf, members, topics>>
    BY <1>0, <2>3 DEF TreeTypes
  <2> QED BY <1>3, <2>1, <2>2, <2>3 DEF Close, End, FreeSubscriber
<1>4. CASE ApplyOp
  <2> DEFINE f == Head(stack)
             op == pendingOps[f.op]
  <2>1. stack # <<>> /\ f.kind = "apply" /\ f.op <= Len(pendingOps)
        /\ UNCHANGED <<status, topicsOf>>
    BY <1>4 DEF ApplyOp, Running
  <2>2. op \in PendingOp
    BY <2>1, OpAtFrame
  <2>3. CASE op.kind = "subscribe" /\ members' = [members EXCEPT ![op.topic] = @ \cup {op.sub}]
             /\ topics' = topics
    BY <1>0, <2>1, <2>2, <2>3 DEF TreeTypes, PendingOp
  <2>4. CASE op.kind = "unsubscribe" /\ EraseFromTopic(op.sub, op.topic, f.op + 1)
    <3>1. op.sub \in Subscribers /\ op.topic \in Topics
      BY <2>2, <2>4 DEF PendingOp
    <3> QED BY <1>0, <2>1, <2>4, <3>1, EraseTypes DEF TreeTypes
  <2>5. CASE UNCHANGED <<members, topics>>
    BY <1>0, <2>1, <2>5 DEF TreeTypes
  <2> QED BY <1>4, <2>3, <2>4, <2>5 DEF ApplyOp
<1>5. CASE FreePending
  <2>1. Head(pendingFree) \in Subscribers
    BY <1>5 DEF FreePending, TypeOK
  <2> QED BY <1>0, <1>5, <2>1, DestroyTypes DEF FreePending
<1>6. CASE UNCHANGED treeVars
  BY <1>0, <1>6 DEF TreeTypes, treeVars
<1>7. CASE \/ \E s \in Subscribers \cup {NoSub}, t \in Topics : Publish(s, t) \/ PublishBig(s, t)
           \/ \E s \in Subscribers : Send(s) \/ Writable(s)
  BY <1>6, <1>7 DEF Publish, PublishBig, Send, Writable
<1>8. CASE \/ DrainMessage \/ FinishDrain \/ DrainNext \/ FinishDrainAll \/ FinishSend
           \/ HandlerReturn \/ LoopDrain
  BY <1>6, <1>8 DEF DrainMessage, FinishDrain, DrainNext, FinishDrainAll, FinishSend,
                    HandlerReturn, LoopDrain
<1>9. CASE \/ StartIterating \/ PublishVisit \/ FinishPublish \/ PublishBigVisit
           \/ FinishPublishBig \/ FinishApply
  BY <1>6, <1>9 DEF StartIterating, PublishVisit, FinishPublish, PublishBigVisit,
                    FinishPublishBig, FinishApply
<1> QED BY <1>1, <1>2, <1>3, <1>4, <1>5, <1>7, <1>8, <1>9 DEF Next, Step, Loop, Application, Library

\* The index given to a message fits its type.
LEMMA NextIndexType ==
  ASSUME SocketTypes
  PROVE  NextIndex \in 0 .. MaxOutgoing
<1>1. Len(outgoing) \in Nat /\ MaxOutgoing + 1 \in Nat \ {0} /\ MaxOutgoing \in Nat
  BY TopicTreeAssumption DEF SocketTypes
<1>2. \A a \in Nat, b \in Nat \ {0} : a % b \in Nat /\ a % b < b
  OBVIOUS
<1>3. NextIndex \in Nat /\ NextIndex < MaxOutgoing + 1
  BY <1>1, <1>2 DEF NextIndex
<1> QED BY <1>1, <1>3

\* Leaving the list of drainable subscribers.
LEMMA UnlinkTypes ==
  ASSUME ListTypes, NEW s \in Subscribers, Unlink(s)
  PROVE  /\ prev' \in [Subscribers -> Subscribers \cup {NoSub}]
         /\ next' \in [Subscribers -> Subscribers \cup {NoSub}]
         /\ drainable' \in Subscribers \cup {NoSub}
  BY TopicTreeAssumption DEF ListTypes, Unlink, HeadWithout

\* Entering it.
LEMMA LinkTypes ==
  ASSUME ListTypes, NEW s \in Subscribers, LinkFirst(s)
  PROVE  /\ prev' \in [Subscribers -> Subscribers \cup {NoSub}]
         /\ next' \in [Subscribers -> Subscribers \cup {NoSub}]
         /\ drainable' \in Subscribers \cup {NoSub}
  BY DEF ListTypes, LinkFirst

\* A subscriber's indices are given up, or all but the first handled ones.
LEMMA EmptiedTypes ==
  ASSUME ListTypes, NEW s \in Subscribers, indices' = [indices EXCEPT ![s] = <<>>]
  PROVE  /\ indices' \in [Subscribers -> Seq(0 .. MaxOutgoing)]
         /\ \A n \in Subscribers : Len(indices'[n]) <= MaxIndices
<1>1. <<>> \in Seq(0 .. MaxOutgoing) /\ Len(<<>>) <= MaxIndices
  BY TopicTreeAssumption
<1>2. indices' \in [Subscribers -> Seq(0 .. MaxOutgoing)]
  BY <1>1 DEF ListTypes
<1>3. ASSUME NEW n \in Subscribers PROVE Len(indices'[n]) <= MaxIndices
  BY <1>1 DEF ListTypes
<1> QED BY <1>2, <1>3

\* Beginning to drain a subscriber.
LEMMA BeginDrainTypes ==
  ASSUME ListTypes, NEW s \in Subscribers, NEW rest, BeginDrain(s, rest)
  PROVE  ListTypes'
<1>1. Unlink(s) /\ indices' = [indices EXCEPT ![s] = <<>>]
  BY DEF BeginDrain
<1> QED BY <1>1, UnlinkTypes, EmptiedTypes DEF ListTypes

\* Beginning to send.
LEMMA BeginSendTypes ==
  ASSUME ListTypes, NEW s \in Subscribers, NEW m, NEW rest, BeginSend(s, m, rest)
  PROVE  ListTypes'
<1>1. CASE UNCHANGED listVars
  BY <1>1 DEF ListTypes, listVars
<1>2. CASE BeginDrain(s, <<SendFrame(s, m)>> \o rest)
  BY <1>2, BeginDrainTypes
<1> QED BY <1>1, <1>2 DEF BeginSend

\* Freeing a subscriber.
LEMMA FreeListTypes ==
  ASSUME ListTypes, NEW s \in Subscribers, FreeSubscriber(s)
  PROVE  ListTypes'
<1>1. indices' = [indices EXCEPT ![s] = <<>>] /\ (Unlink(s) \/ UNCHANGED <<prev, next, drainable>>)
  BY DEF FreeSubscriber
<1> QED BY <1>1, UnlinkTypes, EmptiedTypes DEF ListTypes

\* A publish gives a subscriber one more index: there is room for it.
LEMMA ReferenceTypes ==
  ASSUME ListTypes, SocketTypes, NEW f, NEW s \in Subscribers, Len(indices[s]) < MaxIndices,
         Reference(f, s)
  PROVE  ListTypes'
<1> DEFINE i == NextIndex
<1>1. i \in 0 .. MaxOutgoing
  BY NextIndexType
<1>2. indices' = [indices EXCEPT ![s] = Append(indices[s], i)]
      /\ (LinkFirst(s) \/ UNCHANGED <<prev, next, drainable>>)
  BY DEF Reference
<1> HIDE DEF i
<1>3. indices[s] \in Seq(0 .. MaxOutgoing)
  BY DEF ListTypes
<1>4. Append(indices[s], i) \in Seq(0 .. MaxOutgoing) /\ Len(Append(indices[s], i)) <= MaxIndices
  BY <1>1, <1>3, TopicTreeAssumption
<1>5. /\ indices' \in [Subscribers -> Seq(0 .. MaxOutgoing)]
      /\ \A n \in Subscribers : Len(indices'[n]) <= MaxIndices
  BY <1>2, <1>4 DEF ListTypes
<1> QED BY <1>2, <1>5, LinkTypes DEF ListTypes

\* Each step keeps the types of the list.
LEMMA ListTypesStep == TypeOK /\ Next => ListTypes'
<1> SUFFICES ASSUME TypeOK, Next PROVE ListTypes'
  OBVIOUS
<1>0. ListTypes /\ SocketTypes
  BY TypeGroups
<1>1. ASSUME NEW s \in Subscribers, Close(s) \/ End(s) PROVE ListTypes'
  <2>1. FreeSubscriber(s) \/ UNCHANGED listVars
    BY <1>1 DEF Close, End
  <2> QED BY <1>0, <2>1, FreeListTypes DEF ListTypes, listVars
<1>2. ASSUME NEW s \in Subscribers, Send(s) PROVE ListTypes'
  BY <1>0, <1>2, BeginSendTypes DEF Send
<1>3. CASE DrainNext
  <2> DEFINE s == Head(stack).cur
  <2>1. s \in Subscribers
    BY <1>3, HeadFrame DEF DrainNext, Running, FrameRecord
  <2>2. (UNCHANGED indices \/ indices' = [indices EXCEPT ![s] = <<>>])
        /\ UNCHANGED <<prev, next, drainable>>
    BY <1>3 DEF DrainNext
  <2> QED BY <1>0, <2>1, <2>2, EmptiedTypes DEF ListTypes
<1>4. CASE FinishDrainAll
  BY <1>0, <1>4 DEF FinishDrainAll, ListTypes
<1>5. CASE PublishVisit
  <2> DEFINE f == Head(stack)
  <2>1. f.todo \in SUBSET Subscribers
    BY <1>5, HeadFrame DEF PublishVisit, Running, FrameRecord
  <2>2. PICK s \in f.todo : \/ UNCHANGED listVars
                            \/ BeginDrain(s, Top([f EXCEPT !.cur = s]))
                            \/ Len(indices[s]) < MaxIndices /\ Reference(f, s)
    BY <1>5 DEF PublishVisit
  <2>3. s \in Subscribers
    BY <2>1, <2>2
  <2> QED BY <1>0, <2>2, <2>3, BeginDrainTypes, ReferenceTypes DEF ListTypes, listVars
<1>6. CASE PublishBigVisit
  <2> DEFINE f == Head(stack)
  <2>1. f.todo \in SUBSET Subscribers
    BY <1>6, HeadFrame DEF PublishBigVisit, Running, FrameRecord
  <2>2. PICK s \in f.todo : \/ UNCHANGED listVars
                            \/ BeginSend(s, f.msg, Top([f EXCEPT !.todo = @ \ {s}]))
    BY <1>6 DEF PublishBigVisit
  <2>3. s \in Subscribers
    BY <2>1, <2>2
  <2> QED BY <1>0, <2>2, <2>3, BeginSendTypes DEF ListTypes, listVars
<1>7. CASE UNCHANGED listVars
  BY <1>0, <1>7 DEF ListTypes, listVars
<1>8. CASE \/ \E s \in Subscribers, t \in Topics : Subscribe(s, t) \/ Unsubscribe(s, t)
           \/ \E s \in Subscribers \cup {NoSub}, t \in Topics : Publish(s, t) \/ PublishBig(s, t)
           \/ \E s \in Subscribers : Writable(s)
  BY <1>7, <1>8 DEF Subscribe, Unsubscribe, Publish, PublishBig, Writable
<1>9. CASE DrainMessage \/ FinishDrain \/ FinishSend \/ HandlerReturn \/ LoopDrain
  BY <1>7, <1>9 DEF DrainMessage, FinishDrain, FinishSend, HandlerReturn, LoopDrain, listVars
<1>10. CASE \/ StartIterating \/ FinishPublish \/ FinishPublishBig
            \/ ApplyOp \/ FreePending \/ FinishApply
  BY <1>7, <1>10 DEF StartIterating, FinishPublish, FinishPublishBig,
                     ApplyOp, FreePending, FinishApply, listVars
<1> QED BY <1>1, <1>2, <1>3, <1>4, <1>5, <1>6, <1>8, <1>9, <1>10 DEF Next, Step, Loop, Application, Library

\* Deferring a call.
LEMMA DeferOpTypes ==
  ASSUME DeferTypes, NEW op \in PendingOp, DeferOp(op)
  PROVE  pending' \in BOOLEAN /\ pendingOps' \in Seq(PendingOp)
  BY DEF DeferTypes, DeferOp

\* Deferring a delete.
LEMMA FreeDeferTypes ==
  ASSUME DeferTypes, NEW s \in Subscribers, FreeSubscriber(s), UNCHANGED <<iteratingTopic, applying>>
  PROVE  DeferTypes'
<1>1. CASE UNCHANGED deferVars
  BY <1>1 DEF DeferTypes, deferVars
<1>2. CASE pendingFree' = Append(pendingFree, s) /\ pending' = TRUE /\ UNCHANGED pendingOps
  BY <1>2 DEF DeferTypes
<1> QED BY <1>1, <1>2 DEF FreeSubscriber

\* The calls that are deferred.
LEMMA OpTypes ==
  ASSUME NEW s, NEW t \in Topics
  PROVE  /\ s \in Subscribers =>
              Op("subscribe", s, t) \in PendingOp /\ Op("unsubscribe", s, t) \in PendingOp
         /\ \A m \in 0 .. MaxCalls : s \in Subscribers \cup {NoSub} =>
              [Op("publish", s, t) EXCEPT !.msg = m] \in PendingOp
  BY TopicTreeAssumption DEF Op, PendingOp

\* Each step keeps the types of what is deferred.
LEMMA DeferTypesStep == TypeOK /\ Next => DeferTypes'
<1> SUFFICES ASSUME TypeOK, Next PROVE DeferTypes'
  OBVIOUS
<1>0. DeferTypes
  BY TypeGroups
<1>1. ASSUME NEW s \in Subscribers, NEW t \in Topics, Subscribe(s, t) \/ Unsubscribe(s, t)
      PROVE  DeferTypes'
  <2>1. /\ UNCHANGED <<iteratingTopic, applying, pendingFree>>
        /\ \/ UNCHANGED <<pending, pendingOps>>
           \/ DeferOp(Op("subscribe", s, t))
           \/ DeferOp(Op("unsubscribe", s, t))
    BY <1>1 DEF Subscribe, Unsubscribe, nested, deferVars
  <2>2. pending' \in BOOLEAN /\ pendingOps' \in Seq(PendingOp)
    BY <1>0, <2>1, DeferOpTypes, OpTypes DEF DeferTypes
  <2> QED BY <1>0, <2>1, <2>2 DEF DeferTypes
<1>2. ASSUME NEW s \in Subscribers, Close(s) \/ End(s) PROVE DeferTypes'
  <2>1. (FreeSubscriber(s) \/ UNCHANGED deferVars) /\ UNCHANGED <<iteratingTopic, applying>>
    BY <1>2 DEF Close, End, nested
  <2> QED BY <1>0, <2>1, FreeDeferTypes DEF DeferTypes, deferVars
<1>3. ASSUME NEW s \in Subscribers \cup {NoSub}, NEW t \in Topics, Publish(s, t) \/ PublishBig(s, t)
      PROVE  DeferTypes'
  <2> DEFINE op == [Op("publish", s, t) EXCEPT !.msg = lastCall + 1]
  <2>1. op \in PendingOp
    <3>1. lastCall + 1 \in 0 .. MaxCalls
      BY <1>3, TopicTreeAssumption DEF Publish, PublishBig, TypeOK
    <3> QED BY <3>1, OpTypes
  <2>2. /\ UNCHANGED <<applying, pendingFree>>
        /\ iteratingTopic' \in {iteratingTopic, t}
        /\ UNCHANGED <<pending, pendingOps>> \/ DeferOp(op)
    BY <1>3 DEF Publish, PublishBig, deferVars
  <2> HIDE DEF op
  <2>3. pending' \in BOOLEAN /\ pendingOps' \in Seq(PendingOp)
    BY <1>0, <2>1, <2>2, DeferOpTypes DEF DeferTypes
  <2> QED BY <1>0, <2>2, <2>3 DEF DeferTypes
<1>4. CASE StartIterating
  <2>1. Head(stack).topic \in Topics \cup {NoTopic}
    BY <1>4, HeadFrame DEF StartIterating, Running, FrameRecord
  <2> QED BY <1>0, <1>4, <2>1 DEF StartIterating, DeferTypes, deferVars
<1>5. CASE FinishDrain \/ FinishDrainAll \/ FinishPublish \/ FinishPublishBig
  <2>1. /\ UNCHANGED deferVars
        /\ iteratingTopic' \in {iteratingTopic, NoTopic}
        /\ LeaveDraining(Below)
    BY <1>5 DEF FinishDrain, FinishDrainAll, FinishPublish, FinishPublishBig
  <2>2. applying' \in BOOLEAN
    BY <2>1, Zenon DEF LeaveDraining
  <2> QED BY <1>0, <2>1, <2>2 DEF DeferTypes, deferVars
<1>6. CASE ApplyOp
  <2> DEFINE k == Head(stack).op
  <2>1. /\ k \in 1 .. Len(pendingOps)
        /\ pendingOps[k] \in PendingOp
        /\ pendingOps' = [pendingOps EXCEPT ![k] = [pendingOps[k] EXCEPT !.kind = "applied"]]
        /\ UNCHANGED <<pending, pendingFree, iteratingTopic, applying>>
    BY <1>6, OpAtFrame DEF ApplyOp, Running
  <2>2. [pendingOps[k] EXCEPT !.kind = "applied"] \in PendingOp
    BY <2>1 DEF PendingOp
  <2> HIDE DEF k
  <2>3. pendingOps' \in Seq(PendingOp)
    BY <1>0, <2>1, <2>2, ExceptSeq DEF DeferTypes
  <2> QED BY <1>0, <2>1, <2>3 DEF DeferTypes
<1>7. CASE FreePending
  <2>1. pendingFree' = Tail(pendingFree) /\ pendingFree # <<>>
        /\ UNCHANGED <<pending, pendingOps, iteratingTopic, applying>>
    BY <1>7 DEF FreePending, nested
  <2>2. Tail(pendingFree) \in Seq(Subscribers)
    BY <1>0, <2>1 DEF DeferTypes
  <2> QED BY <1>0, <2>1, <2>2 DEF DeferTypes
<1>8. CASE FinishApply
  <2>1. <<>> \in Seq(PendingOp)
    BY EmptySeq
  <2> QED BY <1>0, <1>8, <2>1 DEF FinishApply, DeferTypes
<1>9. CASE UNCHANGED <<deferVars, iteratingTopic, applying>>
  BY <1>0, <1>9 DEF DeferTypes, deferVars
<1>10. CASE \/ \E s \in Subscribers : Send(s) \/ Writable(s)
            \/ DrainMessage \/ DrainNext \/ FinishSend \/ HandlerReturn \/ LoopDrain
            \/ PublishVisit \/ PublishBigVisit
  BY <1>9, <1>10 DEF Send, Writable, DrainMessage, DrainNext, FinishSend, HandlerReturn, LoopDrain,
                     PublishVisit, PublishBigVisit, nested
<1> QED BY <1>1, <1>2, <1>3, <1>4, <1>5, <1>6, <1>7, <1>8, <1>10 DEF Next, Step, Loop, Application, Library

\* Writing to a WebSocket.
LEMMA WrittenTypes ==
  ASSUME SocketTypes, NEW s \in Subscribers, NEW q \in Seq(0 .. MaxCalls), Written(s, q)
  PROVE  full' \in SUBSET Subscribers /\ delivered' \in [Subscribers -> Seq(0 .. MaxCalls)]
<1>1. delivered[s] \o q \in Seq(0 .. MaxCalls)
  BY ConcatProperties DEF SocketTypes
<1> QED BY <1>1 DEF SocketTypes, Written

\* A message of the queue.
LEMMA OutgoingType ==
  ASSUME SocketTypes, NEW i \in Nat, i < Len(outgoing)
  PROVE  outgoing[i + 1] \in 0 .. MaxCalls
<1>1. i + 1 \in 1 .. Len(outgoing) /\ outgoing \in Seq(0 .. MaxCalls)
  BY DEF SocketTypes
<1> QED BY <1>1, ElementOfSeq

\* Giving up the queue.
LEMMA ClearTypes ==
  ASSUME SocketTypes, NEW head
  PROVE  ClearIfUnused(head) \in Seq(0 .. MaxCalls) /\ <<>> \in Seq(0 .. MaxCalls)
<1>1. <<>> \in Seq(0 .. MaxCalls) /\ outgoing \in Seq(0 .. MaxCalls)
  BY EmptySeq DEF SocketTypes
<1>2. ClearIfUnused(head) = <<>> \/ ClearIfUnused(head) = outgoing
  BY DEF ClearIfUnused
<1> QED BY <1>1, <1>2

\* end() writes a prefix of what was waiting for s.
LEMMA KeptTypes ==
  ASSUME SocketTypes, ListTypes, NEW s \in Subscribers, NEW kept \in 1 .. Len(indices[s]),
         \A i \in DOMAIN indices[s] : indices[s][i] < Len(outgoing)
  PROVE  delivered[s] \o [i \in 1 .. kept |-> outgoing[indices[s][i] + 1]] \in Seq(0 .. MaxCalls)
<1> DEFINE q == [i \in 1 .. kept |-> outgoing[indices[s][i] + 1]]
<1>1. indices[s] \in Seq(0 .. MaxOutgoing) /\ DOMAIN indices[s] = 1 .. Len(indices[s])
      /\ Len(indices[s]) \in Nat
  BY DEF ListTypes
<1>2. ASSUME NEW i \in 1 .. kept PROVE outgoing[indices[s][i] + 1] \in 0 .. MaxCalls
  <2>1. i \in DOMAIN indices[s]
    BY <1>1
  <2>2. indices[s][i] \in 0 .. MaxOutgoing
    BY <1>1, <2>1, ElementOfSeq
  <2>3. indices[s][i] \in Nat
    BY <2>2, TopicTreeAssumption
  <2> QED BY <2>1, <2>3, OutgoingType
<1>3. q \in [1 .. kept -> 0 .. MaxCalls] /\ kept \in Nat
  BY <1>1, <1>2
<1> HIDE DEF q
<1>4. q \in Seq(0 .. MaxCalls)
  BY <1>3, SeqDef
<1>5. delivered[s] \in Seq(0 .. MaxCalls)
  BY DEF SocketTypes
<1> QED BY <1>4, <1>5, ConcatProperties DEF q

\* Each step keeps the types of the queue and the sockets.
LEMMA SocketTypesStep == TypeOK /\ Next => SocketTypes'
<1> SUFFICES ASSUME TypeOK, Next PROVE SocketTypes'
  OBVIOUS
<1>0. SocketTypes /\ ListTypes
  BY TypeGroups
<1>1. ASSUME NEW s \in Subscribers, NEW t \in Topics, Subscribe(s, t) \/ Unsubscribe(s, t)
      PROVE  SocketTypes'
  <2>1. /\ UNCHANGED <<outgoing, lastCall, fault>>
        /\ full' \in {full, full \cup {s}}
        /\ delivered' = delivered \/ delivered' = [delivered EXCEPT ![s] = <<>>]
    BY <1>1 DEF Subscribe, Unsubscribe, sockets
  <2>2. <<>> \in Seq(0 .. MaxCalls)
    BY EmptySeq
  <2> QED BY <1>0, <2>1, <2>2 DEF SocketTypes
<1>2. ASSUME NEW s \in Subscribers, Close(s) PROVE SocketTypes'
  BY <1>0, <1>2 DEF Close, SocketTypes
<1>3. ASSUME NEW s \in Subscribers, End(s) PROVE SocketTypes'
  <2>1. UNCHANGED <<lastCall, full>>
    BY <1>3 DEF End
  <2>2. CASE \A i \in DOMAIN indices[s] : indices[s][i] < Len(outgoing)
    <3>1. PICK kept \in 1 .. Len(indices[s]) :
            /\ delivered' = [delivered EXCEPT ![s] =
                               delivered[s] \o [i \in 1 .. kept |-> outgoing[indices[s][i] + 1]]]
            /\ outgoing' = ClearIfUnused(drainable')
            /\ UNCHANGED fault
      BY <1>3, <2>2 DEF End
    <3>2. delivered' \in [Subscribers -> Seq(0 .. MaxCalls)]
      BY <1>0, <2>2, <3>1, KeptTypes DEF SocketTypes
    <3>3. outgoing' \in Seq(0 .. MaxCalls)
      BY <1>0, <3>1, ClearTypes
    <3> QED BY <1>0, <2>1, <3>1, <3>2, <3>3 DEF SocketTypes
  <2>3. CASE ~\A i \in DOMAIN indices[s] : indices[s][i] < Len(outgoing)
    BY <1>0, <1>3, <2>1, <2>3 DEF End, SocketTypes, Faults
  <2> QED BY <2>2, <2>3
<1>4. CASE \/ \E s \in Subscribers : Send(s)
           \/ \E s \in Subscribers \cup {NoSub}, t \in Topics : Publish(s, t) \/ PublishBig(s, t)
  <2>1. lastCall < MaxCalls /\ lastCall' = lastCall + 1
        /\ UNCHANGED <<outgoing, full, delivered, fault>>
    BY <1>4 DEF Send, Publish, PublishBig
  <2>2. lastCall' \in 0 .. MaxCalls
    BY <1>0, <2>1, TopicTreeAssumption DEF SocketTypes
  <2> QED BY <1>0, <2>1, <2>2 DEF SocketTypes
<1>5. CASE \E s \in Subscribers : Writable(s)
  BY <1>0, <1>5 DEF Writable, SocketTypes
<1>6. CASE DrainMessage
  <2> DEFINE f == Head(stack)
             i == Head(f.left)
  <2>1. stack # <<>> /\ f.kind \in {"drain", "drainAll"} /\ f.left # <<>>
        /\ UNCHANGED <<outgoing, lastCall>>
    BY <1>6 DEF DrainMessage, Draining, Running
  <2>2. f.sub \in Subscribers /\ i \in Nat
    BY <2>1, HeadFrame, DrainFrames
  <2>3. CASE i < Len(outgoing) /\ Written(f.sub, <<outgoing[i + 1]>>) /\ UNCHANGED fault
    <3>1. <<outgoing[i + 1]>> \in Seq(0 .. MaxCalls)
      BY <1>0, <2>2, <2>3, OutgoingType
    <3> QED BY <1>0, <2>1, <2>2, <2>3, <3>1, WrittenTypes DEF SocketTypes
  <2>4. CASE UNCHANGED <<full, delivered>> /\ fault' \in {fault, "outgoingMessages read past its end"}
    BY <1>0, <2>1, <2>4 DEF SocketTypes, Faults
  <2> QED BY <1>6, <2>3, <2>4 DEF DrainMessage
<1>7. CASE FinishSend
  <2> DEFINE f == Head(stack)
  <2>1. stack # <<>> /\ f.kind = "send" /\ UNCHANGED <<outgoing, lastCall, fault>>
    BY <1>7 DEF FinishSend, Running
  <2>2. f.sub \in Subscribers /\ f.msg \in 0 .. MaxCalls
    BY <2>1, HeadFrame DEF Frame, FrameRecord, Handles
  <2>3. <<f.msg>> \in Seq(0 .. MaxCalls)
    BY <2>2
  <2>4. Written(f.sub, <<f.msg>>) \/ UNCHANGED <<full, delivered>>
    BY <1>7 DEF FinishSend
  <2> QED BY <1>0, <2>1, <2>2, <2>3, <2>4, WrittenTypes DEF SocketTypes
<1>8. CASE FinishDrain \/ FinishDrainAll
  <2>1. UNCHANGED sockets /\ UNCHANGED fault
        /\ (outgoing' = ClearIfUnused(drainable) \/ outgoing' = <<>>)
    BY <1>8 DEF FinishDrain, FinishDrainAll
  <2>2. outgoing' \in Seq(0 .. MaxCalls)
    BY <1>0, <2>1, ClearTypes
  <2> QED BY <1>0, <2>1, <2>2 DEF SocketTypes, sockets
<1>9. CASE FinishPublish
  <2>1. Head(stack).msg \in 0 .. MaxCalls
    BY <1>9, HeadFrame DEF FinishPublish, Running, FrameRecord
  <2>2. (outgoing' = Append(outgoing, Head(stack).msg) \/ outgoing' = outgoing)
        /\ UNCHANGED sockets /\ UNCHANGED fault
    BY <1>9 DEF FinishPublish
  <2>3. outgoing' \in Seq(0 .. MaxCalls)
    <3>1. outgoing \in Seq(0 .. MaxCalls)
      BY <1>0 DEF SocketTypes
    <3>2. Append(outgoing, Head(stack).msg) \in Seq(0 .. MaxCalls)
      BY <2>1, <3>1, AppendProperties
    <3> QED BY <2>2, <3>1, <3>2
  <2> QED BY <1>0, <2>2, <2>3 DEF SocketTypes, sockets
<1>10. CASE HandlerReturn
  BY <1>0, <1>10 DEF HandlerReturn, SocketTypes
<1>11. CASE StartIterating
  BY <1>0, <1>11 DEF StartIterating, SocketTypes, sockets, Faults
<1>12. CASE UNCHANGED <<outgoing, sockets, fault>>
  BY <1>0, <1>12 DEF SocketTypes, sockets
<1>13. CASE DrainNext \/ LoopDrain \/ PublishVisit \/ PublishBigVisit \/ FinishPublishBig
              \/ ApplyOp \/ FreePending \/ FinishApply
  BY <1>12, <1>13 DEF DrainNext, LoopDrain, PublishVisit, PublishBigVisit, FinishPublishBig,
                      ApplyOp, FreePending, FinishApply
<1> QED BY <1>1, <1>2, <1>3, <1>4, <1>5, <1>6, <1>7, <1>8, <1>9, <1>10, <1>11, <1>13
        DEF Next, Step, Loop, Application, Library

-----------------------------------------------------------------------------
(* The theorem on types.                                                   *)

\* The initial state.
LEMMA TypeInit == Init => TypeOK
<1> SUFFICES ASSUME Init PROVE TypeOK
  OBVIOUS
<1>1. \A S : <<>> \in Seq(S)
  BY EmptySeq
<1>2. TreeTypes
  BY DEF Init, TreeTypes
<1>3. ListTypes
  <2>1. <<>> \in Seq(0 .. MaxOutgoing) /\ Len(<<>>) <= MaxIndices
    BY <1>1, TopicTreeAssumption
  <2> QED BY <2>1 DEF Init, ListTypes
<1>4. DeferTypes
  BY <1>1 DEF Init, DeferTypes
<1>5. SocketTypes
  <2>1. <<>> \in Seq(0 .. MaxCalls) /\ 0 \in 0 .. MaxCalls
    BY <1>1, TopicTreeAssumption
  <2> QED BY <2>1 DEF Init, SocketTypes, Faults
<1>6. drainingDepth \in Nat /\ stack \in Seq(Frame) /\ handlerCalls \in Applications
  BY <1>1 DEF Init
<1> QED BY <1>2, <1>3, <1>4, <1>5, <1>6, TypeGroups

\* Each step keeps all types.
LEMMA TypeStep == TypeOK /\ StackInv /\ [Next]_vars => TypeOK'
<1> SUFFICES ASSUME TypeOK, StackInv, [Next]_vars PROVE TypeOK'
  OBVIOUS
<1>1. CASE Next
  <2>1. TreeTypes' /\ ListTypes' /\ DeferTypes' /\ SocketTypes'
    BY <1>1, TreeTypesStep, ListTypesStep, DeferTypesStep, SocketTypesStep
  <2>2. drainingDepth' \in Nat /\ stack' \in Seq(Frame)
    BY SoundStep, SoundTypes DEF StackInv
  <2>3. handlerCalls' \in Applications
    BY <1>1 DEF Next, Step, TypeOK
  <2>4. (TypeOK)'
    BY <2>1, <2>2, <2>3 DEF TypeOK, TreeTypes, ListTypes, DeferTypes, SocketTypes
  <2> QED BY <2>4
<1>2. CASE UNCHANGED vars
  BY <1>2 DEF vars, treeVars, listVars, deferVars, nested, sockets, TypeOK, PendingOp
<1> QED BY <1>1, <1>2

\* Every variable keeps its type, whatever dropped handlers call: in
\* particular drainingDepth never underflows, no subscriber holds more indices
\* than its array has room for, and every index fits its 16 bits
\* (TopicTree.h:43-48, 89, 193-197, 352-368).
THEOREM TypesHold == Spec => []TypeOK
<1>1. Init => TypeOK /\ StackInv
  BY TypeInit, SoundInit
<1>2. TypeOK /\ StackInv /\ [Next]_vars => TypeOK' /\ StackInv'
  BY TypeStep, SoundStep
<1>3. Spec => [](TypeOK /\ StackInv)
  BY <1>1, <1>2, PTL DEF Spec
<1> QED BY <1>3, PTL

-----------------------------------------------------------------------------
(* What is deferred waits for a draining section or for applyPending.      *)

DeferInv ==
  /\ pending => applying \/ drainingDepth > 0
  /\ pendingOps # <<>> \/ pendingFree # <<>> => pending

\* Leaving a section: what is deferred is applied or still inside another.
LEMMA LeaveDefer ==
  ASSUME TypeOK, DeferInv, NEW rest, LeaveDraining(rest), UNCHANGED deferVars
  PROVE  DeferInv'
<1>1. drainingDepth \in Nat /\ drainingDepth' = drainingDepth - 1
  BY DEF TypeOK, LeaveDraining
<1>2. applying' <=> applying \/ (drainingDepth = 1 /\ pending /\ ~applying)
  BY Zenon DEF LeaveDraining
<1>3. ASSUME pending PROVE applying' \/ drainingDepth' > 0
  BY <1>1, <1>2, <1>3 DEF DeferInv
<1> QED BY <1>3 DEF DeferInv, deferVars

\* Freeing a subscriber.
LEMMA FreeDefer ==
  ASSUME DeferInv, NEW s, FreeSubscriber(s), UNCHANGED nested
  PROVE  DeferInv'
<1>1. CASE UNCHANGED deferVars
  BY <1>1 DEF DeferInv, deferVars, nested
<1>2. CASE (drainingDepth > 0 \/ applying) /\ pending' = TRUE
  BY <1>2 DEF DeferInv, nested
<1> QED BY <1>1, <1>2 DEF FreeSubscriber

\* Steps that may only enter a draining section.
LEMMA EnterDefer ==
  ASSUME TypeOK, DeferInv, UNCHANGED <<deferVars, applying>>,
         drainingDepth' \in {drainingDepth, drainingDepth + 1}
  PROVE  DeferInv'
  BY DEF DeferInv, deferVars, TypeOK

\* Nothing is deferred at the start.
LEMMA DeferInit == Init => DeferInv
  BY DEF Init, DeferInv

\* Each step keeps what is deferred inside a section.
LEMMA DeferStep == TypeOK /\ StackInv /\ DeferInv /\ [Next]_vars => DeferInv'
<1> SUFFICES ASSUME TypeOK, StackInv, DeferInv, [Next]_vars PROVE DeferInv'
  OBVIOUS
<1>0. drainingDepth \in Nat /\ (iteratingTopic # NoTopic => drainingDepth > 0)
  BY SoundTypes DEF StackInv, TypeOK
<1>1. ASSUME NEW s \in Subscribers, NEW t \in Topics, Subscribe(s, t) \/ Unsubscribe(s, t)
      PROVE  DeferInv'
  <2>1. UNCHANGED nested /\ (UNCHANGED deferVars \/ (Deferred(t) /\ pending' = TRUE))
    BY <1>1 DEF Subscribe, Unsubscribe, DeferOp
  <2>2. Deferred(t) => drainingDepth > 0
    BY <1>0, TopicTreeAssumption DEF Deferred
  <2> QED BY <2>1, <2>2 DEF DeferInv, deferVars, nested
<1>2. ASSUME NEW s \in Subscribers, Close(s) \/ End(s) PROVE DeferInv'
  <2>1. UNCHANGED nested /\ (FreeSubscriber(s) \/ UNCHANGED deferVars)
    BY <1>2 DEF Close, End
  <2> QED BY <2>1, FreeDefer DEF DeferInv, deferVars, nested
<1>3. ASSUME NEW s \in Subscribers \cup {NoSub}, NEW t \in Topics, Publish(s, t) PROVE DeferInv'
  <2>1. CASE drainingDepth > 0 /\ pending' = TRUE /\ UNCHANGED <<drainingDepth, applying>>
    BY <2>1 DEF DeferInv
  <2>2. CASE BeginPublish(s, t, lastCall + 1, stack) /\ UNCHANGED <<deferVars, applying>>
    BY <2>2, EnterDefer DEF BeginPublish, EnterDraining
  <2> QED BY <1>3, <2>1, <2>2 DEF Publish, DeferOp
<1>4. ASSUME NEW s \in Subscribers \cup {NoSub}, NEW t \in Topics, PublishBig(s, t) PROVE DeferInv'
  BY <1>4, EnterDefer DEF PublishBig, EnterDraining
<1>5. ASSUME NEW s \in Subscribers, Send(s) PROVE DeferInv'
  BY <1>5, EnterDefer DEF Send, BeginSend, BeginDrain, EnterDraining
<1>6. CASE FinishDrain \/ FinishDrainAll \/ FinishPublish \/ FinishPublishBig
  BY <1>6, LeaveDefer DEF FinishDrain, FinishDrainAll, FinishPublish, FinishPublishBig
<1>7. CASE StartIterating \/ LoopDrain
  BY <1>7, EnterDefer DEF StartIterating, LoopDrain, EnterDraining
<1>8. CASE PublishVisit \/ PublishBigVisit
  BY <1>8, EnterDefer DEF PublishVisit, PublishBigVisit, BeginSend, BeginDrain, EnterDraining
<1>9. CASE ApplyOp
  <2>1. pendingOps # <<>>
    BY <1>9, OpAtFrame DEF ApplyOp, Running
  <2>2. UNCHANGED <<pending, applying>> /\ drainingDepth' \in {drainingDepth, drainingDepth + 1}
    BY <1>9 DEF ApplyOp, BeginPublish, EnterDraining
  <2> QED BY <1>0, <2>1, <2>2 DEF DeferInv
<1>10. CASE FreePending
  BY <1>10 DEF FreePending, DeferInv, nested
<1>11. CASE FinishApply
  BY <1>11 DEF FinishApply, DeferInv
<1>12. CASE UNCHANGED <<deferVars, nested>>
  BY <1>12 DEF DeferInv, deferVars, nested
<1>13. CASE \/ \E s \in Subscribers : Writable(s)
            \/ DrainMessage \/ DrainNext \/ FinishSend \/ HandlerReturn \/ UNCHANGED vars
  BY <1>12, <1>13 DEF Writable, DrainMessage, DrainNext, FinishSend, HandlerReturn, vars
<1> QED BY <1>1, <1>2, <1>3, <1>4, <1>5, <1>6, <1>7, <1>8, <1>9, <1>10, <1>11, <1>13
        DEF Next, Step, Loop, Application, Library

-----------------------------------------------------------------------------
(* The topic being walked is in the tree.                                  *)

PinnedInv == iteratingTopic # NoTopic => iteratingTopic \in topics

TopicPin ==
  iteratingTopic # NoTopic /\ iteratingTopic' = iteratingTopic =>
    /\ members'[iteratingTopic] = members[iteratingTopic]
    /\ iteratingTopic \in topics'

\* A walk is a draining section, and applyPending is outside of every walk.
LEMMA WalkNesting ==
  ASSUME TypeOK, StackInv
  PROVE  /\ iteratingTopic # NoTopic => drainingDepth > 0
         /\ Running("apply") => iteratingTopic = NoTopic
<1>1. applying \in BOOLEAN
  BY DEF TypeOK
<1>2. iteratingTopic # NoTopic => drainingDepth > 0
  BY SoundTypes DEF StackInv
<1>3. ASSUME Running("apply") PROVE iteratingTopic = NoTopic
  <2>1. stack # <<>> /\ Head(stack).kind = "apply"
    BY <1>3 DEF Running
  <2>2. iteratingTopic = NoTopic /\ Sound(Tail(stack), 0, FALSE, NoTopic)
    BY <1>1, <2>1, SoundPop DEF StackInv
  <2> QED BY <2>2
<1> QED BY <1>2, <1>3

\* No step changes the set that is walked.
LEMMA PinStep ==
  TypeOK /\ StackInv /\ PinnedInv /\ [Next]_vars => PinnedInv' /\ TopicPin
<1> SUFFICES ASSUME TypeOK, StackInv, PinnedInv, [Next]_vars PROVE PinnedInv' /\ TopicPin
  OBVIOUS
<1>0. /\ iteratingTopic # NoTopic => drainingDepth > 0
      /\ Running("apply") => iteratingTopic = NoTopic
  BY WalkNesting
<1>1. ASSUME NEW s \in Subscribers, NEW t \in Topics, Subscribe(s, t) \/ Unsubscribe(s, t)
      PROVE  PinnedInv' /\ TopicPin
  <2>1. CASE Deferred(t)
    BY <1>1, <2>1 DEF Subscribe, Unsubscribe, Deferred, PinnedInv, TopicPin, nested
  <2>2. CASE ~Deferred(t)
    BY <1>1, <2>2
       DEF Subscribe, Unsubscribe, Deferred, EraseFromTopic, PinnedInv, TopicPin, nested, TypeOK
  <2> QED BY <2>1, <2>2
<1>2. ASSUME NEW s \in Subscribers, Close(s) \/ End(s) PROVE PinnedInv' /\ TopicPin
  <2>1. UNCHANGED iteratingTopic /\ (FreeSubscriber(s) \/ UNCHANGED treeVars)
    BY <1>2 DEF Close, End, nested
  <2>2. CASE iteratingTopic = NoTopic
    BY <2>1, <2>2 DEF PinnedInv, TopicPin
  <2>3. CASE iteratingTopic # NoTopic
    <3>1. UNCHANGED <<members, topics>>
      BY <1>0, <2>1, <2>3 DEF FreeSubscriber, treeVars
    <3> QED BY <2>1, <2>3, <3>1 DEF PinnedInv, TopicPin
  <2> QED BY <2>2, <2>3
<1>3. CASE ApplyOp \/ FreePending
  BY <1>0, <1>3 DEF ApplyOp, FreePending, PinnedInv, TopicPin, nested
<1>4. CASE StartIterating
  BY <1>4 DEF StartIterating, PinnedInv, TopicPin, treeVars
<1>5. CASE FinishPublish \/ FinishPublishBig
  BY <1>5 DEF FinishPublish, FinishPublishBig, PinnedInv, TopicPin, treeVars
<1>6. ASSUME NEW s \in Subscribers \cup {NoSub}, NEW t \in Topics, PublishBig(s, t)
      PROVE  PinnedInv' /\ TopicPin
  BY <1>6 DEF PublishBig, PinnedInv, TopicPin, treeVars
<1>7. CASE UNCHANGED treeVars /\ UNCHANGED iteratingTopic
  BY <1>7 DEF PinnedInv, TopicPin, treeVars
<1>8. CASE \/ \E s \in Subscribers \cup {NoSub}, t \in Topics : Publish(s, t)
           \/ \E s \in Subscribers : Send(s) \/ Writable(s)
  BY <1>7, <1>8 DEF Publish, Send, Writable, nested
<1>9. CASE \/ DrainMessage \/ FinishDrain \/ DrainNext \/ FinishDrainAll \/ FinishSend
           \/ HandlerReturn \/ LoopDrain
  BY <1>7, <1>9 DEF DrainMessage, FinishDrain, DrainNext, FinishDrainAll, FinishSend,
                    HandlerReturn, LoopDrain, nested
<1>10. CASE PublishVisit \/ PublishBigVisit \/ FinishApply \/ UNCHANGED vars
  BY <1>7, <1>10 DEF PublishVisit, PublishBigVisit, FinishApply, vars, nested
<1> QED BY <1>1, <1>2, <1>3, <1>4, <1>5, <1>6, <1>8, <1>9, <1>10 DEF Next, Step, Loop, Application, Library

-----------------------------------------------------------------------------
(* The inductive invariant, and what follows from it.                      *)

IInv == TypeOK /\ StackInv /\ DeferInv /\ PinnedInv

\* The invariant holds in every reachable state.
LEMMA Inductive == Spec => []IInv
<1>1. Init => IInv
  BY TypeInit, SoundInit, DeferInit DEF IInv, PinnedInv, Init
<1>2. IInv /\ [Next]_vars => IInv'
  BY TypeStep, SoundStep, DeferStep, PinStep DEF IInv
<1> QED BY <1>1, <1>2, PTL DEF Spec

\* However drains, publishes, handlers and applyPending were nested, once the
\* last of them has returned no flag, count or deferred call is left over
\* (TopicTree.h:89-94, 193-214, 290-312, 331-373).
THEOREM RestHolds == Spec => []AtRest
<1>1. IInv => AtRest
  <2> SUFFICES ASSUME IInv, Idle PROVE AtRest
    BY DEF AtRest
  <2>1. drainingDepth = 0 /\ ~applying /\ iteratingTopic = NoTopic
    BY SoundTypes DEF IInv, StackInv, Idle
  <2>2. ~pending
    BY <2>1 DEF IInv, DeferInv
  <2> QED BY <2>1, <2>2 DEF IInv, DeferInv, AtRest
<1> QED BY <1>1, Inductive, PTL

\* The set a publish iterates is not modified, and its topic not deleted, by
\* anything the handlers it runs may call (TopicTree.h:242-288, 349-373).
THEOREM PinHolds == Spec => TopicPinned
<1>1. IInv /\ [Next]_vars => [TopicPin]_vars
  BY PinStep DEF IInv
<1>2. Spec => [][TopicPin]_vars
  BY <1>1, Inductive, PTL DEF Spec
<1> QED BY <1>2 DEF TopicPinned, TopicPin

=============================================================================
