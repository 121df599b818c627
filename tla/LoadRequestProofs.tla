------------------------- MODULE LoadRequestProofs -------------------------
(***************************************************************************)
(* What a Load keeps, for every configuration and however deep its calls   *)
(* nest.                                                                   *)
(*                                                                         *)
(* The inductive invariant says of each call how its two streams relate    *)
(* (TeeOK), and of the stack that the calls above one that waits for its   *)
(* LoadImpl write to its output or above (Nested).  So nobody writes       *)
(* to the stream of a call that buffers before it pushes (Clean).  The     *)
(* second part says where the data of the request is in each phase         *)
(* (Traced).                                                               *)
(***************************************************************************)
EXTENDS LoadRequest, SequencesExt, SequenceTheorems, TLAPS

-----------------------------------------------------------------------------
\* Facts about the stack of calls and the chunks of a stream.

\* What erase( begin() ) does to it.
LEMMA TailToSet ==
  ASSUME NEW S, NEW s \in Seq(S), s # <<>>
  PROVE  /\ Head(s) \in S
         /\ Tail(s) \in Seq(S)
         /\ ToSet(s) = {Head(s)} \cup ToSet(Tail(s))
<1> DEFINE t == Tail(s)
<1>1. /\ t \in Seq(S) /\ Head(s) = s[1] /\ DOMAIN s = 1 .. Len(s)
      /\ Len(s) \in Nat \ {0} /\ DOMAIN t = 1 .. Len(s) - 1
      /\ \A i \in 1 .. Len(s) - 1 : t[i] = s[i + 1]
  OBVIOUS
<1>2. ASSUME NEW v \in ToSet(s) PROVE v \in {Head(s)} \cup ToSet(t)
  <2>1. PICK i \in DOMAIN s : v = s[i]
    BY <1>2 DEF ToSet
  <2>2. CASE i = 1
    BY <1>1, <2>1, <2>2
  <2>3. CASE i # 1
    <3>1. i - 1 \in DOMAIN t /\ t[i - 1] = v
      BY <1>1, <2>1, <2>3
    <3> QED BY <3>1 DEF ToSet
  <2> QED BY <2>2, <2>3
<1>3. ASSUME NEW v \in ToSet(t) PROVE v \in ToSet(s)
  <2>1. PICK i \in DOMAIN t : v = t[i]
    BY <1>3 DEF ToSet
  <2>2. i + 1 \in DOMAIN s /\ s[i + 1] = v
    BY <1>1, <2>1
  <2> QED BY <2>2 DEF ToSet
<1>4. Head(s) \in ToSet(s) /\ Head(s) \in S
  BY <1>1 DEF ToSet
<1> QED BY <1>1, <1>2, <1>3, <1>4

\* What a call leaves as it was.
LEMMA AppendFacts ==
  ASSUME NEW S, NEW s \in Seq(S), NEW e \in S
  PROVE  /\ Append(s, e) \in Seq(S) /\ Len(Append(s, e)) = Len(s) + 1
         /\ Append(s, e)[Len(s) + 1] = e
         /\ \A i \in 1 .. Len(s) : Append(s, e)[i] = s[i]
  OBVIOUS

\* What is left when the calls above the first n have returned.
LEMMA PrefixFacts ==
  ASSUME NEW S, NEW s \in Seq(S), NEW n \in Nat, n <= Len(s)
  PROVE  /\ SubSeq(s, 1, n) \in Seq(S) /\ Len(SubSeq(s, 1, n)) = n
         /\ \A i \in 1 .. n : SubSeq(s, 1, n)[i] = s[i]
<1>1. Len(s) \in Nat /\ \A i \in 1 .. Len(s) : s[i] \in S
  BY ElementOfSeq, LenProperties
<1>2. \A i \in 1 .. n : s[i] \in S
  BY <1>1
<1>3. 1 \in Int /\ n \in Int /\ n - 1 + 1 = n
  OBVIOUS
<1>4. /\ SubSeq(s, 1, n) \in Seq(S)
      /\ Len(SubSeq(s, 1, n)) = IF 1 <= n THEN n - 1 + 1 ELSE 0
      /\ \A i \in 1 .. n - 1 + 1 : SubSeq(s, 1, n)[i] = s[1 + i - 1]
  BY <1>2, <1>3, SubSeqProperties
<1>5. Len(SubSeq(s, 1, n)) = n
  BY <1>3, <1>4
<1>6. ASSUME NEW i \in 1 .. n PROVE SubSeq(s, 1, n)[i] = s[i]
  <2>1. 1 + i - 1 = i /\ i \in 1 .. n - 1 + 1
    BY <1>3
  <2> QED BY <1>4, <2>1
<1> QED BY <1>4, <1>5, <1>6

-----------------------------------------------------------------------------

Results == {"none", "true", "false", "threw"}

Types ==
  /\ config \in Configs
  /\ stack \in Seq(Frame)
  /\ out \in Seq(Chunk)
  /\ result \in Results
  /\ loads \in Nat
  /\ answer \in Nat

WhatTheTeeGot(f) ==
  IF f.node \in config.transforms \ config.teesTransformed
  THEN TransformedBy(f.node, f.teed) ELSE f.teed

\* How the streams of a call relate.
TeeOK(f) ==
  /\ f.transformed.pos = 0
  /\ f.phase \in {"enter", "attempt", "impl", "routing", "calling", "loaded"} => f.temp.pos = 0
  /\ f.phase = "transformed" => f.transformed.data = TransformedBy(f.node, f.temp.data)
  /\ f.phase = "transformed" => f.node \in config.transforms
  /\ f.phase = "teed" =>
       /\ f.node \in config.tees
       /\ f.node \notin config.transforms => f.temp.pos = 0
       /\ WhatTheTeeGot(f) = IF f.node \in config.transforms
                             THEN f.transformed.data ELSE f.temp.data
  /\ (f.phase = "true" /\ f.node \in config.tees \ config.ignored) => f.pushed = WhatTheTeeGot(f)

FrameOK(f) ==
  /\ f \in Frame
  /\ f.attempt <= config.retries[f.node] + 1
  /\ TeeOK(f)

\* The phases before anything is copied to o_rData.
Before == {"enter", "attempt", "impl", "routing", "calling", "loaded", "transformed",
           "teed", "failed"}

\* got is how much the stream of f has got.
Clean(f, got) == (f.phase \in Before /\ Buffers(f.node)) => got = f.found

Nested(f, d, g) ==
  /\ f.phase \in {"calling", "forwarding"}
  /\ f.phase = "calling" => g.data >= d

Frames ==
  /\ \A d \in 1 .. Len(stack) :
       FrameOK(stack[d]) /\ stack[d].data < d /\ Clean(stack[d], Got(stack[d].data))
  /\ \A d, e \in 1 .. Len(stack) : d < e => Nested(stack[d], d, stack[e])

IInv == Types /\ Frames
-----------------------------------------------------------------------------
\* The parts of a configuration have their types.
LEMMA ConfigFacts ==
  ASSUME config \in Configs
  PROVE  /\ config \in ConfigType
         /\ config.root \in Nodes
         /\ config.retries \in [Nodes -> 0 .. UintSize - 1]
         /\ config.forward \in [Nodes -> Nodes \cup {NoNode}]
         /\ config.route \in [Nodes -> Nodes \cup {NoNode}]
         /\ Length \in Nat /\ UintSize \in Nat \ {0}
  BY LoadAssumption DEF ConfigType

\* g is f, but for what its output has got and keeps.
Same(f, g) ==
  /\ g \in Frame
  /\ \E kept \in Seq(Chunk), got \in Nat : g = [f EXCEPT !.kept = kept, !.got = got]

LEMMA SameFacts ==
  ASSUME NEW f \in Frame, NEW g, Same(f, g)
  PROVE  /\ g \in Frame
         /\ g.node = f.node /\ g.phase = f.phase /\ g.data = f.data
         /\ g.attempt = f.attempt /\ g.temp = f.temp /\ g.transformed = f.transformed
         /\ g.found = f.found /\ g.teed = f.teed /\ g.pushed = f.pushed
  BY DEF Same, Frame

\* What is written to the output of a call changes nothing else.
LEMMA SameIsOK ==
  ASSUME NEW f \in Frame, NEW g, Same(f, g), FrameOK(f)
  PROVE  FrameOK(g)
<1>1. /\ g \in Frame
      /\ g.node = f.node /\ g.phase = f.phase /\ g.attempt = f.attempt /\ g.temp = f.temp
      /\ g.transformed = f.transformed /\ g.teed = f.teed /\ g.pushed = f.pushed
  BY SameFacts
<1>2. WhatTheTeeGot(g) = WhatTheTeeGot(f)
  BY <1>1 DEF WhatTheTeeGot
<1> QED BY <1>1, <1>2 DEF FrameOK, TeeOK

\* A frame is the same as itself.
LEMMA SameIsReflexive ==
  ASSUME NEW f \in Frame
  PROVE  Same(f, f)
<1>1. f.kept \in Seq(Chunk) /\ f.got \in Nat
  BY DEF Frame
<1>2. f = [f EXCEPT !.kept = f.kept, !.got = f.got]
  BY DEF Frame
<1> QED BY <1>1, <1>2 DEF Same

\* s is written to stream k.
LEMMA WrittenFacts ==
  ASSUME NEW calls \in Seq(Frame), NEW k \in 0 .. Len(calls), NEW s \in Seq(Chunk)
  PROVE  LET t == Written(calls, k, s)
         IN /\ t \in Seq(Frame) /\ Len(t) = Len(calls)
            /\ \A e \in 1 .. Len(calls) : Same(calls[e], t[e])
            /\ \A e \in 1 .. Len(calls) : e # k => t[e] = calls[e]
<1>1. /\ Len(calls) \in Nat
      /\ \A e \in 1 .. Len(calls) : calls[e] \in Frame /\ Same(calls[e], calls[e])
  BY ElementOfSeq, LenProperties, SameIsReflexive
<1>2. CASE k = 0
  BY <1>1, <1>2 DEF Written
<1>3. CASE k # 0
  <2>1. k \in 1 .. Len(calls)
    BY <1>1, <1>3
  <2>2. PICK f : f = calls[k]
    OBVIOUS
  <2>3. f \in Frame /\ f.kept \in Seq(Chunk) /\ f.got \in Nat
    BY <1>1, <2>1, <2>2 DEF Frame
  <2>4. /\ f.kept \o s \in Seq(Chunk) /\ f.got + Len(s) \in Nat
    BY <2>3, ConcatProperties, LenProperties
  <2>5. PICK g : g = [f EXCEPT !.kept = f.kept \o s, !.got = f.got + Len(s)]
    OBVIOUS
  <2>6. g \in Frame /\ Same(f, g)
    <3>1. g \in Frame
      BY <2>3, <2>4, <2>5 DEF Frame
    <3> QED BY <2>4, <2>5, <3>1 DEF Same
  <2>7. Written(calls, k, s) = [calls EXCEPT ![k] = g]
    BY <1>3, <2>1, <2>2, <2>5 DEF Written
  <2> QED BY <1>1, <2>1, <2>2, <2>6, <2>7, ExceptSeq
<1> QED BY <1>2, <1>3
-----------------------------------------------------------------------------
\* The call at depth m, the last that has not ended, goes on, and may write to its
\* stream.
LEMMA GoesOn ==
  ASSUME IInv, config' = config, NEW m \in 1 .. Len(stack),
         stack' \in Seq(Frame), Len(stack') = m, out' \in Seq(Chunk),
         result' \in Results, loads' \in Nat, answer' \in Nat,
         FrameOK(stack'[m]), stack'[m].data = stack[m].data,
         \A j : j = stack[m].data => Clean(stack'[m], Got(j)'),
         \A e \in 1 .. m - 1 : Same(stack[e], stack'[e]),
         \A e \in 1 .. m - 1 : e # stack[m].data => stack'[e] = stack[e],
         stack[m].data # 0 => out' = out
  PROVE  IInv'
<1>1. /\ Len(stack) \in Nat /\ m \in Nat /\ m > 0 /\ m <= Len(stack)
      /\ \A e \in 1 .. Len(stack) : stack[e] \in Frame /\ stack[e].data \in Nat
  <2>1. Len(stack) \in Nat /\ \A e \in 1 .. Len(stack) : stack[e] \in Frame
    BY ElementOfSeq, LenProperties DEF IInv, Types
  <2>2. \A f \in Frame : f.data \in Nat
    BY DEF Frame
  <2> QED BY <2>1, <2>2
<1>2. Types'
  BY DEF IInv, Types
<1>3. \A e \in 1 .. m : /\ stack'[e] \in Frame /\ stack'[e].data = stack[e].data
  <2>1. ASSUME NEW e \in 1 .. m - 1
        PROVE  stack'[e] \in Frame /\ stack'[e].data = stack[e].data
    <3>1. e \in 1 .. Len(stack)
      BY <1>1
    <3> QED BY <1>1, <3>1, SameFacts
  <2>2. stack'[m] \in Frame
    BY DEF FrameOK
  <2> QED BY <1>1, <2>1, <2>2
<1>4. ASSUME NEW e \in 1 .. m - 1
      PROVE  /\ FrameOK(stack'[e]) /\ stack'[e].data < e
             /\ \A j : j = stack[e].data => Clean(stack'[e], Got(j)')
  <2>1. /\ e \in 1 .. Len(stack) /\ e < m /\ e \in Nat
    BY <1>1
  <2>2. /\ FrameOK(stack[e]) /\ stack[e].data < e /\ Clean(stack[e], Got(stack[e].data))
        /\ Nested(stack[e], e, stack[m])
    BY <2>1 DEF IInv, Frames
  <2>3. FrameOK(stack'[e])
    BY <1>1, <2>1, <2>2, SameIsOK
  <2>4. ASSUME stack[e].phase = "calling", NEW j, j = stack[e].data
        PROVE  Got(j)' = Got(j)
    <3>1. stack[m].data >= e
      BY <2>2, <2>4 DEF Nested
    <3>2. j \in Nat
      BY <1>1, <2>1, <2>4
    <3>3. PICK k \in Nat : k = stack[m].data
      BY <1>1
    <3>4. j < e /\ k >= e
      BY <2>2, <2>4, <3>1, <3>2, <3>3
    <3>5. CASE j = 0
      <4>1. k # 0
        BY <2>1, <3>4
      <4>2. out' = out
        BY <3>3, <4>1
      <4> QED BY <3>5, <4>2 DEF Got
    <3>6. CASE j # 0
      <4>1. j \in 1 .. m - 1 /\ j # k
        BY <1>1, <2>1, <3>2, <3>4, <3>6
      <4>2. stack'[j] = stack[j]
        BY <3>3, <4>1
      <4> QED BY <3>6, <4>2 DEF Got
    <3> QED BY <3>5, <3>6
  <2>5. stack'[e].phase = stack[e].phase /\ stack'[e].node = stack[e].node
        /\ stack'[e].found = stack[e].found
    BY <1>1, <2>1, SameFacts
  <2>6. ASSUME NEW j, j = stack[e].data PROVE Clean(stack'[e], Got(j)')
    <3>1. CASE stack[e].phase = "calling"
      <4>1. Got(j)' = Got(j)
        BY <2>4, <2>6, <3>1
      <4> QED BY <2>2, <2>5, <2>6, <4>1 DEF Clean, Before
    <3>2. CASE stack[e].phase = "forwarding"
      BY <2>5, <3>2 DEF Clean, Before
    <3> QED BY <2>2, <3>1, <3>2 DEF Nested
  <2> QED BY <1>3, <2>1, <2>2, <2>3, <2>6
<1>5. stack'[m].data < m
  BY <1>1 DEF IInv, Frames
<1>6. ASSUME NEW e \in 1 .. m
      PROVE  FrameOK(stack[e])' /\ stack'[e].data < e /\ Clean(stack[e], Got(stack[e].data))'
  <2>0. PICK k : k = stack[e].data
    OBVIOUS
  <2>1. /\ FrameOK(stack'[e]) /\ stack'[e].data < e
        /\ Clean(stack'[e], Got(k)')
    <3>1. e = m \/ e \in 1 .. m - 1
      BY <1>1
    <3>2. CASE e = m
      BY <1>5, <2>0, <3>2
    <3>3. CASE e \in 1 .. m - 1
      BY <1>4, <2>0, <3>3
    <3> QED BY <3>1, <3>2, <3>3
  <2>2. PICK g : g = stack'[e]
    OBVIOUS
  <2>3. FrameOK(g)'
    BY <2>1, <2>2 DEF FrameOK, TeeOK, WhatTheTeeGot
  <2>5. Clean(g, Got(k)')
    BY <2>1, <2>2
  <2>6. Clean(g, Got(k))'
    BY <2>5 DEF Clean, Buffers
  <2>7. stack'[e].data = k
    BY <1>3, <2>0
  <2> QED BY <2>1, <2>2, <2>3, <2>6, <2>7
<1>7. ASSUME NEW d \in 1 .. m, NEW e \in 1 .. m, d < e
      PROVE  Nested(stack'[d], d, stack'[e])
  <2>1. d \in 1 .. m - 1 /\ d \in 1 .. Len(stack) /\ e \in 1 .. Len(stack)
    BY <1>1, <1>7
  <2>2. Nested(stack[d], d, stack[e])
    BY <1>7, <2>1 DEF IInv, Frames
  <2>3. stack'[d].phase = stack[d].phase
    BY <1>1, <2>1, SameFacts
  <2> QED BY <1>3, <2>2, <2>3 DEF Nested
<1>8. Frames'
  BY <1>6, <1>7 DEF Frames, Nested
<1> QED BY <1>2, <1>8 DEF IInv
-----------------------------------------------------------------------------
\* In t, the call at depth d has become f, and stream k may have got something.
HasBecome(t, calls, d, f, k) ==
  /\ t \in Seq(Frame)
  /\ Len(t) = Len(calls)
  /\ t[d] = f
  /\ \A e \in 1 .. Len(calls) : e # d => Same(calls[e], t[e])
  /\ \A e \in 1 .. Len(calls) : (e # d /\ e # k) => t[e] = calls[e]

Receiver(f, s) == IF Buffers(f.node) THEN ToTemp(f, s) ELSE f

\* The call at depth d becomes f and writes nothing.
LEMMA ReplacedFacts ==
  ASSUME NEW calls \in Seq(Frame), NEW d \in 1 .. Len(calls), NEW f \in Frame
  PROVE  HasBecome([calls EXCEPT ![d] = f], calls, d, f, d)
<1>1. \A e \in 1 .. Len(calls) : Same(calls[e], calls[e])
  BY ElementOfSeq, SameIsReflexive
<1> QED BY <1>1, ExceptSeq DEF HasBecome

\* The call at depth d passes s on and becomes f.
LEMMA PassedFacts ==
  ASSUME NEW calls \in Seq(Frame), NEW d \in 1 .. Len(calls), NEW f \in Frame, f.data < d,
         NEW s \in Seq(Chunk)
  PROVE  HasBecome(Passed(calls, d, f, s), calls, d, Receiver(f, s), f.data)
<1>1. /\ Len(calls) \in Nat
      /\ \A e \in 1 .. Len(calls) : calls[e] \in Frame /\ Same(calls[e], calls[e])
  BY ElementOfSeq, LenProperties, SameIsReflexive
<1>2. CASE Buffers(f.node)
  <2>1. PICK g : g = ToTemp(f, s)
    OBVIOUS
  <2>2. g \in Frame
    <3>1. f.temp.data \in Seq(Chunk)
      BY DEF Frame, Stream
    <3>2. f.temp.data \o s \in Seq(Chunk)
      BY <3>1, ConcatProperties
    <3> QED BY <2>1, <3>2 DEF ToTemp, Frame, Stream
  <2>3. Passed(calls, d, f, s) = [calls EXCEPT ![d] = g]
    BY <1>2, <2>1 DEF Passed
  <2> QED BY <1>1, <1>2, <2>1, <2>2, <2>3, ExceptSeq DEF HasBecome, Receiver
<1>3. CASE ~Buffers(f.node)
  <2>1. PICK u : u = [calls EXCEPT ![d] = f]
    OBVIOUS
  <2>2. /\ u \in Seq(Frame) /\ Len(u) = Len(calls) /\ u[d] = f
        /\ \A e \in 1 .. Len(calls) : e # d => u[e] = calls[e]
    BY <1>1, <2>1, ExceptSeq
  <2>3. PICK t : t = Written(u, f.data, s)
    OBVIOUS
  <2>4. f.data \in 0 .. Len(u) /\ f.data # d
    <3>1. f.data \in Nat
      BY DEF Frame
    <3> QED BY <1>1, <2>2, <3>1
  <2>5. /\ t \in Seq(Frame) /\ Len(t) = Len(u)
        /\ \A e \in 1 .. Len(u) : Same(u[e], t[e])
        /\ \A e \in 1 .. Len(u) : e # f.data => t[e] = u[e]
    BY <2>2, <2>3, <2>4, WrittenFacts
  <2>6. Passed(calls, d, f, s) = t
    BY <1>3, <2>1, <2>3 DEF Passed
  <2>7. /\ t \in Seq(Frame) /\ Len(t) = Len(calls) /\ t[d] = f
        /\ \A e \in 1 .. Len(calls) : e # d => Same(calls[e], t[e])
        /\ \A e \in 1 .. Len(calls) : (e # d /\ e # f.data) => t[e] = calls[e]
    BY <2>2, <2>4, <2>5
  <2> QED BY <1>3, <2>6, <2>7 DEF HasBecome, Receiver
<1> QED BY <1>2, <1>3

\* The innermost of the calls, the last that has not ended, goes on as f, and keeps
\* its stream clean if it buffers and nothing is copied yet.
LEMMA PassOnKeeps ==
  ASSUME IInv, config' = config, NEW m \in 1 .. Len(stack),
         NEW calls, calls = SubSeq(stack, 1, m), m = Len(stack) \/ m = Len(stack) - 1,
         NEW f, FrameOK(f), f.data = stack[m].data,
         f.node = stack[m].node, f.found = stack[m].found, stack[m].phase \in Before,
         NEW s \in Seq(Chunk), PassOn(calls, m, f, s),
         f.phase \in {"loaded", "failed", "impl", "calling"},
         result' \in Results, loads' \in Nat, answer' \in Nat
  PROVE  IInv'
<1>1. /\ Len(stack) \in Nat /\ m \in Nat /\ stack \in Seq(Frame)
  BY LenProperties DEF IInv, Types
<1>2. /\ calls \in Seq(Frame) /\ Len(calls) = m
      /\ \A e \in 1 .. m : calls[e] = stack[e]
  BY <1>1, PrefixFacts
<1>3. /\ FrameOK(stack[m]) /\ stack[m].data < m /\ Clean(stack[m], Got(stack[m].data))
  BY DEF IInv, Frames
<1>4. /\ f \in Frame /\ f.data \in Nat /\ f.data < m /\ m \in 1 .. Len(calls)
  BY <1>2, <1>3 DEF FrameOK, Frame
<1>5. /\ stack' \in Seq(Frame) /\ Len(stack') = m
      /\ stack'[m] = IF Buffers(f.node) THEN ToTemp(f, s) ELSE f
      /\ \A e \in 1 .. m : e # m => Same(calls[e], stack'[e])
      /\ \A e \in 1 .. m : (e # m /\ e # f.data) => stack'[e] = calls[e]
  <2>1. stack' = Passed(calls, m, f, s)
    BY DEF PassOn
  <2>2. HasBecome(Passed(calls, m, f, s), calls, m, Receiver(f, s), f.data)
    BY <1>2, <1>4, PassedFacts
  <2> QED BY <1>2, <2>1, <2>2 DEF HasBecome, Receiver
<1>6. /\ \A e \in 1 .. m - 1 : Same(stack[e], stack'[e])
      /\ \A e \in 1 .. m - 1 : e # stack[m].data => stack'[e] = stack[e]
  <2>1. \A e \in 1 .. m - 1 : e \in 1 .. m /\ e # m
    BY <1>1
  <2> QED BY <1>2, <1>5, <2>1
<1>7. PICK g : g = stack'[m]
  OBVIOUS
<1>8. /\ g \in Frame
      /\ g.node = f.node /\ g.phase = f.phase /\ g.data = f.data /\ g.found = f.found
      /\ g.attempt = f.attempt /\ g.temp.pos = f.temp.pos /\ g.transformed = f.transformed
  <2>1. g \in Frame
    BY <1>1, <1>5, <1>7, ElementOfSeq
  <2> QED BY <1>4, <1>5, <1>7, <2>1 DEF ToTemp, Frame, Stream
<1>9. FrameOK(g)
  BY <1>8 DEF FrameOK, TeeOK
<1>10. out' \in Seq(Chunk)
  BY ConcatProperties DEF PassOn, IInv, Types
<1>11. f.data # 0 => out' = out
  BY DEF PassOn, ReachesClient
<1>12. ASSUME NEW j, j = stack[m].data PROVE Clean(g, Got(j)')
  <2>1. SUFFICES ASSUME Buffers(f.node) PROVE Got(j)' = Got(j)
    BY <1>3, <1>8, <1>12 DEF Clean
  <2>2. out' = out
    BY <2>1 DEF PassOn, ReachesClient
  <2>3. Passed(calls, m, f, s) = [calls EXCEPT ![m] = ToTemp(f, s)]
    BY <2>1 DEF Passed
  <2>4. j # 0 => stack'[j] = stack[j]
    <3>1. j \in Nat /\ j < m
      BY <1>3, <1>4, <1>12
    <3>2. j # 0 => j \in 1 .. m /\ j # m
      BY <1>1, <3>1
    <3>3. \A e \in 1 .. m : e # m => stack'[e] = calls[e]
      <4>1. stack' = [calls EXCEPT ![m] = ToTemp(f, s)]
        BY <2>3 DEF PassOn
      <4>2. DOMAIN calls = 1 .. m
        BY <1>2, LenProperties
      <4> QED BY <4>1, <4>2
    <3> QED BY <1>2, <3>2, <3>3
  <2> QED BY <2>2, <2>4 DEF Got
<1>13. m \in 1 .. Len(stack)
  OBVIOUS
<1> QED BY <1>5, <1>6, <1>7, <1>8, <1>9, <1>10, <1>11, <1>12, GoesOn

\* The last call that has not ended goes on as f, and writes to its own output if at
\* all.
LEMMA BecomesKeeps ==
  ASSUME IInv, config' = config, NEW m \in 1 .. Len(stack),
         NEW calls, calls = SubSeq(stack, 1, m), m = Len(stack) \/ m = Len(stack) - 1,
         NEW f, FrameOK(f), f.data = stack[m].data,
         f.node = stack[m].node, f.found = stack[m].found,
         f.phase \in Before => stack[m].phase \in Before,
         stack' = [calls EXCEPT ![m] = f], out' = out,
         result' \in Results, loads' \in Nat, answer' \in Nat
  PROVE  IInv'
<1>1. /\ Len(stack) \in Nat /\ m \in Nat /\ stack \in Seq(Frame)
  BY LenProperties DEF IInv, Types
<1>2. /\ calls \in Seq(Frame) /\ Len(calls) = m
      /\ \A e \in 1 .. m : calls[e] = stack[e]
  BY <1>1, PrefixFacts
<1>3. /\ stack[m].data < m /\ Clean(stack[m], Got(stack[m].data))
      /\ stack[m].data \in Nat
  <2>1. \A g \in Frame : g.data \in Nat
    BY DEF Frame
  <2> QED BY <2>1 DEF IInv, Frames, FrameOK
<1>4. /\ stack' \in Seq(Frame) /\ Len(stack') = m /\ stack'[m] = f
      /\ \A e \in 1 .. m : e # m => stack'[e] = stack[e]
  <2>1. f \in Frame /\ m \in 1 .. Len(calls) /\ calls \in Seq(Frame)
    BY <1>1, <1>2 DEF FrameOK
  <2>2. HasBecome([calls EXCEPT ![m] = f], calls, m, f, m)
    BY <2>1, ReplacedFacts
  <2> QED BY <1>2, <2>2 DEF HasBecome
<1>5. /\ \A e \in 1 .. m - 1 : Same(stack[e], stack'[e])
      /\ \A e \in 1 .. m - 1 : stack'[e] = stack[e]
  <2>1. \A e \in 1 .. m - 1 : e \in 1 .. m /\ e # m /\ e \in 1 .. Len(stack)
    BY <1>1
  <2>2. \A e \in 1 .. Len(stack) : stack[e] \in Frame
    BY <1>1, ElementOfSeq
  <2> QED BY <1>4, <2>1, <2>2, SameIsReflexive
<1>6. ASSUME NEW j, j = stack[m].data PROVE Clean(f, Got(j)')
  <2>1. j # 0 => j \in 1 .. m /\ j # m
    BY <1>1, <1>3, <1>6
  <2>2. Got(j)' = Got(j)
    BY <1>4, <2>1 DEF Got
  <2> QED BY <1>3, <1>6, <2>2 DEF Clean
<1> QED BY <1>4, <1>5, <1>6, GoesOn DEF IInv, Types

\* The stack is its own prefix, and so is what is left of it when the top goes.
LEMMA StackFacts ==
  ASSUME IInv
  PROVE  /\ Len(stack) \in Nat /\ stack \in Seq(Frame)
         /\ Depth > 0 =>
              /\ Depth \in 1 .. Len(stack)
              /\ stack = SubSeq(stack, 1, Depth)
              /\ FrameOK(Top) /\ Top \in Frame /\ Top.data \in Nat /\ Top.data < Depth
              /\ Clean(Top, Got(Top.data))
         /\ Depth > 1 =>
              /\ Depth - 1 \in 1 .. Len(stack)
              /\ Callers = SubSeq(stack, 1, Depth - 1)
              /\ Callers \in Seq(Frame) /\ Len(Callers) = Depth - 1
              /\ Caller \in Frame /\ FrameOK(Caller)
<1>1. /\ Len(stack) \in Nat /\ stack \in Seq(Frame)
  BY LenProperties DEF IInv, Types
<1>2. ASSUME Depth > 0
      PROVE  /\ Depth \in 1 .. Len(stack)
             /\ stack = SubSeq(stack, 1, Depth)
             /\ FrameOK(Top) /\ Top \in Frame /\ Top.data \in Nat /\ Top.data < Depth
             /\ Clean(Top, Got(Top.data))
  <2>1. Depth \in 1 .. Len(stack)
    BY <1>1, <1>2 DEF Depth
  <2>2. stack = SubSeq(stack, 1, Depth)
    BY <1>1, SubSeqFull DEF Depth
  <2>3. /\ FrameOK(stack[Depth]) /\ stack[Depth].data < Depth
        /\ Clean(stack[Depth], Got(stack[Depth].data))
    BY <2>1 DEF IInv, Frames
  <2>4. Top \in Frame /\ Top.data \in Nat
    BY <2>3 DEF FrameOK, Frame, Top
  <2> QED BY <2>1, <2>2, <2>3, <2>4 DEF Top
<1>3. ASSUME Depth > 1
      PROVE  /\ Depth - 1 \in 1 .. Len(stack)
             /\ Callers = SubSeq(stack, 1, Depth - 1)
             /\ Callers \in Seq(Frame) /\ Len(Callers) = Depth - 1
             /\ Caller \in Frame /\ FrameOK(Caller)
  <2>1. Depth - 1 \in 1 .. Len(stack) /\ Depth - 1 \in Nat /\ Depth - 1 <= Len(stack)
    BY <1>1, <1>3 DEF Depth
  <2>2. Callers \in Seq(Frame) /\ Len(Callers) = Depth - 1
    BY <1>1, <2>1, PrefixFacts DEF Callers
  <2>3. FrameOK(Caller)
    BY <2>1 DEF IInv, Frames, Caller
  <2> QED BY <2>1, <2>2, <2>3 DEF Callers, FrameOK
<1> QED BY <1>1, <1>2, <1>3

\* LoadImpl throws, and there is another attempt or not.
LEMMA AttemptFailsKeeps ==
  ASSUME IInv, config' = config, NEW m \in 1 .. Len(stack),
         NEW calls, calls = SubSeq(stack, 1, m), m = Len(stack) \/ m = Len(stack) - 1,
         NEW f, f = stack[m], f.phase \in {"impl", "routing", "calling"},
         AttemptFails(calls, f), UNCHANGED <<result, loads, answer>>
  PROVE  IInv'
<1>1. /\ Len(stack) \in Nat /\ m \in Nat /\ stack \in Seq(Frame)
      /\ result' \in Results /\ loads' \in Nat /\ answer' \in Nat
  BY LenProperties DEF IInv, Types
<1>2. Len(calls) = m
  BY <1>1, PrefixFacts
<1>3. /\ FrameOK(f) /\ f \in Frame /\ f.phase \in Before
  BY DEF IInv, Frames, FrameOK, Before
<1>4. CASE Exhausted(f)
  <2>1. PICK g : g = [f EXCEPT !.phase = "failed", !.kept = <<>>]
    OBVIOUS
  <2>2. PICK h : h = [f EXCEPT !.phase = "failed"]
    OBVIOUS
  <2>3. /\ g = [h EXCEPT !.kept = <<>>] /\ h.kept = f.kept /\ f.kept \in Seq(Chunk)
    BY <1>3, <2>1, <2>2 DEF Frame
  <2>4. PassOn(calls, m, g, f.kept)
    BY <1>2, <1>4, <2>2, <2>3 DEF AttemptFails, FlushAs
  <2>5. /\ g \in Frame /\ g.phase = "failed"
        /\ g.node = f.node /\ g.data = f.data /\ g.found = f.found /\ g.attempt = f.attempt
        /\ g.transformed = f.transformed
    <3>1. <<>> \in Seq(Chunk) /\ "failed" \in Phases
      BY EmptySeq DEF Phases
    <3> QED BY <1>3, <2>1, <3>1 DEF Frame
  <2>6. FrameOK(g)
    BY <1>3, <2>5 DEF FrameOK, TeeOK
  <2> QED BY <1>1, <1>3, <2>3, <2>4, <2>5, <2>6, PassOnKeeps
<1>5. CASE ~Exhausted(f)
  <2>1. PICK g : g = [f EXCEPT !.phase = "attempt", !.attempt = @ + 1, !.temp = Empty]
    OBVIOUS
  <2>2. stack' = [calls EXCEPT ![m] = g] /\ out' = out
    BY <1>2, <1>5, <2>1 DEF AttemptFails
  <2>3. f.attempt \in Nat \ {0} /\ config.retries[f.node] \in Nat
    <3>1. f.attempt \in Nat \ {0} /\ f.node \in Nodes
      BY <1>3 DEF Frame
    <3>2. config.retries \in [Nodes -> 0 .. UintSize - 1]
      BY ConfigFacts DEF IInv, Types
    <3> QED BY <3>1, <3>2
  <2>4. Empty \in Stream /\ Empty.pos = 0
    BY DEF Empty, Stream
  <2>5. /\ g \in Frame /\ g.phase = "attempt" /\ g.temp = Empty
        /\ g.node = f.node /\ g.data = f.data /\ g.found = f.found /\ g.attempt = f.attempt + 1
        /\ g.transformed = f.transformed
    <3>1. "attempt" \in Phases /\ f.attempt + 1 \in Nat \ {0}
      BY <2>3 DEF Phases
    <3> QED BY <1>3, <2>1, <2>4, <3>1 DEF Frame
  <2>6. g.attempt <= config.retries[g.node] + 1
    BY <1>5, <2>3, <2>5 DEF Exhausted
  <2>7. FrameOK(g)
    BY <1>3, <2>4, <2>5, <2>6 DEF FrameOK, TeeOK
  <2> QED BY <1>1, <1>3, <2>2, <2>5, <2>7, BecomesKeeps
<1> QED BY <1>4, <1>5

\* The call on top goes on as f.
LEMMA TopBecomes ==
  ASSUME IInv, Depth > 0, NEW f, Become(f), FrameOK(f),
         f.data = Top.data, f.node = Top.node, f.found = Top.found,
         f.phase \in Before => Top.phase \in Before,
         UNCHANGED <<config, out, result, answer>>, loads' \in Nat
  PROVE  IInv'
<1>1. /\ Depth \in 1 .. Len(stack) /\ stack = SubSeq(stack, 1, Depth) /\ Depth = Len(stack)
      /\ result' \in Results /\ answer' \in Nat
  BY StackFacts DEF Depth, IInv, Types
<1>2. stack' = [stack EXCEPT ![Depth] = f]
  BY DEF Become
<1>3. PICK m : m = Depth
  OBVIOUS
<1>4. PICK calls : calls = stack
  OBVIOUS
<1>5. /\ m \in 1 .. Len(stack) /\ calls = SubSeq(stack, 1, m) /\ m = Len(stack)
      /\ stack' = [calls EXCEPT ![m] = f] /\ Top = stack[m]
  BY <1>1, <1>2, <1>3, <1>4 DEF Top
<1> QED BY <1>1, <1>5, BecomesKeeps

\* The call on top changes its phase.
LEMMA TopMovesTo ==
  ASSUME IInv, Depth > 0, NEW phase \in Phases, MoveTo(phase),
         UNCHANGED <<config, out, result, answer>>, loads' \in Nat,
         phase \in Before => Top.phase \in Before,
         phase \in {"attempt", "routing", "loaded"} =>
           Top.phase \in {"enter", "attempt", "impl", "routing", "calling"},
         phase \notin {"transformed", "teed", "impl", "calling", "enter"},
         phase = "true" => Top.node \in config.ignored
  PROVE  IInv'
<1>1. FrameOK(Top) /\ Top \in Frame
  BY StackFacts
<1>2. PICK f : f = [Top EXCEPT !.phase = phase]
  OBVIOUS
<1>3. /\ f \in Frame /\ f.phase = phase /\ f.node = Top.node /\ f.data = Top.data
      /\ f.found = Top.found /\ f.attempt = Top.attempt
      /\ f.temp = Top.temp /\ f.transformed = Top.transformed
  BY <1>1, <1>2 DEF Frame
<1>4. FrameOK(f)
  BY <1>1, <1>3 DEF FrameOK, TeeOK
<1> QED BY <1>2, <1>3, <1>4, TopBecomes DEF MoveTo

\* The steps in which only a phase changes.
LEMMA MovesKeep ==
  ASSUME IInv,
         \/ Ignore \/ Prepare \/ PrepareFails \/ NoAttempt \/ TransformFails \/ TeeFails
         \/ Throw \/ HandleResultThrows
  PROVE  IInv'
<1>1. /\ loads \in Nat
      /\ \A p \in {"true", "attempt", "failed", "loaded", "threw"} : p \in Phases
  BY DEF IInv, Types, Phases
<1>2. CASE Ignore
  BY <1>1, <1>2, TopMovesTo DEF Ignore, At, Before
<1>3. CASE Prepare
  BY <1>1, <1>3, TopMovesTo DEF Prepare, At, Before
<1>4. CASE PrepareFails
  BY <1>1, <1>4, TopMovesTo DEF PrepareFails, At, Before
<1>5. CASE NoAttempt
  BY <1>1, <1>5, TopMovesTo DEF NoAttempt, At, Before
<1>6. CASE TransformFails
  BY <1>1, <1>6, TopMovesTo DEF TransformFails, At, Before
<1>7. CASE TeeFails
  <2>1. Depth > 0 /\ Top.phase \in Before
    BY <1>7 DEF TeeFails, TeesNow, At, Before
  <2> QED BY <1>1, <1>7, <2>1, TopMovesTo DEF TeeFails
<1>8. CASE Throw
  BY <1>1, <1>8, TopMovesTo DEF Throw, At, Before
<1>9. CASE HandleResultThrows
  <2>1. Depth > 0
    BY <1>9 DEF HandleResultThrows, At
  <2> QED BY <1>1, <1>9, <2>1, TopMovesTo DEF HandleResultThrows, Before
<1> QED BY <1>2, <1>3, <1>4, <1>5, <1>6, <1>7, <1>8, <1>9

\* An attempt begins.
LEMMA AttemptKeeps ==
  ASSUME IInv, Attempt
  PROVE  IInv'
<1>1. /\ Depth > 0 /\ Top.phase = "attempt" /\ FrameOK(Top) /\ Top \in Frame /\ loads \in Nat
  BY StackFacts DEF Attempt, At, IInv, Types
<1>2. CASE Top.node \in config.routers
  <2>1. MoveTo("routing") /\ UNCHANGED <<config, out, result, loads, answer>>
    BY <1>2 DEF Attempt
  <2> QED BY <1>1, <2>1, TopMovesTo DEF Phases, Before
<1>3. CASE Top.node \notin config.routers
  <2>1. PICK f : f = [Top EXCEPT !.phase = "impl", !.load = loads + 1, !.part = 0]
    OBVIOUS
  <2>2. Become(f) /\ loads' = loads + 1 /\ UNCHANGED <<config, out, result, answer>>
    BY <1>3, <2>1 DEF Attempt
  <2>3. /\ f \in Frame /\ f.phase = "impl" /\ f.node = Top.node /\ f.data = Top.data
        /\ f.found = Top.found /\ f.attempt = Top.attempt
        /\ f.temp = Top.temp /\ f.transformed = Top.transformed
    <3>1. loads + 1 \in Nat /\ 0 \in Nat /\ "impl" \in Phases
      BY <1>1 DEF Phases
    <3>2. PICK k : k = loads + 1
      OBVIOUS
    <3> QED BY <1>1, <2>1, <3>1, <3>2 DEF Frame
  <2>4. FrameOK(f)
    BY <1>1, <2>3 DEF FrameOK, TeeOK
  <2>5. loads' \in Nat
    BY <1>1, <2>2
  <2> QED BY <1>1, <2>2, <2>3, <2>4, <2>5, TopBecomes DEF Before
<1> QED BY <1>2, <1>3

\* A leaf writes to its output.
LEMMA LeafWritesKeeps ==
  ASSUME IInv, LeafWrites
  PROVE  IInv'
<1>1. /\ Depth > 0 /\ Top.phase = "impl" /\ FrameOK(Top) /\ Top \in Frame /\ loads \in Nat
  BY StackFacts DEF LeafWrites, At, IInv, Types
<1>2. PICK chunk : chunk = [load |-> Top.load, part |-> Top.part + 1, by |-> {}]
  OBVIOUS
<1>3. PICK f : f = [Top EXCEPT !.part = @ + 1, !.kept = Append(@, chunk), !.got = @ + 1]
  OBVIOUS
<1>4. Become(f) /\ UNCHANGED <<config, out, result, loads, answer>>
  BY <1>2, <1>3 DEF LeafWrites
<1>5. chunk \in Chunk
  BY <1>1, <1>2 DEF Frame, Chunk
<1>6. /\ f \in Frame /\ f.phase = "impl" /\ f.node = Top.node /\ f.data = Top.data
      /\ f.found = Top.found /\ f.attempt = Top.attempt
      /\ f.temp = Top.temp /\ f.transformed = Top.transformed
  <2>1. Top.kept \in Seq(Chunk) /\ Top.part + 1 \in Nat /\ Top.got + 1 \in Nat
    BY <1>1 DEF Frame
  <2>2. PICK kept : kept = Append(Top.kept, chunk)
    OBVIOUS
  <2>3. kept \in Seq(Chunk)
    BY <1>5, <2>1, <2>2, AppendFacts
  <2>4. f = [Top EXCEPT !.part = Top.part + 1, !.kept = kept, !.got = Top.got + 1]
    BY <1>3, <2>2
  <2> QED BY <1>1, <2>1, <2>3, <2>4 DEF Frame
<1>7. FrameOK(f)
  BY <1>1, <1>6 DEF FrameOK, TeeOK
<1> QED BY <1>1, <1>4, <1>6, <1>7, TopBecomes DEF Before
-----------------------------------------------------------------------------
\* What is left to read of a stream.
LEMMA UnreadFacts ==
  ASSUME NEW s \in Stream
  PROVE  /\ Unread(s) \in Seq(Chunk)
         /\ s.pos = 0 => Unread(s) = s.data
         /\ Rewound(s) \in Stream /\ Rewound(s).pos = 0 /\ Rewound(s).data = s.data
         /\ ReadUp(s) \in Stream /\ ReadUp(s).data = s.data
<1>1. s.data \in Seq(Chunk) /\ s.pos \in Nat
  BY DEF Stream
<1>2. Len(s.data) \in Nat
  BY <1>1, LenProperties
<1>3. Unread(s) \in Seq(Chunk)
  <2>1. PICK k \in Int : k = s.pos + 1 /\ k > 0
    BY <1>1
  <2>2. \A i \in k .. Len(s.data) : s.data[i] \in Chunk
    <3>1. \A i \in k .. Len(s.data) : i \in 1 .. Len(s.data)
      BY <1>2, <2>1
    <3> QED BY <1>1, <3>1, ElementOfSeq
  <2>3. SubSeq(s.data, k, Len(s.data)) \in Seq(Chunk)
    BY <1>2, <2>2, SubSeqProperties
  <2> QED BY <2>1, <2>3 DEF Unread
<1>4. s.pos = 0 => Unread(s) = s.data
  <2>1. SubSeq(s.data, 1, Len(s.data)) = s.data
    BY <1>1, SubSeqFull
  <2>2. s.pos = 0 => s.pos + 1 = 1
    OBVIOUS
  <2> QED BY <2>1, <2>2 DEF Unread
<1>5. /\ Rewound(s) \in Stream /\ Rewound(s).pos = 0 /\ Rewound(s).data = s.data
      /\ ReadUp(s) \in Stream /\ ReadUp(s).data = s.data
  BY <1>1, <1>2 DEF Rewound, ReadUp, Stream
<1> QED BY <1>3, <1>4, <1>5

\* A transformer makes chunks of chunks.
LEMMA TransformedFacts ==
  ASSUME NEW n \in Nodes, NEW s \in Seq(Chunk)
  PROVE  TransformedBy(n, s) \in Seq(Chunk)
<1>1. Len(s) \in Nat /\ s \in [1 .. Len(s) -> Chunk] /\ DOMAIN s = 1 .. Len(s)
  BY LenProperties
<1>2. PICK t : t = TransformedBy(n, s)
  OBVIOUS
<1>3. t = [i \in 1 .. Len(s) |-> [s[i] EXCEPT !.by = @ \cup {n}]]
  BY <1>1, <1>2 DEF TransformedBy
<1>4. \A c \in Chunk : [c EXCEPT !.by = @ \cup {n}] \in Chunk
  BY DEF Chunk
<1>5. \A i \in 1 .. Len(s) : [s[i] EXCEPT !.by = @ \cup {n}] \in Chunk
  BY <1>1, <1>4
<1>6. t \in [1 .. Len(s) -> Chunk]
  BY <1>3, <1>5
<1> QED BY <1>1, <1>2, <1>6

\* The data is transformed.
LEMMA TransformKeeps ==
  ASSUME IInv, Transform
  PROVE  IInv'
<1>1. /\ Depth > 0 /\ Top.phase = "loaded" /\ FrameOK(Top) /\ Top \in Frame /\ loads \in Nat
      /\ Top.node \in config.transforms
  BY StackFacts DEF Transform, At, Transforms, IInv, Types
<1>2. /\ Top.temp \in Stream /\ Top.transformed \in Stream /\ Top.node \in Nodes
      /\ Top.temp.pos = 0 /\ Top.transformed.pos = 0
  BY <1>1 DEF Frame, FrameOK, TeeOK
<1>3. PICK data : data = TransformedBy(Top.node, Unread(Top.temp))
  OBVIOUS
<1>4. data \in Seq(Chunk) /\ data = TransformedBy(Top.node, Top.temp.data)
  BY <1>2, <1>3, UnreadFacts, TransformedFacts
<1>5. PICK temp : temp = ReadUp(Top.temp)
  OBVIOUS
<1>6. temp \in Stream /\ temp.data = Top.temp.data
  BY <1>2, <1>5, UnreadFacts
<1>7. PICK f : f = [Top EXCEPT !.phase = "transformed", !.temp = temp, !.transformed.data = data]
  OBVIOUS
<1>8. Become(f) /\ UNCHANGED <<config, out, result, loads, answer>>
  BY <1>3, <1>5, <1>7 DEF Transform
<1>9. /\ f \in Frame /\ f.phase = "transformed" /\ f.node = Top.node /\ f.data = Top.data
      /\ f.found = Top.found /\ f.attempt = Top.attempt /\ f.temp = temp
      /\ f.transformed.pos = 0 /\ f.transformed.data = data
  <2>1. PICK u : u = [Top.transformed EXCEPT !.data = data]
    OBVIOUS
  <2>2. u \in Stream /\ u.pos = 0 /\ u.data = data
    BY <1>2, <1>4, <2>1 DEF Stream
  <2>3. f = [Top EXCEPT !.phase = "transformed", !.temp = temp, !.transformed = u]
    BY <1>7, <2>1
  <2> QED BY <1>1, <1>6, <2>2, <2>3 DEF Frame, Phases
<1>10. FrameOK(f)
  BY <1>1, <1>4, <1>6, <1>9 DEF FrameOK, TeeOK
<1> QED BY <1>1, <1>8, <1>9, <1>10, TopBecomes DEF Before

\* The data is given to the tee.
LEMMA TeeKeeps ==
  ASSUME IInv, Tee
  PROVE  IInv'
<1>1. /\ Depth > 0 /\ FrameOK(Top) /\ Top \in Frame /\ loads \in Nat
      /\ Top.node \in config.tees
      /\ Top.phase = IF Top.node \in config.transforms THEN "transformed" ELSE "loaded"
  BY StackFacts DEF Tee, TeesNow, At, Transforms, IInv, Types
<1>2. /\ Top.temp \in Stream /\ Top.transformed \in Stream /\ Top.node \in Nodes
  BY <1>1 DEF Frame
<1>3. /\ Top.node \notin config.transforms => Top.temp.pos = 0
      /\ Top.node \in config.transforms =>
           Top.transformed.data = TransformedBy(Top.node, Top.temp.data)
  BY <1>1 DEF FrameOK, TeeOK
<1>4. PICK teed : teed = Unread(TeeStream(Top))
  OBVIOUS
<1>5. /\ teed \in Seq(Chunk)
      /\ teed = IF Top.node \in config.transforms \cap config.teesTransformed
                THEN Top.transformed.data ELSE Top.temp.data
  BY <1>2, <1>3, <1>4, UnreadFacts DEF TeeStream, Transforms
<1>6. PICK temp, transformed :
        temp = Rewound(Top.temp) /\ transformed = Rewound(Top.transformed)
  OBVIOUS
<1>7. /\ temp \in Stream /\ temp.pos = 0 /\ temp.data = Top.temp.data
      /\ transformed \in Stream /\ transformed.pos = 0
      /\ transformed.data = Top.transformed.data
  BY <1>2, <1>6, UnreadFacts
<1>8. PICK f : f = [Top EXCEPT !.phase = "teed", !.teed = teed, !.temp = temp,
                               !.transformed = transformed]
  OBVIOUS
<1>9. Become(f) /\ UNCHANGED <<config, out, result, loads, answer>>
  BY <1>4, <1>6, <1>8 DEF Tee, AfterTee
<1>10. /\ f \in Frame /\ f.phase = "teed" /\ f.node = Top.node /\ f.data = Top.data
       /\ f.found = Top.found /\ f.attempt = Top.attempt /\ f.temp = temp
       /\ f.transformed = transformed /\ f.teed = teed
  BY <1>1, <1>5, <1>7, <1>8 DEF Frame, Phases
<1>11. WhatTheTeeGot(f) = IF f.node \in config.transforms
                          THEN f.transformed.data ELSE f.temp.data
  BY <1>3, <1>5, <1>7, <1>10 DEF WhatTheTeeGot
<1>12. FrameOK(f)
  BY <1>1, <1>7, <1>10, <1>11 DEF FrameOK, TeeOK
<1> QED BY <1>1, <1>9, <1>10, <1>12, TopBecomes DEF Before

\* The data is copied to the caller's stream.
LEMMA PushKeeps ==
  ASSUME IInv, Push
  PROVE  IInv'
<1>1. /\ Depth > 0 /\ FrameOK(Top) /\ Top \in Frame /\ Top.data < Depth /\ Top.data \in Nat
      /\ \/ Top.phase = "teed"
         \/ Top.phase \in {"transformed", "loaded"} /\ Top.node \notin config.tees
      /\ stack \in Seq(Frame) /\ Depth \in 1 .. Len(stack) /\ Depth = Len(stack)
  BY StackFacts DEF Push, ReadyToPush, At, Depth
<1>2. Top.temp \in Stream /\ Top.transformed \in Stream /\ Top.node \in Nodes
  BY <1>1 DEF Frame
<1>3. PICK s : s = Pushed(Top)
  OBVIOUS
<1>4. s \in Seq(Chunk)
  BY <1>2, <1>3, UnreadFacts, EmptySeq DEF Pushed
<1>5. (Top.node \in config.tees) => s = WhatTheTeeGot(Top)
  <2>1. SUFFICES ASSUME Top.node \in config.tees PROVE s = WhatTheTeeGot(Top)
    OBVIOUS
  <2>2. Top.phase = "teed"
    BY <1>1, <2>1
  <2>3. /\ Top.transformed.pos = 0
        /\ Top.node \notin config.transforms => Top.temp.pos = 0
        /\ WhatTheTeeGot(Top) = IF Top.node \in config.transforms
                                THEN Top.transformed.data ELSE Top.temp.data
    BY <1>1, <2>2 DEF FrameOK, TeeOK
  <2> QED BY <1>2, <1>3, <2>1, <2>3, UnreadFacts DEF Pushed, Buffers, Transforms
<1>6. PICK f : f = [Top EXCEPT !.phase = "true", !.pushed = s]
  OBVIOUS
<1>7. PICK k : k = Top.data
  OBVIOUS
<1>8. PICK calls : calls = [stack EXCEPT ![Depth] = f]
  OBVIOUS
<1>9. /\ stack' = Written(calls, k, s)
      /\ out' = IF k = 0 THEN out \o s ELSE out
      /\ UNCHANGED <<config, result, loads, answer>>
  BY <1>3, <1>6, <1>7, <1>8 DEF Push
<1>10. /\ f \in Frame /\ f.phase = "true" /\ f.node = Top.node /\ f.data = k
       /\ f.attempt = Top.attempt /\ f.transformed = Top.transformed
       /\ f.teed = Top.teed /\ f.pushed = s
  BY <1>1, <1>4, <1>6, <1>7 DEF Frame, Phases
<1>11. FrameOK(f)
  <2>1. WhatTheTeeGot(f) = WhatTheTeeGot(Top)
    BY <1>10 DEF WhatTheTeeGot
  <2> QED BY <1>1, <1>5, <1>10, <2>1 DEF FrameOK, TeeOK
<1>12. /\ calls \in Seq(Frame) /\ Len(calls) = Depth /\ calls[Depth] = f
       /\ \A e \in 1 .. Depth : e # Depth => calls[e] = stack[e]
  <2>1. HasBecome(calls, stack, Depth, f, Depth)
    BY <1>1, <1>8, <1>10, ReplacedFacts
  <2> QED BY <1>1, <2>1 DEF HasBecome
<1>13. /\ stack' \in Seq(Frame) /\ Len(stack') = Depth
       /\ \A e \in 1 .. Depth : Same(calls[e], stack'[e])
       /\ \A e \in 1 .. Depth : e # k => stack'[e] = calls[e]
  <2>1. k \in 0 .. Len(calls)
    BY <1>1, <1>7, <1>12
  <2> QED BY <1>4, <1>9, <1>12, <2>1, WrittenFacts
<1>14. /\ stack'[Depth] = f
       /\ \A e \in 1 .. Depth - 1 : Same(stack[e], stack'[e])
       /\ \A e \in 1 .. Depth - 1 : e # stack[Depth].data => stack'[e] = stack[e]
  <2>1. \A e \in 1 .. Depth - 1 : e \in 1 .. Depth /\ e # Depth
    BY <1>1
  <2>2. Depth \in 1 .. Depth /\ Depth # k
    BY <1>1, <1>7
  <2>3. stack'[Depth] = f
    BY <1>12, <1>13, <2>2
  <2>4. \A e \in 1 .. Depth - 1 : Same(stack[e], stack'[e])
    BY <1>12, <1>13, <2>1
  <2>5. stack[Depth].data = k
    BY <1>7 DEF Top
  <2>6. \A e \in 1 .. Depth - 1 : e # stack[Depth].data => stack'[e] = stack[e]
    BY <1>12, <1>13, <2>1, <2>5
  <2> QED BY <2>3, <2>4, <2>6
<1>15. \A j : Clean(f, Got(j)')
  BY <1>10 DEF Clean, Before
<1>16. out' \in Seq(Chunk) /\ (k # 0 => out' = out)
  BY <1>4, <1>9, ConcatProperties DEF IInv, Types
<1>17. /\ result' \in Results /\ loads' \in Nat /\ answer' \in Nat /\ config' = config
  BY <1>9 DEF IInv, Types
<1>18. PICK m : m = Depth
  OBVIOUS
<1>19. /\ m \in 1 .. Len(stack) /\ m = Len(stack) /\ stack[m].data = k /\ Len(stack') = m
       /\ stack'[m] = f
       /\ \A e \in 1 .. m - 1 : Same(stack[e], stack'[e])
       /\ \A e \in 1 .. m - 1 : e # stack[m].data => stack'[e] = stack[e]
  BY <1>1, <1>7, <1>13, <1>14, <1>18 DEF Top
<1> QED BY <1>10, <1>11, <1>13, <1>15, <1>16, <1>17, <1>19, GoesOn
-----------------------------------------------------------------------------
\* output is reset when LoadImpl has returned, and the call goes on with the data.
LEMMA LoadedKeeps ==
  ASSUME IInv, config' = config, NEW m \in 1 .. Len(stack),
         NEW calls, calls = SubSeq(stack, 1, m), m = Len(stack) \/ m = Len(stack) - 1,
         NEW f, f = stack[m], f.phase \in {"impl", "routing", "calling"}, NEW a \in Nat,
         FlushAs(calls, [f EXCEPT !.phase = "loaded", !.answer = a]),
         UNCHANGED <<result, loads, answer>>
  PROVE  IInv'
<1>1. /\ Len(stack) \in Nat /\ m \in Nat /\ stack \in Seq(Frame)
      /\ result' \in Results /\ loads' \in Nat /\ answer' \in Nat
  BY LenProperties DEF IInv, Types
<1>2. Len(calls) = m
  BY <1>1, PrefixFacts
<1>3. /\ FrameOK(f) /\ f \in Frame /\ f.phase \in Before
  BY DEF IInv, Frames, FrameOK, Before
<1>4. PICK h : h = [f EXCEPT !.phase = "loaded", !.answer = a]
  OBVIOUS
<1>5. PICK g : g = [h EXCEPT !.kept = <<>>]
  OBVIOUS
<1>6. PICK s : s = h.kept
  OBVIOUS
<1>7. PassOn(calls, m, g, s)
  BY <1>2, <1>4, <1>5, <1>6 DEF FlushAs
<1>8. "loaded" \in Phases
  BY DEF Phases
<1>9. /\ h \in Frame /\ h.phase = "loaded" /\ h.node = f.node /\ h.data = f.data
      /\ h.found = f.found /\ h.attempt = f.attempt /\ h.temp = f.temp
      /\ h.transformed = f.transformed
  BY <1>3, <1>4, <1>8 DEF Frame
<1>10. /\ g \in Frame /\ g.phase = "loaded" /\ g.node = f.node /\ g.data = f.data
       /\ g.found = f.found /\ g.attempt = f.attempt /\ g.temp = f.temp
       /\ g.transformed = f.transformed
  <2>1. <<>> \in Seq(Chunk)
    BY EmptySeq
  <2> QED BY <1>5, <1>9, <2>1 DEF Frame
<1>11. s \in Seq(Chunk)
  BY <1>6, <1>9 DEF Frame
<1>12. FrameOK(g)
  BY <1>3, <1>10 DEF FrameOK, TeeOK
<1> QED BY <1>1, <1>3, <1>7, <1>10, <1>11, <1>12, PassOnKeeps

\* LoadImpl of the call on top returns or throws.
LEMMA TopLoadsKeep ==
  ASSUME IInv, LeafReturns \/ HasNoRoute \/ LeafThrows \/ RouterIsDisabled
  PROVE  IInv'
<1>1. Depth > 0 /\ Top.phase \in {"impl", "routing"}
  BY DEF LeafReturns, HasNoRoute, LeafThrows, RouterIsDisabled, At
<1>2. /\ Depth \in 1 .. Len(stack) /\ stack = SubSeq(stack, 1, Depth) /\ Top \in Frame
  BY <1>1, StackFacts
<1>3. PICK m : m = Depth
  OBVIOUS
<1>4. PICK f : f = Top
  OBVIOUS
<1>5. PICK calls : calls = stack
  OBVIOUS
<1>6. /\ m \in 1 .. Len(stack) /\ calls = SubSeq(stack, 1, m) /\ m = Len(stack)
      /\ f = stack[m] /\ f.phase \in {"impl", "routing", "calling"}
  BY <1>1, <1>2, <1>3, <1>4, <1>5 DEF Depth, Top
<1>7. f.load \in Nat /\ f.answer \in Nat
  BY <1>2, <1>4 DEF Frame
<1>8. CASE LeafReturns
  <2>1. /\ FlushAs(calls, [f EXCEPT !.phase = "loaded", !.answer = f.load])
        /\ UNCHANGED <<config, result, loads, answer>>
    BY <1>4, <1>5, <1>8 DEF LeafReturns
  <2> QED BY <1>6, <1>7, <2>1, LoadedKeeps
<1>9. CASE HasNoRoute
  <2>1. [f EXCEPT !.phase = "loaded"] = [f EXCEPT !.phase = "loaded", !.answer = f.answer]
    BY <1>2, <1>4 DEF Frame
  <2>2. /\ FlushAs(calls, [f EXCEPT !.phase = "loaded", !.answer = f.answer])
        /\ UNCHANGED <<config, result, loads, answer>>
    BY <1>4, <1>5, <1>9, <2>1 DEF HasNoRoute
  <2> QED BY <1>6, <1>7, <2>2, LoadedKeeps
<1>10. CASE LeafThrows \/ RouterIsDisabled
  <2>1. /\ AttemptFails(calls, f)
        /\ UNCHANGED <<config, result, loads, answer>>
    BY <1>4, <1>5, <1>10 DEF LeafThrows, RouterIsDisabled
  <2> QED BY <1>6, <2>1, AttemptFailsKeeps
<1> QED BY <1>8, <1>9, <1>10

\* The call a LoadImpl or a forward waits for ends.
LEMMA CallersGoOn ==
  ASSUME IInv, RouteReturns \/ RouteThrows \/ ForwardReturns \/ ForwardThrows
  PROVE  IInv'
<1>1. Depth > 1
  BY DEF RouteReturns, RouteThrows, ForwardReturns, ForwardThrows, Ended
<1>2. /\ Depth - 1 \in 1 .. Len(stack) /\ Callers = SubSeq(stack, 1, Depth - 1)
      /\ Caller \in Frame /\ FrameOK(Caller) /\ Top \in Frame
      /\ Len(stack) \in Nat /\ Depth > 0
  BY <1>1, StackFacts DEF Depth
<1>3. PICK m : m = Depth - 1
  OBVIOUS
<1>4. PICK f : f = Caller
  OBVIOUS
<1>5. PICK calls : calls = Callers
  OBVIOUS
<1>6. PICK a : a = Top.answer
  OBVIOUS
<1>7. /\ m \in 1 .. Len(stack) /\ calls = SubSeq(stack, 1, m) /\ m = Len(stack) - 1
      /\ f = stack[m] /\ FrameOK(f) /\ f \in Frame
  BY <1>2, <1>3, <1>4, <1>5 DEF Depth, Caller
<1>8. a \in Nat
  BY <1>2, <1>6 DEF Frame
<1>9. CASE RouteReturns
  <2>1. /\ FlushAs(calls, [f EXCEPT !.phase = "loaded", !.answer = a])
        /\ UNCHANGED <<config, result, loads, answer>> /\ f.phase = "calling"
    BY <1>4, <1>5, <1>6, <1>9 DEF RouteReturns, Ended
  <2> QED BY <1>7, <1>8, <2>1, LoadedKeeps
<1>10. CASE RouteThrows
  <2>1. /\ AttemptFails(calls, f)
        /\ UNCHANGED <<config, result, loads, answer>> /\ f.phase = "calling"
    BY <1>4, <1>5, <1>10 DEF RouteThrows, Ended
  <2> QED BY <1>7, <2>1, AttemptFailsKeeps
<1>11. CASE ForwardReturns \/ ForwardThrows
  <2>1. PICK g : \/ ForwardReturns /\ g = [f EXCEPT !.phase = "false", !.answer = a]
                 \/ ForwardThrows /\ g = [f EXCEPT !.phase = "threw"]
    BY <1>11
  <2>2. /\ stack' = [calls EXCEPT ![m] = g]
        /\ UNCHANGED <<config, out, result, loads, answer>>
    BY <1>3, <1>4, <1>5, <1>6, <2>1 DEF ForwardReturns, ForwardThrows, ResumeAs, Callers
  <2>3. "false" \in Phases /\ "threw" \in Phases
    BY DEF Phases
  <2>4. /\ g \in Frame /\ g.phase \in {"false", "threw"} /\ g.node = f.node /\ g.data = f.data
        /\ g.found = f.found /\ g.attempt = f.attempt /\ g.transformed = f.transformed
    BY <1>7, <1>8, <2>1, <2>3 DEF Frame
  <2>5. FrameOK(g)
    BY <1>7, <2>4 DEF FrameOK, TeeOK
  <2>6. result' \in Results /\ loads' \in Nat /\ answer' \in Nat /\ g.phase \notin Before
    BY <2>2, <2>4 DEF IInv, Types, Before
  <2> QED BY <1>7, <2>2, <2>4, <2>5, <2>6, BecomesKeeps
<1> QED BY <1>9, <1>10, <1>11
-----------------------------------------------------------------------------
\* What a stream has got is a number.
LEMMA GotFacts ==
  ASSUME IInv, NEW k \in 0 .. Depth
  PROVE  Got(k) \in Nat
<1>1. Len(stack) \in Nat /\ \A e \in 1 .. Len(stack) : stack[e] \in Frame
  BY ElementOfSeq, LenProperties DEF IInv, Types
<1>2. \A f \in Frame : f.got \in Nat
  BY DEF Frame
<1>3. Len(out) \in Nat
  BY LenProperties DEF IInv, Types
<1>4. k # 0 => k \in 1 .. Len(stack)
  BY <1>1 DEF Depth
<1> QED BY <1>1, <1>2, <1>3, <1>4 DEF Got

\* A call begins as the invariant says.
LEMMA CalledIsOK ==
  ASSUME config \in Configs, NEW n \in Nodes, NEW k \in Nat, NEW got \in Nat
  PROVE  LET f == Called(n, k, got)
         IN /\ FrameOK(f) /\ f \in Frame /\ f.phase = "enter" /\ f.data = k /\ f.found = got
            /\ f.node = n
<1>1. PICK f : f = Called(n, k, got)
  OBVIOUS
<1>2. Empty \in Stream /\ Empty.pos = 0 /\ <<>> \in Seq(Chunk) /\ "enter" \in Phases
  BY EmptySeq DEF Empty, Stream, Phases
<1>3. /\ f \in Frame /\ f.phase = "enter" /\ f.data = k /\ f.found = got /\ f.node = n
      /\ f.attempt = 1 /\ f.temp = Empty /\ f.transformed = Empty
  BY <1>1, <1>2 DEF Called, Frame
<1>4. config.retries[n] \in Nat
  BY ConfigFacts
<1>5. FrameOK(f)
  BY <1>2, <1>3, <1>4 DEF FrameOK, TeeOK
<1> QED BY <1>1, <1>3, <1>5

\* The call on top, as f, makes another, which writes to its output or to its stream.
LEMMA CallKeeps ==
  ASSUME IInv, Depth > 0, NEW f, FrameOK(f), f.data = Top.data, f.node = Top.node,
         f.found = Top.found, f.got = Top.got,
         NEW n \in Nodes, NEW k \in 0 .. Depth, k >= Top.data,
         \/ f.phase = "calling" /\ k = Depth /\ Top.phase \in Before
         \/ f.phase = "forwarding",
         CallFrom(f, n, k), UNCHANGED <<config, out, result, loads, answer>>
  PROVE  IInv'
<1>1. /\ Depth \in 1 .. Len(stack) /\ Depth = Len(stack) /\ stack \in Seq(Frame)
      /\ Top \in Frame /\ Top.data \in Nat /\ Top.data < Depth /\ Clean(Top, Got(Top.data))
      /\ Depth \in Nat
  BY StackFacts DEF Depth
<1>2. PICK g : g = Called(n, k, Got(k))
  OBVIOUS
<1>3. /\ FrameOK(g) /\ g \in Frame /\ g.phase = "enter" /\ g.data = k /\ g.found = Got(k)
  BY <1>2, GotFacts, CalledIsOK DEF IInv, Types
<1>4. PICK calls : calls = [stack EXCEPT ![Depth] = f]
  OBVIOUS
<1>5. f \in Frame
  BY DEF FrameOK
<1>6. /\ calls \in Seq(Frame) /\ Len(calls) = Depth /\ calls[Depth] = f
      /\ \A e \in 1 .. Depth : e # Depth => calls[e] = stack[e]
  BY <1>1, <1>4, <1>5, ExceptSeq
<1>7. stack' = Append(calls, g)
  BY <1>2, <1>4 DEF CallFrom
<1>8. /\ stack' \in Seq(Frame) /\ Len(stack') = Depth + 1
      /\ stack'[Depth + 1] = g
      /\ \A e \in 1 .. Depth : stack'[e] = calls[e]
  BY <1>3, <1>6, <1>7, AppendFacts
<1>9. Types'
  BY <1>8 DEF IInv, Types
<1>10. \A j \in 0 .. Depth : Got(j)' = Got(j)
  <2>1. \A e \in 1 .. Depth : stack'[e].got = stack[e].got
    BY <1>6, <1>8 DEF Top
  <2> QED BY <2>1 DEF Got
<1>11. \A e \in 1 .. Len(stack) :
         /\ FrameOK(stack[e]) /\ stack[e].data < e /\ Clean(stack[e], Got(stack[e].data))
         /\ stack[e].data \in Nat
  <2>1. \A h \in Frame : h.data \in Nat
    BY DEF Frame
  <2> QED BY <2>1 DEF IInv, Frames, FrameOK
<1>12. ASSUME NEW e \in 1 .. Depth + 1
       PROVE  /\ FrameOK(stack'[e]) /\ stack'[e].data < e /\ stack'[e].data \in 0 .. Depth
              /\ Clean(stack'[e], Got(stack'[e].data))
  <2>1. CASE e = Depth + 1
    <3>1. stack'[e] = g /\ k < Depth + 1
      BY <1>1, <1>8, <2>1
    <3> QED BY <1>3, <2>1, <3>1 DEF Clean
  <2>2. CASE e = Depth
    <3>1. stack'[e] = f
      BY <1>1, <1>6, <1>8, <2>2
    <3>2. Clean(f, Got(f.data))
      BY <1>1 DEF Clean, Before
    <3> QED BY <1>1, <2>2, <3>1, <3>2
  <2>3. CASE e < Depth
    <3>1. e \in 1 .. Depth /\ e # Depth
      BY <1>1, <2>3
    <3>2. stack'[e] = stack[e]
      BY <1>6, <1>8, <3>1
    <3> QED BY <1>1, <1>11, <3>1, <3>2
  <2> QED BY <1>1, <2>1, <2>2, <2>3
<1>13. ASSUME NEW e \in 1 .. Depth + 1
       PROVE  FrameOK(stack[e])' /\ stack'[e].data < e /\ Clean(stack[e], Got(stack[e].data))'
  <2>1. PICK j : j = stack'[e].data
    OBVIOUS
  <2>2. PICK h : h = stack'[e]
    OBVIOUS
  <2>3. /\ FrameOK(h) /\ j < e /\ Clean(h, Got(j)) /\ Got(j)' = Got(j)
    BY <1>10, <1>12, <2>1, <2>2
  <2>4. FrameOK(h)'
    BY <2>3 DEF FrameOK, TeeOK, WhatTheTeeGot
  <2>5. Clean(h, Got(j))'
    BY <2>3 DEF Clean, Buffers
  <2> QED BY <2>1, <2>2, <2>3, <2>4, <2>5
<1>14. ASSUME NEW d \in 1 .. Depth + 1, NEW e \in 1 .. Depth + 1, d < e
       PROVE  Nested(stack'[d], d, stack'[e])
  <2>1. d \in 1 .. Depth
    BY <1>1, <1>14
  <2>2. CASE d = Depth
    <3>1. e = Depth + 1
      BY <1>1, <1>14, <2>2
    <3>2. stack'[d] = f /\ stack'[e] = g
      BY <1>6, <1>8, <2>1, <2>2, <3>1
    <3> QED BY <1>1, <1>3, <2>2, <3>2 DEF Nested
  <2>3. CASE d # Depth
    <3>1. d < Depth /\ stack'[d] = stack[d]
      BY <1>1, <1>6, <1>8, <2>1, <2>3
    <3>2. Nested(stack[d], d, Top)
      BY <1>1, <2>1, <3>1 DEF IInv, Frames, Top
    <3>3. CASE e = Depth + 1
      <4>1. stack'[e].data = k
        BY <1>3, <1>8, <3>3
      <4>2. Top.data >= d => k >= d
        BY <1>1
      <4> QED BY <3>1, <3>2, <4>1, <4>2 DEF Nested
    <3>4. CASE e = Depth
      <4>1. stack'[e].data = Top.data
        BY <1>1, <1>6, <1>8, <3>4
      <4> QED BY <3>1, <3>2, <4>1 DEF Nested
    <3>5. CASE e < Depth
      <4>1. e \in 1 .. Depth /\ e # Depth
        BY <1>1, <3>5
      <4>2. stack'[e] = stack[e]
        BY <1>6, <1>8, <4>1
      <4>3. Nested(stack[d], d, stack[e])
        BY <1>1, <1>14, <2>1, <4>1 DEF IInv, Frames
      <4> QED BY <3>1, <4>2, <4>3
    <3> QED BY <1>1, <3>3, <3>4, <3>5
  <2> QED BY <2>2, <2>3
<1>15. Frames'
  BY <1>8, <1>13, <1>14 DEF Frames, Nested
<1> QED BY <1>9, <1>15 DEF IInv

\* The steps in which a node loads from another.
LEMMA CallsKeep ==
  ASSUME IInv, CallRoute \/ Forward
  PROVE  IInv'
<1>1. /\ Depth > 0 /\ FrameOK(Top) /\ Top \in Frame /\ Top.data \in Nat /\ Top.data < Depth
      /\ Depth \in Nat /\ Top.node \in Nodes
      /\ config.route \in [Nodes -> Nodes \cup {NoNode}]
      /\ config.forward \in [Nodes -> Nodes \cup {NoNode}]
  <2>1. Depth > 0
    BY DEF CallRoute, Forward, At
  <2>2. \A h \in Frame : h.node \in Nodes
    BY DEF Frame
  <2>3. config \in Configs
    BY DEF IInv, Types
  <2> QED BY <2>1, <2>2, <2>3, StackFacts, ConfigFacts DEF Depth
<1>2. PICK h : h = Top
  OBVIOUS
<1>3. "calling" \in Phases /\ "forwarding" \in Phases
  BY DEF Phases
<1>4. CASE CallRoute
  <2>1. PICK f : f = [h EXCEPT !.phase = "calling"]
    OBVIOUS
  <2>2. PICK n : n = config.route[Top.node]
    OBVIOUS
  <2>3. PICK k : k = Depth
    OBVIOUS
  <2>4. /\ CallFrom(f, n, k) /\ n \in Nodes /\ h.phase = "routing"
        /\ UNCHANGED <<config, out, result, loads, answer>>
    BY <1>1, <1>2, <1>4, <2>1, <2>2, <2>3 DEF CallRoute, At
  <2>5. /\ f \in Frame /\ f.phase = "calling" /\ f.node = h.node /\ f.data = h.data
        /\ f.found = h.found /\ f.got = h.got /\ f.attempt = h.attempt /\ f.temp = h.temp
        /\ f.transformed = h.transformed
    BY <1>1, <1>2, <1>3, <2>1 DEF Frame
  <2>6. FrameOK(f)
    BY <1>1, <1>2, <2>4, <2>5 DEF FrameOK, TeeOK
  <2> QED BY <1>1, <1>2, <2>3, <2>4, <2>5, <2>6, CallKeeps DEF Before
<1>5. CASE Forward
  <2>1. PICK f : f = [h EXCEPT !.phase = "forwarding"]
    OBVIOUS
  <2>2. PICK n : n = config.forward[Top.node]
    OBVIOUS
  <2>3. PICK k : k = Top.data
    OBVIOUS
  <2>4. /\ CallFrom(f, n, k) /\ n \in Nodes
        /\ UNCHANGED <<config, out, result, loads, answer>>
    BY <1>1, <1>2, <1>5, <2>1, <2>2, <2>3 DEF Forward, At
  <2>5. /\ f \in Frame /\ f.phase = "forwarding" /\ f.node = h.node /\ f.data = h.data
        /\ f.found = h.found /\ f.got = h.got /\ f.attempt = h.attempt
        /\ f.transformed = h.transformed
    BY <1>1, <1>2, <1>3, <2>1 DEF Frame
  <2>6. FrameOK(f)
    BY <1>1, <1>2, <2>5 DEF FrameOK, TeeOK
  <2> QED BY <1>1, <1>2, <2>3, <2>4, <2>5, <2>6, CallKeeps
<1> QED BY <1>4, <1>5
-----------------------------------------------------------------------------
\* A buffer is passed on, by the call on top or by one that waits for its LoadImpl:
\* the calls above it do not write to the stream that gets it, and those
\* below find what they wait for where it was.
LEMMA DrainKeeps ==
  ASSUME IInv, NEW d \in DOMAIN stack, Drain(d)
  PROVE  IInv'
<1>1. /\ Len(stack) \in Nat /\ stack \in Seq(Frame) /\ d \in 1 .. Len(stack) /\ d \in Nat
      /\ UNCHANGED <<config, result, loads, answer>>
      /\ stack[d].phase \in {"impl", "calling"} /\ stack[d].kept # <<>>
  BY LenProperties DEF IInv, Types, Drain
<1>2. \A e \in 1 .. Len(stack) :
        /\ FrameOK(stack[e]) /\ stack[e].data < e /\ Clean(stack[e], Got(stack[e].data))
        /\ stack[e].data \in Nat /\ stack[e] \in Frame
  <2>1. \A h \in Frame : h.data \in Nat
    BY DEF Frame
  <2> QED BY <2>1 DEF IInv, Frames, FrameOK
<1>3. PICK h : h = stack[d]
  OBVIOUS
<1>4. PICK s : s = <<Head(h.kept)>>
  OBVIOUS
<1>5. PICK f : f = [h EXCEPT !.kept = Tail(@)]
  OBVIOUS
<1>6. PassOn(stack, d, f, s)
  BY <1>3, <1>4, <1>5 DEF Drain
<1>7. s \in Seq(Chunk) /\ Tail(h.kept) \in Seq(Chunk)
  <2>1. h.kept \in Seq(Chunk) /\ h.kept # <<>>
    BY <1>1, <1>2, <1>3 DEF Frame
  <2>2. Head(h.kept) \in Chunk /\ Tail(h.kept) \in Seq(Chunk)
    BY <2>1, TailToSet
  <2> QED BY <1>4, <2>2
<1>8. /\ f \in Frame /\ f.node = h.node /\ f.phase = h.phase /\ f.data = h.data
      /\ f.found = h.found /\ f.attempt = h.attempt /\ f.got = h.got /\ f.temp = h.temp
      /\ f.transformed = h.transformed
  BY <1>1, <1>2, <1>3, <1>5, <1>7 DEF Frame
<1>9. PICK k \in Nat : k = h.data /\ k < d
  BY <1>1, <1>2, <1>3
<1>10. /\ stack' \in Seq(Frame) /\ Len(stack') = Len(stack)
       /\ stack'[d] = IF Buffers(f.node) THEN ToTemp(f, s) ELSE f
       /\ \A e \in 1 .. Len(stack) : e # d => Same(stack[e], stack'[e])
       /\ \A e \in 1 .. Len(stack) : (e # d /\ e # k) => stack'[e] = stack[e]
  <2>1. stack' = Passed(stack, d, f, s)
    BY <1>6 DEF PassOn
  <2>2. HasBecome(Passed(stack, d, f, s), stack, d, Receiver(f, s), f.data)
    BY <1>1, <1>7, <1>8, <1>9, PassedFacts
  <2> QED BY <1>8, <1>9, <2>1, <2>2 DEF HasBecome, Receiver
<1>11. PICK g : g = stack'[d]
  OBVIOUS
<1>12. /\ g \in Frame /\ g.node = h.node /\ g.phase = h.phase /\ g.data = h.data
       /\ g.found = h.found /\ g.attempt = h.attempt /\ g.got = h.got
       /\ g.temp.pos = h.temp.pos /\ g.transformed = h.transformed
  <2>1. g \in Frame
    BY <1>1, <1>10, <1>11, ElementOfSeq
  <2>2. /\ g.node = f.node /\ g.phase = f.phase /\ g.data = f.data
        /\ g.found = f.found /\ g.attempt = f.attempt /\ g.got = f.got
        /\ g.temp.pos = f.temp.pos /\ g.transformed = f.transformed
    <3>1. f \in Frame /\ g = IF Buffers(f.node) THEN ToTemp(f, s) ELSE f
      BY <1>8, <1>10, <1>11
    <3>2. f.temp \in Stream
      BY <3>1 DEF Frame
    <3> QED BY <3>1, <3>2 DEF ToTemp, Frame, Stream
  <2> QED BY <1>8, <2>1, <2>2
<1>13. \A e \in 1 .. Len(stack) :
         /\ stack'[e].phase = stack[e].phase /\ stack'[e].node = stack[e].node
         /\ stack'[e].data = stack[e].data /\ stack'[e].found = stack[e].found
  <2>1. ASSUME NEW e \in 1 .. Len(stack), e # d
        PROVE  /\ stack'[e].phase = stack[e].phase /\ stack'[e].node = stack[e].node
               /\ stack'[e].data = stack[e].data /\ stack'[e].found = stack[e].found
    <3>1. stack[e] \in Frame /\ Same(stack[e], stack'[e])
      BY <1>2, <1>10, <2>1
    <3> QED BY <3>1, SameFacts
  <2> QED BY <1>3, <1>11, <1>12, <2>1
<1>14. \A e \in 1 .. Len(stack) : FrameOK(stack'[e])
  <2>1. ASSUME NEW e \in 1 .. Len(stack), e # d
        PROVE  FrameOK(stack'[e])
    <3>1. stack[e] \in Frame /\ FrameOK(stack[e]) /\ Same(stack[e], stack'[e])
      BY <1>2, <1>10, <2>1
    <3> QED BY <3>1, SameIsOK
  <2>2. FrameOK(g)
    BY <1>1, <1>2, <1>3, <1>12 DEF FrameOK, TeeOK
  <2> QED BY <1>11, <2>1, <2>2
<1>15. \A j \in 1 .. Len(stack) : j # k => stack'[j].got = stack[j].got
  BY <1>3, <1>10, <1>11, <1>12
<1>16. out' \in Seq(Chunk) /\ (k # 0 => out' = out)
  BY <1>6, <1>7, <1>8, <1>9, ConcatProperties DEF PassOn, ReachesClient, IInv, Types
<1>17. ASSUME NEW j \in 0 .. Len(stack), j # k
       PROVE  Got(j)' = Got(j)
  <2>1. CASE j = 0
    BY <1>16, <1>17, <2>1 DEF Got
  <2>2. CASE j # 0
    <3>1. j \in 1 .. Len(stack)
      BY <1>1, <2>2
    <3> QED BY <1>15, <1>17, <2>2, <3>1 DEF Got
  <2> QED BY <2>1, <2>2
<1>18. Buffers(h.node) => Got(k)' = Got(k)
  <2>1. SUFFICES ASSUME Buffers(h.node) PROVE Got(k)' = Got(k)
    OBVIOUS
  <2>2. out' = out /\ stack' = [stack EXCEPT ![d] = ToTemp(f, s)]
    BY <1>6, <1>8, <2>1 DEF PassOn, ReachesClient, Passed
  <2>3. k # 0 => stack'[k] = stack[k]
    <3>1. k # 0 => k \in 1 .. Len(stack) /\ k # d
      BY <1>1, <1>9
    <3>2. DOMAIN stack = 1 .. Len(stack)
      BY <1>1, LenProperties
    <3> QED BY <2>2, <3>1, <3>2
  <2> QED BY <2>2, <2>3 DEF Got
<1>19. ASSUME NEW e \in 1 .. Len(stack), NEW j, j = stack[e].data
       PROVE  Clean(stack'[e], Got(j)')
  <2>1. /\ j \in 0 .. Len(stack) /\ Clean(stack[e], Got(j)) /\ j < e /\ e \in Nat
    BY <1>1, <1>2, <1>19
  <2>2. CASE e = d
    <3>1. j = k
      BY <1>3, <1>9, <1>19, <2>2
    <3>2. Buffers(h.node) => Got(j)' = Got(j)
      BY <1>18, <3>1
    <3> QED BY <1>3, <1>13, <2>1, <2>2, <3>2 DEF Clean
  <2>3. CASE e > d
    <3>1. Nested(stack[d], d, stack[e])
      BY <1>1, <2>3 DEF IInv, Frames
    <3>2. j >= d
      BY <1>1, <1>19, <3>1 DEF Nested
    <3>3. Got(j)' = Got(j)
      BY <1>1, <1>9, <1>17, <2>1, <3>2
    <3> QED BY <1>13, <2>1, <3>3 DEF Clean
  <2>4. CASE e < d
    <3>1. Nested(stack[e], e, stack[d])
      BY <1>1, <2>4 DEF IInv, Frames
    <3>2. CASE stack[e].phase = "calling"
      <4>1. k >= e
        BY <1>3, <1>9, <3>1, <3>2 DEF Nested
      <4>2. Got(j)' = Got(j)
        BY <1>9, <1>17, <2>1, <4>1
      <4> QED BY <1>13, <2>1, <4>2 DEF Clean
    <3>3. CASE stack[e].phase = "forwarding"
      BY <1>13, <3>3 DEF Clean, Before
    <3> QED BY <3>1, <3>2, <3>3 DEF Nested
  <2> QED BY <1>1, <2>1, <2>2, <2>3, <2>4
<1>20. ASSUME NEW e \in 1 .. Len(stack)
       PROVE  FrameOK(stack[e])' /\ stack'[e].data < e /\ Clean(stack[e], Got(stack[e].data))'
  <2>1. PICK j : j = stack[e].data
    OBVIOUS
  <2>2. PICK u : u = stack'[e]
    OBVIOUS
  <2>3. /\ FrameOK(u) /\ j < e /\ Clean(u, Got(j)') /\ stack'[e].data = j
    BY <1>2, <1>13, <1>14, <1>19, <2>1, <2>2
  <2>4. FrameOK(u)'
    BY <1>1, <2>3 DEF FrameOK, TeeOK, WhatTheTeeGot
  <2>5. Clean(u, Got(j))'
    BY <1>1, <2>3 DEF Clean, Buffers
  <2> QED BY <2>1, <2>2, <2>3, <2>4, <2>5
<1>21. ASSUME NEW e \in 1 .. Len(stack), NEW i \in 1 .. Len(stack), e < i
       PROVE  Nested(stack'[e], e, stack'[i])
  <2>1. Nested(stack[e], e, stack[i])
    BY <1>21 DEF IInv, Frames
  <2> QED BY <1>13, <2>1 DEF Nested
<1>22. Frames'
  BY <1>10, <1>20, <1>21 DEF Frames, Nested
<1>23. Types'
  BY <1>1, <1>10, <1>16 DEF IInv, Types
<1> QED BY <1>22, <1>23 DEF IInv
-----------------------------------------------------------------------------
\* A request begins with one call, on an empty stream, and ends when it has returned.
LEMMA RequestsKeep ==
  ASSUME IInv, Request \/ RequestEnds
  PROVE  IInv'
<1>1. config \in Configs /\ config' = config
  BY DEF IInv, Types, Request, RequestEnds
<1>2. CASE Request
  <2>0. PICK n \in Nodes : n = config.root
    BY <1>1, ConfigFacts
  <2>1. PICK f : f = Called(n, 0, 0)
    OBVIOUS
  <2>2. stack' = <<f>> /\ out' = <<>> /\ result' = "none" /\ loads' = 0 /\ answer' = 0
    BY <1>2, <2>0, <2>1 DEF Request
  <2>3. /\ FrameOK(f) /\ f \in Frame /\ f.phase = "enter" /\ f.data = 0 /\ f.found = 0
    <3>1. 0 \in Nat
      OBVIOUS
    <3> QED BY <1>1, <2>1, <3>1, CalledIsOK
  <2>4. stack' \in Seq(Frame) /\ Len(stack') = 1 /\ stack'[1] = f
    BY <2>2, <2>3
  <2>5. out' \in Seq(Chunk) /\ Len(out') = 0
    BY <2>2
  <2>6. Types'
    BY <1>1, <2>2, <2>4, <2>5 DEF Types, Results
  <2>7. FrameOK(f)'
    BY <1>1, <2>3 DEF FrameOK, TeeOK, WhatTheTeeGot
  <2>8. Clean(f, Got(0))'
    BY <2>3, <2>5 DEF Clean, Got
  <2>9. \A d \in 1 .. Len(stack') : d = 1
    BY <2>4
  <2>10. \A d \in 1 .. Len(stack') :
           /\ FrameOK(stack[d])' /\ stack'[d].data < d /\ Clean(stack[d], Got(stack[d].data))'
    BY <2>3, <2>4, <2>7, <2>8, <2>9
  <2>11. Frames'
    BY <2>9, <2>10 DEF Frames
  <2> QED BY <2>6, <2>11 DEF IInv
<1>3. CASE RequestEnds
  <2>1. Depth = 1 /\ Top.phase \in {"true", "false", "threw"}
    BY <1>3 DEF RequestEnds
  <2>2. Top \in Frame
    BY <2>1, StackFacts
  <2>3. Top.answer \in Nat
    BY <2>2 DEF Frame
  <2>4. stack' = <<>> /\ Len(<<>>) = 0 /\ <<>> \in Seq(Frame)
    BY <1>3, EmptySeq DEF RequestEnds
  <2>5. Types'
    BY <1>1, <1>3, <2>1, <2>3, <2>4 DEF RequestEnds, IInv, Types, Results
  <2>6. Frames'
    BY <2>4 DEF Frames
  <2> QED BY <2>5, <2>6 DEF IInv
<1> QED BY <1>2, <1>3

\* Before the first request.
LEMMA InitHas == Init => IInv
<1>1. Len(<<>>) = 0 /\ <<>> \in Seq(Frame) /\ <<>> \in Seq(Chunk)
  BY EmptySeq
<1> QED BY <1>1 DEF Init, IInv, Types, Frames, Results

\* A step keeps what the calls and their streams are.
LEMMA NextKeeps == IInv /\ [Next]_vars => IInv'
<1>1. SUFFICES ASSUME IInv, [Next]_vars PROVE IInv'
  OBVIOUS
<1>2. CASE UNCHANGED vars
  BY <1>1, <1>2 DEF vars, IInv, Types, Frames, FrameOK, TeeOK, WhatTheTeeGot, Clean, Buffers, Got,
     Nested
<1>3. CASE Request \/ RequestEnds
  BY <1>1, <1>3, RequestsKeep
<1>4. CASE \/ Ignore \/ Prepare \/ PrepareFails \/ NoAttempt \/ TransformFails \/ TeeFails
           \/ Throw \/ HandleResultThrows
  BY <1>1, <1>4, MovesKeep
<1>5. CASE Attempt
  BY <1>1, <1>5, AttemptKeeps
<1>6. CASE LeafWrites
  BY <1>1, <1>6, LeafWritesKeeps
<1>7. CASE LeafReturns \/ HasNoRoute \/ LeafThrows \/ RouterIsDisabled
  BY <1>1, <1>7, TopLoadsKeep
<1>8. CASE RouteReturns \/ RouteThrows \/ ForwardReturns \/ ForwardThrows
  BY <1>1, <1>8, CallersGoOn
<1>9. CASE CallRoute \/ Forward
  BY <1>1, <1>9, CallsKeep
<1>10. CASE \E d \in DOMAIN stack : Drain(d)
  BY <1>1, <1>10, DrainKeeps
<1>11. CASE Transform
  BY <1>1, <1>11, TransformKeeps
<1>12. CASE Tee
  BY <1>1, <1>12, TeeKeeps
<1>13. CASE Push
  BY <1>1, <1>13, PushKeeps
<1> QED BY <1>1, <1>2, <1>3, <1>4, <1>5, <1>6, <1>7, <1>8, <1>9, <1>10, <1>11, <1>12, <1>13
        DEF Next

\* The inductive invariant holds in every run.
THEOREM Invariance == Spec => []IInv
  BY InitHas, NextKeeps, PTL DEF Spec
-----------------------------------------------------------------------------
\* The stack is one of calls, each of which makes no more attempts than RetryCount
\* allows (AbstractNode.cpp:237-268).
THEOREM TypeCorrect == Spec => []TypeOK
<1>1. IInv => TypeOK
  <2>1. SUFFICES ASSUME IInv PROVE TypeOK
    OBVIOUS
  <2>2. DOMAIN stack = 1 .. Len(stack)
    BY <2>1, LenProperties DEF IInv, Types
  <2> QED BY <2>1, <2>2 DEF IInv, Types, Frames, FrameOK, TypeOK, Results
<1> QED BY <1>1, Invariance, PTL

\* A call that buffers and fails has written nothing to its caller's stream, for
\* however many attempts, routes and forwards below it (AbstractNode.cpp:224-234, 382-386).
THEOREM LeavesNoTrace == Spec => []FailureLeavesNoTrace
<1>1. IInv => FailureLeavesNoTrace
  <2>1. SUFFICES ASSUME IInv PROVE FailureLeavesNoTrace
    OBVIOUS
  <2>2. DOMAIN stack = 1 .. Len(stack)
    BY <2>1, LenProperties DEF IInv, Types
  <2>3. "failed" \in Before
    BY DEF Before
  <2> QED BY <2>1, <2>2, <2>3 DEF IInv, Frames, Clean, FailureLeavesNoTrace
<1> QED BY <1>1, Invariance, PTL

\* The tee and the caller are given the same data, whichever of the two streams
\* the tee reads and the transformer has read (AbstractNode.cpp:270-325).
THEOREM TeeIsGivenTheData == Spec => []TeeMatchesResult
<1>1. IInv => TeeMatchesResult
  <2>1. SUFFICES ASSUME IInv PROVE TeeMatchesResult
    OBVIOUS
  <2>2. DOMAIN stack = 1 .. Len(stack)
    BY <2>1, LenProperties DEF IInv, Types
  <2>3. \A d \in DOMAIN stack : TeeOK(stack[d])
    BY <2>1, <2>2 DEF IInv, Frames, FrameOK
  <2> QED BY <2>3 DEF TeeOK, WhatTheTeeGot, TeeMatchesResult
<1> QED BY <1>1, Invariance, PTL
-----------------------------------------------------------------------------
(* The data of the client's stream.  A trail is what the streams of the      *)
(* calls would be if all outputs were flushed.                               *)

\* The last p chunks of s are the first p that the LoadImpl number k wrote.
Ends(s, k, p) ==
  /\ Len(s) >= p
  /\ \A i \in 1 .. p :
       LET chunk == s[Len(s) - p + i] IN chunk.load = k /\ chunk.part = i

Excused ==
  \/ config.ignored # {}
  \/ \E n \in config.routers : config.route[n] = NoNode
  \/ \E n \in Nodes : Attempts(n) = 0

\* s is what the LoadImpl wrote whose return made the call of f succeed.
Done(f, s) == IF f.answer > 0 THEN Ends(s, f.answer, Length) ELSE Excused

\* Whose output is still there.
Writing == {"impl", "calling"}

\* What would have been written to the output of f, if its stream has given.
Held(f, given) == (IF Buffers(f.node) THEN f.temp.data ELSE given) \o f.kept

Trail(t, calls, o) ==
  /\ t \in [Nat -> Seq(Chunk)]
  /\ t[0] = o
  /\ \A d \in 1 .. Len(calls) :
       calls[d].phase \in Writing => t[d] = Held(calls[d], t[calls[d].data])

\* What a call in each phase says of its own data, own, and of its stream, given.
Promise(f, own, given) ==
  /\ f.phase = "impl" => Ends(own, f.load, f.part)
  /\ f.phase = "loaded" => Done(f, IF Buffers(f.node) THEN f.temp.data ELSE given)
  /\ f.phase = "transformed" => Done(f, f.transformed.data)
  /\ f.phase = "teed" =>
       Done(f, IF Transforms(f.node) THEN f.transformed.data ELSE f.temp.data)
  /\ f.phase \in {"true", "false"} => Done(f, given)

Says(f) ==
  /\ f.phase \in {"enter", "attempt", "impl", "routing", "calling"} => f.answer = 0
  /\ f.phase = "routing" => f.node \in config.routers
  /\ f.phase = "impl" => f.load > 0 /\ f.part <= Length

\* A call writes to the output of a router that waits for its route, and a forwarded
\* one to the stream of the call that failed.
Linked(calls) ==
  /\ \A d \in 1 .. Len(calls) :
       Says(calls[d]) /\ (calls[d].data # 0 => calls[calls[d].data].phase = "calling")
  /\ \A d \in 1 .. Len(calls) - 1 :
       calls[d].phase = "forwarding" => calls[d + 1].data = calls[d].data

Shape(calls) ==
  /\ calls \in Seq(Frame)
  /\ \A d \in 1 .. Len(calls) : calls[d].data < d
  /\ \A d, e \in 1 .. Len(calls) : d < e => Nested(calls[d], d, calls[e])

Promised(calls, t) ==
  Len(calls) > 0 =>
    LET f == calls[Len(calls)] IN Promise(f, t[Len(calls)], t[f.data])

Traced(calls, o) ==
  /\ Linked(calls)
  /\ \E t : Trail(t, calls, o) /\ Promised(calls, t)

\* w has been written to the output of f, which is now g.
GetsMore(f, g, w) ==
  /\ Same(f, g)
  /\ g.kept = f.kept \o w
  /\ g.answer = f.answer /\ g.load = f.load /\ g.part = f.part

\* Of the calls calls, the one at depth m goes on and writes w to its stream.
Writes(calls, o, next, p, m, w) ==
  /\ next \in Seq(Frame) /\ Len(next) \in m .. Len(calls)
  /\ next[m].data = calls[m].data
  /\ \A e \in 1 .. Len(next) : (e # m /\ e # calls[m].data) => next[e] = calls[e]
  /\ \A e \in 1 .. Len(next) : e = calls[m].data => GetsMore(calls[e], next[e], w)
  /\ p = IF calls[m].data = 0 THEN o \o w ELSE o

\* What is held is a sequence of chunks, and so is what comes after it.
LEMMA HeldFacts ==
  ASSUME NEW f \in Frame, NEW given \in Seq(Chunk)
  PROVE  /\ Held(f, given) \in Seq(Chunk)
         /\ \A g, w : w \in Seq(Chunk) /\ GetsMore(f, g, w) =>
              Held(g, given) = Held(f, given) \o w
<1>1. f.temp.data \in Seq(Chunk) /\ f.kept \in Seq(Chunk)
  BY DEF Frame, Stream
<1>2. PICK base : base = IF Buffers(f.node) THEN f.temp.data ELSE given
  OBVIOUS
<1>3. base \in Seq(Chunk) /\ Held(f, given) = base \o f.kept
  BY <1>1, <1>2 DEF Held
<1>4. ASSUME NEW g, NEW w \in Seq(Chunk), GetsMore(f, g, w)
      PROVE  Held(g, given) = Held(f, given) \o w
  <2>1. g.node = f.node /\ g.temp = f.temp /\ g.kept = f.kept \o w
    BY <1>4, SameFacts DEF GetsMore
  <2>2. Held(g, given) = base \o (f.kept \o w)
    BY <1>2, <2>1 DEF Held
  <2>3. PICK kept \in Seq(Chunk) : kept = f.kept
    BY <1>1
  <2>4. (base \o kept) \o w = base \o (kept \o w)
    BY <1>3, ConcatAssociative
  <2> QED BY <1>3, <2>2, <2>3, <2>4
<1>5. Held(f, given) \in Seq(Chunk)
  BY <1>1, <1>3, ConcatProperties
<1> QED BY <1>4, <1>5

\* The trail is u after w was written to stream j, and was t.
Follows(u, t, next, p, m, j, w) ==
  /\ Trail(u, next, p)
  /\ u[j] = t[j] \o w
  /\ next[m].phase \in Writing => u[m] = Held(next[m], u[j])
  /\ \A k \in Nat : k > m => u[k] = t[k]
  /\ Len(next) > m => u[m] = t[m]

\* The streams of the other calls stay those of a trail.
LEMMA TrailGoesOn ==
  ASSUME NEW calls, Shape(calls), Linked(calls), NEW o \in Seq(Chunk),
         NEW t, Trail(t, calls, o), NEW m \in 1 .. Len(calls), NEW w \in Seq(Chunk),
         NEW next, NEW p, Writes(calls, o, next, p, m, w),
         NEW j, j = calls[m].data,
         Len(next) > m => calls[m].phase = "calling" /\ Held(next[m], t[j] \o w) = t[m]
  PROVE  \E u : Follows(u, t, next, p, m, j, w)
<1>1. /\ calls \in Seq(Frame) /\ Len(calls) \in Nat /\ m \in Nat
      /\ \A d \in 1 .. Len(calls) :
           calls[d] \in Frame /\ calls[d].data \in Nat /\ calls[d].data < d
      /\ next \in Seq(Frame) /\ Len(next) \in Nat /\ Len(next) \in m .. Len(calls)
      /\ \A d \in 1 .. Len(next) : next[d] \in Frame /\ d \in 1 .. Len(calls)
  <2>1. \A f \in Frame : f.data \in Nat
    BY DEF Frame
  <2> QED BY <2>1, ElementOfSeq, LenProperties DEF Shape, Writes
<1>2. j \in Nat /\ m \in Nat /\ 0 < m /\ j < m /\ j # m
  BY <1>1
<1>3. t[j] \in Seq(Chunk) /\ t[j] \o w \in Seq(Chunk) /\ t \in [Nat -> Seq(Chunk)] /\ t[0] = o
  BY <1>2, ConcatProperties DEF Trail
<1>4. PICK a : a = Held(next[m], t[j] \o w)
  OBVIOUS
<1>5. a \in Seq(Chunk)
  <2>1. next[m] \in Frame
    BY <1>1
  <2> QED BY <1>3, <1>4, <2>1, HeldFacts
<1>6. PICK u : u = [k \in Nat |-> IF k = m THEN a ELSE IF k = j THEN t[j] \o w ELSE t[k]]
  OBVIOUS
<1>7. /\ u \in [Nat -> Seq(Chunk)]
      /\ u[m] = a /\ u[j] = t[j] \o w
      /\ \A k \in Nat : (k # m /\ k # j) => u[k] = t[k]
  BY <1>1, <1>2, <1>3, <1>5, <1>6
<1>8. u[0] = p
  <2>1. p = IF j = 0 THEN o \o w ELSE o
    BY DEF Writes
  <2>2. CASE j = 0
    BY <1>3, <1>7, <2>1, <2>2
  <2>3. CASE j # 0
    <3>1. 0 # m /\ 0 # j /\ 0 \in Nat
      BY <1>2, <2>3
    <3>2. u[0] = t[0]
      BY <1>7, <3>1
    <3> QED BY <1>3, <2>1, <2>3, <3>2
  <2> QED BY <2>2, <2>3
<1>9. ASSUME NEW d \in 1 .. Len(next), next[d].phase \in Writing
      PROVE  u[d] = Held(next[d], u[next[d].data])
  <2>1. d \in 1 .. Len(calls) /\ d \in Nat /\ d # 0
    BY <1>1
  <2>2. CASE d = m
    <3>1. next[d].data = j
      BY <2>2 DEF Writes
    <3> QED BY <1>4, <1>7, <2>2, <3>1
  <2>3. CASE d = j
    <3>1. GetsMore(calls[d], next[d], w)
      BY <2>3 DEF Writes
    <3>2. next[d].phase = calls[d].phase /\ next[d].data = calls[d].data
      BY <1>1, <2>1, <3>1, SameFacts DEF GetsMore
    <3>3. PICK i : i = calls[d].data
      OBVIOUS
    <3>4. i \in Nat /\ i < d /\ i # m /\ i # j
      BY <1>1, <1>2, <2>1, <2>3, <3>3
    <3>5. u[i] = t[i] /\ t[i] \in Seq(Chunk)
      BY <1>3, <1>7, <3>4
    <3>6. t[d] = Held(calls[d], t[i])
      BY <1>9, <2>1, <3>2, <3>3 DEF Trail
    <3>7. Held(next[d], t[i]) = Held(calls[d], t[i]) \o w
      <4>1. PICK f \in Frame : f = calls[d]
        BY <1>1, <2>1
      <4> QED BY <3>1, <3>5, <4>1, HeldFacts
    <3> QED BY <1>7, <2>3, <3>2, <3>3, <3>5, <3>6, <3>7
  <2>4. ASSUME d # m, d # j PROVE u[d] = Held(next[d], u[next[d].data])
    <3>1. next[d] = calls[d]
      BY <2>4 DEF Writes
    <3>2. PICK i : i = calls[d].data
      OBVIOUS
    <3>3. i \in Nat /\ i < d
      BY <1>1, <2>1, <3>2
    <3>4. u[i] = t[i]
      <4>1. CASE d < m
        <5>1. Nested(calls[d], d, calls[m])
          BY <2>1, <4>1 DEF Shape
        <5>2. calls[d].phase = "calling"
          BY <1>9, <3>1, <5>1 DEF Nested, Writing
        <5>3. j >= d
          BY <5>1, <5>2 DEF Nested
        <5>4. i # m /\ i # j
          BY <1>2, <2>1, <3>3, <4>1, <5>3
        <5> QED BY <1>7, <3>3, <5>4
      <4>2. CASE d > m
        <5>1. Nested(calls[m], m, calls[d]) /\ Len(next) > m
          BY <1>1, <2>1, <4>2 DEF Shape
        <5>2. i >= m
          BY <3>2, <5>1 DEF Nested
        <5>3. u[m] = t[m]
          BY <1>4, <1>7, <5>1
        <5>4. i = m \/ (i # m /\ i # j)
          BY <1>2, <3>3, <5>2
        <5> QED BY <1>7, <3>3, <5>3, <5>4
      <4> QED BY <1>1, <2>1, <2>4, <4>1, <4>2
    <3>5. u[d] = t[d]
      BY <1>7, <2>1, <2>4
    <3>6. t[d] = Held(calls[d], t[i])
      BY <1>9, <2>1, <3>1, <3>2 DEF Trail
    <3> QED BY <3>1, <3>2, <3>4, <3>5, <3>6
  <2> QED BY <2>2, <2>3, <2>4
<1>10. Trail(u, next, p)
  BY <1>7, <1>8, <1>9 DEF Trail
<1>11. Len(next) > m => u[m] = t[m]
  BY <1>4, <1>7
<1>12. ASSUME NEW k \in Nat, k > m PROVE u[k] = t[k]
  <2>1. k # m /\ k # j
    BY <1>2, <1>12
  <2> QED BY <1>7, <2>1
<1> QED BY <1>4, <1>7, <1>10, <1>11, <1>12 DEF Follows

\* Nor do the other calls become other calls.
LEMMA LinkedGoesOn ==
  ASSUME NEW calls, Shape(calls), Linked(calls), NEW o \in Seq(Chunk),
         NEW m \in 1 .. Len(calls), NEW w \in Seq(Chunk),
         NEW next, NEW p, Writes(calls, o, next, p, m, w), Says(next[m]),
         Len(next) > m => next[m].phase = calls[m].phase
  PROVE  Linked(next)
<1>1. /\ Len(calls) \in Nat /\ m \in Nat /\ Len(next) \in Nat /\ Len(next) \in m .. Len(calls)
      /\ \A d \in 1 .. Len(calls) :
           calls[d] \in Frame /\ calls[d].data \in Nat /\ calls[d].data < d
      /\ \A d \in 1 .. Len(next) : d \in 1 .. Len(calls)
  <2>1. \A f \in Frame : f.data \in Nat
    BY DEF Frame
  <2> QED BY <2>1, ElementOfSeq, LenProperties DEF Shape, Writes
<1>2. ASSUME NEW d \in 1 .. Len(next), d # m
      PROVE  /\ next[d].phase = calls[d].phase /\ next[d].data = calls[d].data
             /\ Says(next[d])
  <2>1. d \in 1 .. Len(calls) /\ calls[d] \in Frame /\ Says(calls[d])
    BY <1>1 DEF Linked
  <2>2. CASE d = calls[m].data
    <3>1. GetsMore(calls[d], next[d], w)
      BY <2>2 DEF Writes
    <3>2. /\ next[d].phase = calls[d].phase /\ next[d].data = calls[d].data
          /\ next[d].node = calls[d].node /\ next[d].answer = calls[d].answer
          /\ next[d].load = calls[d].load /\ next[d].part = calls[d].part
      BY <2>1, <3>1, SameFacts DEF GetsMore
    <3> QED BY <2>1, <3>2 DEF Says
  <2>3. CASE d # calls[m].data
    BY <1>2, <2>1, <2>3 DEF Writes
  <2> QED BY <2>2, <2>3
<1>3. \A d \in 1 .. Len(next) : next[d].data = calls[d].data
  BY <1>2 DEF Writes
<1>4. ASSUME NEW d \in 1 .. Len(next), next[d].data # 0
      PROVE  next[next[d].data].phase = "calling"
  <2>1. PICK i : i = calls[d].data
    OBVIOUS
  <2>2. /\ i \in 1 .. Len(next) /\ i < d /\ d \in 1 .. Len(calls) /\ next[d].data = i
        /\ d <= Len(next) /\ d \in Nat /\ i \in Nat
    BY <1>1, <1>3, <1>4, <2>1
  <2>3. calls[i].phase = "calling"
    BY <1>4, <2>1, <2>2 DEF Linked
  <2>4. next[i].phase = calls[i].phase
    <3>1. CASE i = m
      <4>1. Len(next) > m
        BY <1>1, <2>2, <3>1
      <4> QED BY <3>1, <4>1
    <3>2. CASE i # m
      BY <1>2, <2>2, <3>2
    <3> QED BY <3>1, <3>2
  <2> QED BY <2>2, <2>3, <2>4
<1>5. ASSUME NEW d \in 1 .. Len(next) - 1, next[d].phase = "forwarding"
      PROVE  next[d + 1].data = next[d].data
  <2>1. /\ d \in 1 .. Len(next) /\ d + 1 \in 1 .. Len(next) /\ d \in 1 .. Len(calls) - 1
        /\ d < Len(next)
    BY <1>1
  <2>2. calls[d].phase = "forwarding"
    <3>1. CASE d = m
      <4>1. Len(next) > m
        BY <2>1, <3>1
      <4> QED BY <1>5, <3>1, <4>1
    <3>2. CASE d # m
      BY <1>2, <1>5, <2>1, <3>2
    <3> QED BY <3>1, <3>2
  <2>3. calls[d + 1].data = calls[d].data
    BY <2>1, <2>2 DEF Linked
  <2> QED BY <1>3, <2>1, <2>3
<1> QED BY <1>2, <1>4, <1>5 DEF Linked

\* The last call that has not ended goes on, and what it says now is true.
LEMMA TraceGoesOn ==
  ASSUME NEW calls, Shape(calls), Linked(calls), NEW o \in Seq(Chunk),
         NEW t, Trail(t, calls, o), NEW m \in 1 .. Len(calls), NEW w \in Seq(Chunk),
         NEW next, NEW p, Writes(calls, o, next, p, m, w), Len(next) = m,
         NEW j, j = calls[m].data, Says(next[m]),
         \A own : (next[m].phase \in Writing => own = Held(next[m], t[j] \o w)) =>
                    Promise(next[m], own, t[j] \o w)
  PROVE  Traced(next, p)
<1>1. Len(next) = m /\ ~(Len(next) > m) /\ next[m].data = j
  <2>1. m \in Nat
    BY LenProperties DEF Shape
  <2> QED BY <2>1 DEF Writes
<1>2. Linked(next)
  BY <1>1, LinkedGoesOn
<1>3. PICK u : Follows(u, t, next, p, m, j, w)
  <2>1. Len(next) > m => calls[m].phase = "calling" /\ Held(next[m], t[j] \o w) = t[m]
    BY <1>1
  <2> QED BY <2>1, TrailGoesOn
<1>4. Promise(next[m], u[m], u[j]) /\ Trail(u, next, p)
  BY <1>3 DEF Follows
<1>5. Promised(next, u)
  BY <1>1, <1>4 DEF Promised
<1> QED BY <1>2, <1>4, <1>5 DEF Traced

\* The shape of the stack.
LEMMA StackHasShape ==
  ASSUME IInv
  PROVE  Shape(stack)
  BY DEF IInv, Types, Frames, Shape
-----------------------------------------------------------------------------
\* Nothing written is something written.
LEMMA GetsNothing ==
  ASSUME NEW f \in Frame
  PROVE  GetsMore(f, f, <<>>)
<1>1. f.kept \in Seq(Chunk)
  BY DEF Frame
<1>2. f.kept \o <<>> = f.kept
  BY <1>1, ConcatEmptySeq
<1> QED BY <1>2, SameIsReflexive DEF GetsMore

\* What is written to a stream comes after what it keeps.
LEMMA WrittenMore ==
  ASSUME NEW calls \in Seq(Frame), NEW k \in 1 .. Len(calls), NEW s \in Seq(Chunk)
  PROVE  GetsMore(calls[k], Written(calls, k, s)[k], s)
<1>1. PICK f : f = calls[k]
  OBVIOUS
<1>2. /\ f \in Frame /\ f.kept \in Seq(Chunk) /\ f.got \in Nat /\ k # 0
      /\ DOMAIN calls = 1 .. Len(calls) /\ Len(calls) \in Nat /\ Len(s) \in Nat
  <2>1. f \in Frame
    BY <1>1, ElementOfSeq
  <2> QED BY <2>1, LenProperties DEF Frame
<1>3. PICK kept \in Seq(Chunk) : kept = f.kept \o s
  BY <1>2, ConcatProperties
<1>4. PICK got \in Nat : got = f.got + Len(s)
  BY <1>2
<1>5. PICK g : g = [f EXCEPT !.kept = kept, !.got = got]
  OBVIOUS
<1>6. /\ g \in Frame /\ g.kept = kept
      /\ g.answer = f.answer /\ g.load = f.load /\ g.part = f.part
  BY <1>2, <1>5 DEF Frame
<1>7. Written(calls, k, s) = [calls EXCEPT ![k] = g]
  BY <1>1, <1>2, <1>3, <1>4, <1>5 DEF Written
<1>8. Written(calls, k, s)[k] = g
  BY <1>2, <1>7
<1>9. Same(f, g)
  BY <1>5, <1>6 DEF Same
<1> QED BY <1>1, <1>3, <1>6, <1>8, <1>9 DEF GetsMore

\* A call that becomes f writes nothing.
LEMMA QuietWrites ==
  ASSUME NEW calls, Shape(calls), NEW o \in Seq(Chunk), NEW m \in 1 .. Len(calls),
         NEW n \in m .. Len(calls), NEW f \in Frame, f.data = calls[m].data,
         NEW next, next = [SubSeq(calls, 1, n) EXCEPT ![m] = f]
  PROVE  /\ Writes(calls, o, next, o, m, <<>>)
         /\ next[m] = f /\ Len(next) = n
<1>1. /\ calls \in Seq(Frame) /\ Len(calls) \in Nat /\ m \in Nat /\ n \in Nat
      /\ n <= Len(calls) /\ 0 < m /\ m <= n
  BY LenProperties DEF Shape
<1>2. PICK b : b = SubSeq(calls, 1, n)
  OBVIOUS
<1>3. b \in Seq(Frame) /\ Len(b) = n /\ \A e \in 1 .. n : b[e] = calls[e]
  BY <1>1, <1>2, PrefixFacts
<1>4. m \in 1 .. Len(b) /\ n \in m .. Len(calls) /\ m \in 1 .. n
  BY <1>1, <1>3
<1>5. /\ next \in Seq(Frame) /\ Len(next) = n
      /\ \A e \in 1 .. n : next[e] = IF e = m THEN f ELSE b[e]
  <2>1. next = [b EXCEPT ![m] = f]
    BY <1>2
  <2> QED BY <1>3, <1>4, <2>1, ExceptSeq
<1>6. next[m] = f /\ \A e \in 1 .. n : e # m => next[e] = calls[e]
  BY <1>3, <1>4, <1>5
<1>7. ASSUME NEW e \in 1 .. Len(next), e = calls[m].data
      PROVE  GetsMore(calls[e], next[e], <<>>)
  <2>1. e \in 1 .. Len(calls) /\ e \in 1 .. n /\ e # m
    BY <1>1, <1>5, <1>7 DEF Shape
  <2>2. calls[e] \in Frame /\ next[e] = calls[e]
    BY <1>1, <1>6, <2>1, ElementOfSeq
  <2> QED BY <2>2, GetsNothing
<1>8. o \o <<>> = o
  BY ConcatEmptySeq
<1> QED BY <1>4, <1>5, <1>6, <1>7, <1>8 DEF Writes

\* A call that becomes f writes s to its stream.
Direct(calls, o, next, p, m, n, f, s) ==
  /\ next = Written([SubSeq(calls, 1, n) EXCEPT ![m] = f], f.data, s)
  /\ p = IF f.data = 0 THEN o \o s ELSE o

LEMMA DirectWrites ==
  ASSUME NEW calls, Shape(calls), NEW o \in Seq(Chunk), NEW m \in 1 .. Len(calls),
         NEW n \in m .. Len(calls), NEW f \in Frame, f.data = calls[m].data,
         NEW s \in Seq(Chunk), NEW next, NEW p, Direct(calls, o, next, p, m, n, f, s)
  PROVE  /\ Writes(calls, o, next, p, m, s)
         /\ next[m] = f /\ Len(next) = n
<1>1. /\ calls \in Seq(Frame) /\ Len(calls) \in Nat /\ m \in Nat /\ n \in Nat
      /\ n <= Len(calls) /\ 0 < m /\ m <= n
      /\ f.data \in Nat /\ f.data < m
  <2>1. f.data \in Nat
    BY DEF Frame
  <2> QED BY <2>1, LenProperties DEF Shape
<1>2. PICK b : b = SubSeq(calls, 1, n)
  OBVIOUS
<1>3. b \in Seq(Frame) /\ Len(b) = n /\ \A e \in 1 .. n : b[e] = calls[e]
  BY <1>1, <1>2, PrefixFacts
<1>4. m \in 1 .. Len(b) /\ n \in m .. Len(calls) /\ m \in 1 .. n
  BY <1>1, <1>3
<1>5. PICK c : c = [b EXCEPT ![m] = f]
  OBVIOUS
<1>6. c \in Seq(Frame) /\ Len(c) = n /\ \A e \in 1 .. n : c[e] = IF e = m THEN f ELSE b[e]
  BY <1>3, <1>4, <1>5, ExceptSeq
<1>7. PICK k : k = f.data
  OBVIOUS
<1>8. k \in 0 .. Len(c) /\ k # m /\ k = calls[m].data
  BY <1>1, <1>6, <1>7
<1>9. next = Written(c, k, s) /\ p = IF k = 0 THEN o \o s ELSE o
  BY <1>2, <1>5, <1>7 DEF Direct
<1>10. /\ next \in Seq(Frame) /\ Len(next) = n
       /\ \A e \in 1 .. n : e # k => next[e] = c[e]
  <2>1. PICK u : u = Written(c, k, s)
    OBVIOUS
  <2>2. /\ u \in Seq(Frame) /\ Len(u) = Len(c)
        /\ \A e \in 1 .. Len(c) : e # k => u[e] = c[e]
    BY <1>6, <1>8, <2>1, WrittenFacts
  <2> QED BY <1>6, <1>9, <2>1, <2>2
<1>11. next[m] = f /\ \A e \in 1 .. n : (e # m /\ e # k) => next[e] = calls[e]
  BY <1>3, <1>4, <1>6, <1>8, <1>10
<1>12. ASSUME NEW e \in 1 .. Len(next), e = k
       PROVE  GetsMore(calls[e], next[e], s)
  <2>1. e \in 1 .. Len(c) /\ c[e] = calls[e] /\ next = Written(c, e, s)
    BY <1>3, <1>6, <1>8, <1>9, <1>10, <1>12
  <2>2. GetsMore(c[e], Written(c, e, s)[e], s)
    BY <1>6, <2>1, WrittenMore
  <2> QED BY <2>1, <2>2
<1> QED BY <1>4, <1>7, <1>8, <1>9, <1>10, <1>11, <1>12 DEF Writes

\* A call that passes s on writes it to its stream, unless it buffers.
PassesOn(calls, o, next, p, m, n, f, s, w) ==
  /\ next = Passed(SubSeq(calls, 1, n), m, f, s)
  /\ p = IF ReachesClient(f) THEN o \o s ELSE o
  /\ w = IF Buffers(f.node) THEN <<>> ELSE s

LEMMA PassWrites ==
  ASSUME NEW calls, Shape(calls), NEW o \in Seq(Chunk), NEW m \in 1 .. Len(calls),
         NEW n \in m .. Len(calls),
         NEW f \in Frame, f.data = calls[m].data, NEW s \in Seq(Chunk),
         NEW next, NEW p, NEW w, PassesOn(calls, o, next, p, m, n, f, s, w)
  PROVE  /\ Writes(calls, o, next, p, m, w)
         /\ next[m] = Receiver(f, s) /\ Len(next) = n
         /\ w \in Seq(Chunk)
<1>1. CASE Buffers(f.node)
  <2>1. PICK g : g = ToTemp(f, s)
    OBVIOUS
  <2>2. g \in Frame /\ g.data = f.data
    <3>1. f.temp.data \o s \in Seq(Chunk)
      BY ConcatProperties DEF Frame, Stream
    <3> QED BY <2>1, <3>1 DEF ToTemp, Frame, Stream
  <2>3. next = [SubSeq(calls, 1, n) EXCEPT ![m] = g] /\ p = o /\ g = Receiver(f, s)
    BY <1>1, <2>1 DEF PassesOn, Passed, ReachesClient, Receiver
  <2>4. Writes(calls, o, next, o, m, <<>>) /\ next[m] = g /\ Len(next) = n
    BY <2>2, <2>3, QuietWrites
  <2> QED BY <1>1, <2>3, <2>4, EmptySeq DEF PassesOn
<1>2. CASE ~Buffers(f.node)
  <2>1. Direct(calls, o, next, p, m, n, f, s) /\ f = Receiver(f, s) /\ w = s
    BY <1>2 DEF PassesOn, Passed, ReachesClient, Receiver, Direct
  <2>2. Writes(calls, o, next, p, m, s) /\ next[m] = f /\ Len(next) = n
    BY <2>1, DirectWrites
  <2> QED BY <2>1, <2>2
<1> QED BY <1>1, <1>2
-----------------------------------------------------------------------------
\* What comes before the end of a stream does not matter.
LEMMA EndsAfter ==
  ASSUME NEW r \in Seq(Chunk), NEW s \in Seq(Chunk), NEW k \in Nat, NEW p \in Nat,
         Ends(s, k, p)
  PROVE  Ends(r \o s, k, p)
<1>1. /\ Len(r) \in Nat /\ Len(s) \in Nat /\ Len(r \o s) = Len(r) + Len(s)
      /\ \A i \in 1 .. Len(r) + Len(s) :
           (r \o s)[i] = IF i <= Len(r) THEN r[i] ELSE s[i - Len(r)]
  BY ConcatProperties, LenProperties
<1>2. Len(s) >= p
  BY DEF Ends
<1>3. ASSUME NEW i \in 1 .. p
      PROVE  (r \o s)[Len(r \o s) - p + i] = s[Len(s) - p + i]
  <2>1. PICK d \in Int : d = Len(r) + Len(s) - p + i
    <3>1. Len(r) \in Nat /\ Len(s) \in Nat
      BY <1>1
    <3>2. Len(r) + Len(s) - p + i \in Int
      BY <3>1
    <3> QED BY <3>2, Zenon
  <2>2. /\ d \in 1 .. Len(r) + Len(s) /\ ~(d <= Len(r)) /\ d - Len(r) = Len(s) - p + i
    BY <1>1, <1>2, <2>1
  <2>3. (r \o s)[d] = s[d - Len(r)]
    BY <1>1, <2>2
  <2> QED BY <1>1, <2>1, <2>2, <2>3
<1>4. Len(r \o s) >= p
  BY <1>1, <1>2
<1> QED BY <1>3, <1>4 DEF Ends

\* The next part makes the end longer.
LEMMA EndsWithOneMore ==
  ASSUME NEW s \in Seq(Chunk), NEW k \in Nat, NEW p \in Nat, Ends(s, k, p),
         NEW c \in Chunk, c.load = k, c.part = p + 1
  PROVE  Ends(Append(s, c), k, p + 1)
<1>1. /\ Len(s) \in Nat /\ Len(Append(s, c)) = Len(s) + 1
      /\ Append(s, c)[Len(s) + 1] = c
      /\ \A i \in 1 .. Len(s) : Append(s, c)[i] = s[i]
  BY AppendFacts, LenProperties
<1>2. Len(s) >= p
  BY DEF Ends
<1>3. PICK u : u = Append(s, c)
  OBVIOUS
<1>4. ASSUME NEW i \in 1 .. p + 1
      PROVE  u[Len(s) + 1 - (p + 1) + i].load = k /\ u[Len(s) + 1 - (p + 1) + i].part = i
  <2>1. PICK d \in Int : d = Len(s) - p + i
    BY <1>1
  <2>2. Len(s) + 1 - (p + 1) + i = d
    BY <1>1, <2>1
  <2>3. CASE i = p + 1
    <3>1. d = Len(s) + 1
      BY <1>1, <2>1, <2>3
    <3> QED BY <1>1, <1>3, <2>2, <2>3, <3>1
  <2>4. CASE i # p + 1
    <3>1. i \in 1 .. p /\ d \in 1 .. Len(s)
      BY <1>1, <1>2, <2>1, <2>4
    <3>2. s[d].load = k /\ s[d].part = i
      BY <2>1, <3>1 DEF Ends
    <3> QED BY <1>1, <1>3, <2>2, <3>1, <3>2
  <2> QED BY <2>3, <2>4
<1>5. Len(u) = Len(s) + 1 /\ Len(u) >= p + 1
  BY <1>1, <1>2, <1>3
<1> QED BY <1>3, <1>4, <1>5 DEF Ends

\* A transformer keeps where the chunks come from.
LEMMA EndsTransformed ==
  ASSUME NEW n \in Nodes, NEW s \in Seq(Chunk), NEW k \in Nat, NEW p \in Nat, Ends(s, k, p)
  PROVE  Ends(TransformedBy(n, s), k, p)
<1>1. Len(s) \in Nat /\ DOMAIN s = 1 .. Len(s) /\ \A i \in 1 .. Len(s) : s[i] \in Chunk
  BY LenProperties, ElementOfSeq
<1>2. PICK u : u = TransformedBy(n, s)
  OBVIOUS
<1>3. u = [i \in 1 .. Len(s) |-> [s[i] EXCEPT !.by = @ \cup {n}]]
  BY <1>1, <1>2 DEF TransformedBy
<1>4. u \in Seq(Chunk) /\ DOMAIN u = 1 .. Len(s)
  BY <1>2, <1>3, TransformedFacts
<1>5. Len(u) = Len(s)
  <2>1. Len(u) \in Nat /\ DOMAIN u = 1 .. Len(u)
    BY <1>4, LenProperties
  <2> QED BY <1>1, <1>4, <2>1
<1>6. \A i \in 1 .. Len(s) : u[i].load = s[i].load /\ u[i].part = s[i].part
  <2>1. \A c \in Chunk : /\ [c EXCEPT !.by = @ \cup {n}].load = c.load
                         /\ [c EXCEPT !.by = @ \cup {n}].part = c.part
    BY DEF Chunk
  <2>2. ASSUME NEW i \in 1 .. Len(s) PROVE u[i].load = s[i].load /\ u[i].part = s[i].part
    <3>1. u[i] = [s[i] EXCEPT !.by = @ \cup {n}] /\ s[i] \in Chunk
      BY <1>1, <1>3
    <3> QED BY <2>1, <3>1
  <2> QED BY <2>2
<1>7. ASSUME NEW i \in 1 .. p
      PROVE  u[Len(u) - p + i].load = k /\ u[Len(u) - p + i].part = i
  <2>1. PICK d \in Int : d = Len(s) - p + i
    <3>1. Len(s) \in Nat
      BY <1>1
    <3> QED BY <3>1
  <2>2. d \in 1 .. Len(s)
    BY <1>1, <2>1 DEF Ends
  <2>3. s[d].load = k /\ s[d].part = i
    BY <2>1 DEF Ends
  <2> QED BY <1>5, <1>6, <2>1, <2>2, <2>3
<1>8. Len(u) >= p
  BY <1>5 DEF Ends
<1> QED BY <1>2, <1>7, <1>8 DEF Ends

\* What is done is done after other data and after a transformation.
LEMMA DoneFacts ==
  ASSUME NEW f \in Frame, NEW s \in Seq(Chunk), Done(f, s)
  PROVE  /\ \A g : g.answer = f.answer => Done(g, s)
         /\ \A g, r : r \in Seq(Chunk) /\ g.answer = f.answer => Done(g, r \o s)
         /\ \A g : g.answer = f.answer => Done(g, TransformedBy(f.node, s))
<1>1. f.answer \in Nat /\ Length \in Nat /\ f.node \in Nodes
  BY LoadAssumption DEF Frame
<1>2. ASSUME NEW g, g.answer = f.answer PROVE Done(g, s)
  BY <1>2 DEF Done
<1>3. ASSUME NEW g, NEW r \in Seq(Chunk), g.answer = f.answer PROVE Done(g, r \o s)
  BY <1>1, <1>3, EndsAfter DEF Done
<1>4. ASSUME NEW g, g.answer = f.answer PROVE Done(g, TransformedBy(f.node, s))
  BY <1>1, <1>4, EndsTransformed DEF Done
<1> QED BY <1>2, <1>3, <1>4
-----------------------------------------------------------------------------
\* The last call that has not ended becomes f and writes nothing.
LEMMA BecomesTraced ==
  ASSUME IInv, Linked(stack), NEW t, Trail(t, stack, out), NEW m \in 1 .. Len(stack),
         NEW f \in Frame, NEW j, j = stack[m].data, f.data = j, Says(f),
         NEW next, next = [SubSeq(stack, 1, m) EXCEPT ![m] = f],
         \A own : (f.phase \in Writing => own = Held(f, t[j])) => Promise(f, own, t[j])
  PROVE  Traced(next, out)
<1>1. Shape(stack) /\ out \in Seq(Chunk) /\ <<>> \in Seq(Chunk)
  BY StackHasShape, EmptySeq DEF IInv, Types
<1>2. Writes(stack, out, next, out, m, <<>>) /\ next[m] = f /\ Len(next) = m
  <2>1. m \in m .. Len(stack)
    BY LenProperties DEF IInv, Types
  <2> QED BY <1>1, <2>1, QuietWrites
<1>3. t[j] \o <<>> = t[j]
  <2>1. j \in Nat
    BY DEF Frame
  <2>2. t[j] \in Seq(Chunk)
    BY <2>1 DEF Trail
  <2> QED BY <2>2, ConcatEmptySeq
<1>4. PICK w : w = <<>>
  OBVIOUS
<1>5. \A own : (next[m].phase \in Writing => own = Held(next[m], t[j] \o w)) =>
                 Promise(next[m], own, t[j] \o w)
  BY <1>2, <1>3, <1>4
<1>6. w \in Seq(Chunk) /\ Writes(stack, out, next, out, m, w) /\ Says(next[m])
  BY <1>1, <1>2, <1>4
<1> QED BY <1>1, <1>2, <1>5, <1>6, TraceGoesOn

\* The phases that say nothing of the data.
Silent == {"enter", "attempt", "routing", "calling", "failed", "forwarding", "threw"}

\* What the call on top says.
LEMMA TopSays ==
  ASSUME IInv, Depth > 0, Linked(stack), NEW t, Trail(t, stack, out), Promised(stack, t)
  PROVE  /\ Says(Top)
         /\ Promise(Top, t[Depth], t[Top.data])
         /\ t[Top.data] \in Seq(Chunk) /\ t[Depth] \in Seq(Chunk)
         /\ Top.phase \in Writing => t[Depth] = Held(Top, t[Top.data])
         /\ Depth \in Nat /\ Depth = Len(stack) /\ Depth \in 1 .. Len(stack)
         /\ stack = SubSeq(stack, 1, Depth) /\ FrameOK(Top) /\ Top \in Frame
         /\ Top.data \in Nat
<1>1. /\ Depth \in 1 .. Len(stack) /\ Depth \in Nat /\ Depth = Len(stack)
      /\ stack = SubSeq(stack, 1, Depth) /\ FrameOK(Top) /\ Top \in Frame
      /\ Top.data \in Nat
  BY StackFacts DEF Depth
<1>2. Says(Top) /\ Promise(Top, t[Depth], t[Top.data])
  BY <1>1 DEF Linked, Promised, Top
<1>3. t[Top.data] \in Seq(Chunk) /\ t[Depth] \in Seq(Chunk)
  BY <1>1 DEF Trail
<1>4. Top.phase \in Writing => t[Depth] = Held(Top, t[Top.data])
  BY <1>1 DEF Trail, Top
<1> QED BY <1>1, <1>2, <1>3, <1>4

\* The call on top becomes f.
LEMMA TopBecomesTraced ==
  ASSUME IInv, Depth > 0, Linked(stack), NEW t, Trail(t, stack, out),
         NEW f \in Frame, f.data = Top.data, Says(f),
         NEW next, next = [stack EXCEPT ![Depth] = f],
         \A own : (f.phase \in Writing => own = Held(f, t[f.data])) =>
                    Promise(f, own, t[f.data])
  PROVE  Traced(next, out)
<1>1. Depth \in 1 .. Len(stack) /\ stack = SubSeq(stack, 1, Depth)
  BY StackFacts
<1>2. PICK m : m = Depth
  OBVIOUS
<1>3. PICK calls : calls = SubSeq(stack, 1, m)
  OBVIOUS
<1>4. /\ m \in 1 .. Len(stack) /\ f.data = stack[m].data
      /\ next = [calls EXCEPT ![m] = f]
  BY <1>1, <1>2, <1>3 DEF Top
<1>5. next = [SubSeq(stack, 1, m) EXCEPT ![m] = f]
  BY <1>3, <1>4
<1> QED BY <1>4, <1>5, BecomesTraced

\* The steps in which only a phase changes.
LEMMA MovesTraced ==
  ASSUME IInv, Linked(stack), NEW t, Trail(t, stack, out), Promised(stack, t),
         \/ Ignore \/ Prepare \/ PrepareFails \/ NoAttempt \/ TransformFails \/ TeeFails
         \/ Throw \/ HandleResultThrows
  PROVE  Traced(stack', out')
<1>1. PICK phase :
        /\ MoveTo(phase) /\ Depth > 0 /\ out' = out
        /\ \/ phase = "true" /\ Top.phase = "enter" /\ Top.node \in config.ignored
           \/ phase = "attempt" /\ Top.phase = "enter"
           \/ phase = "loaded" /\ Top.phase = "attempt" /\ Attempts(Top.node) = 0
           \/ phase \in {"failed", "threw"}
  BY DEF Ignore, Prepare, PrepareFails, NoAttempt, TransformFails, TeeFails, Throw,
     HandleResultThrows, TeesNow, At
<1>2. Top \in Frame /\ Says(Top) /\ Top.node \in Nodes
  BY <1>1, TopSays DEF Frame
<1>3. PICK f : f = [Top EXCEPT !.phase = phase]
  OBVIOUS
<1>4. /\ f \in Frame /\ f.phase = phase /\ f.node = Top.node /\ f.data = Top.data
      /\ f.answer = Top.answer
  <2>1. phase \in Phases
    BY <1>1 DEF Phases
  <2> QED BY <1>2, <1>3, <2>1 DEF Frame
<1>5. Says(f)
  BY <1>1, <1>2, <1>4 DEF Says
<1>6. ASSUME NEW own PROVE Promise(f, own, t[f.data])
  <2>1. phase \in {"true", "loaded"} => f.answer = 0 /\ Excused
    BY <1>1, <1>2, <1>4 DEF Says, Excused
  <2>2. phase \in {"true", "loaded"} => \A s : Done(f, s)
    BY <2>1 DEF Done
  <2>3. phase \notin {"impl", "transformed", "teed", "false"}
    BY <1>1
  <2> QED BY <1>4, <2>2, <2>3 DEF Promise
<1>7. stack' = [stack EXCEPT ![Depth] = f]
  BY <1>1, <1>3 DEF MoveTo, Become
<1> QED BY <1>1, <1>4, <1>5, <1>6, <1>7, TopBecomesTraced

\* An attempt begins, with nothing written.
LEMMA AttemptTraced ==
  ASSUME IInv, Linked(stack), NEW t, Trail(t, stack, out), Promised(stack, t), Attempt
  PROVE  Traced(stack', out')
<1>1. /\ Depth > 0 /\ Top.phase = "attempt" /\ out' = out /\ Top \in Frame /\ loads \in Nat
      /\ Says(Top) /\ t[Top.data] \in Seq(Chunk) /\ Length \in Nat
  <2>1. Depth > 0 /\ Top.phase = "attempt" /\ out' = out /\ loads \in Nat
    BY DEF Attempt, At, IInv, Types
  <2> QED BY <2>1, TopSays, LoadAssumption
<1>2. PICK k \in Nat : k = loads + 1 /\ k > 0
  BY <1>1
<1>3. PICK f : /\ f = IF Top.node \in config.routers THEN [Top EXCEPT !.phase = "routing"]
                      ELSE [Top EXCEPT !.phase = "impl", !.load = k, !.part = 0]
               /\ stack' = [stack EXCEPT ![Depth] = f]
  BY <1>2 DEF Attempt, MoveTo, Become
<1>4. /\ f \in Frame /\ f.data = Top.data /\ f.node = Top.node /\ f.answer = Top.answer
      /\ \/ f.phase = "routing" /\ f.node \in config.routers
         \/ f.phase = "impl" /\ f.load = k /\ f.part = 0
  <2>1. "routing" \in Phases /\ "impl" \in Phases /\ 0 \in Nat
    BY DEF Phases
  <2>2. CASE Top.node \in config.routers
    BY <1>1, <1>3, <2>1, <2>2 DEF Frame
  <2>3. CASE Top.node \notin config.routers
    <3>1. f = [Top EXCEPT !.phase = "impl", !.load = k, !.part = 0]
      BY <1>3, <2>3
    <3> QED BY <1>1, <1>2, <2>1, <3>1 DEF Frame
  <2> QED BY <2>2, <2>3
<1>5. Says(f)
  BY <1>1, <1>2, <1>4 DEF Says
<1>6. ASSUME NEW own, f.phase \in Writing => own = Held(f, t[f.data])
      PROVE  Promise(f, own, t[f.data])
  <2>1. CASE f.phase = "impl"
    <3>1. own = Held(f, t[f.data])
      BY <1>6, <2>1 DEF Writing
    <3>2. PICK given \in Seq(Chunk) : given = t[f.data]
      BY <1>1, <1>4
    <3>3. own \in Seq(Chunk)
      BY <1>4, <3>1, <3>2, HeldFacts
    <3>4. Len(own) \in Nat
      BY <3>3, LenProperties
    <3>5. Ends(own, k, 0)
      BY <3>4 DEF Ends
    <3> QED BY <1>4, <2>1, <3>5 DEF Promise
  <2>2. CASE f.phase = "routing"
    BY <2>2 DEF Promise
  <2> QED BY <1>4, <2>1, <2>2
<1> QED BY <1>1, <1>3, <1>4, <1>5, <1>6, TopBecomesTraced

\* A leaf writes its next part.
LEMMA LeafWritesTraced ==
  ASSUME IInv, Linked(stack), NEW t, Trail(t, stack, out), Promised(stack, t), LeafWrites
  PROVE  Traced(stack', out')
<1>1. Depth > 0 /\ Top.phase = "impl" /\ Top.part < Length /\ out' = out
  BY DEF LeafWrites, At
<1>2. /\ Top \in Frame /\ Says(Top) /\ Length \in Nat
      /\ Promise(Top, t[Depth], t[Top.data]) /\ t[Depth] = Held(Top, t[Top.data])
      /\ t[Top.data] \in Seq(Chunk) /\ t[Depth] \in Seq(Chunk)
  BY <1>1, TopSays, LoadAssumption DEF Writing
<1>3. /\ Top.load \in Nat /\ Top.part \in Nat /\ Top.kept \in Seq(Chunk) /\ Top.got \in Nat
      /\ Top.temp.data \in Seq(Chunk)
  BY <1>2 DEF Frame, Stream
<1>4. PICK chunk : chunk = [load |-> Top.load, part |-> Top.part + 1, by |-> {}]
  OBVIOUS
<1>5. chunk \in Chunk /\ chunk.load = Top.load /\ chunk.part = Top.part + 1
  BY <1>3, <1>4 DEF Chunk
<1>6. PICK kept \in Seq(Chunk) : kept = Append(Top.kept, chunk)
  BY <1>3, <1>5, AppendFacts
<1>7. PICK part \in Nat, got \in Nat : part = Top.part + 1 /\ got = Top.got + 1
  BY <1>3
<1>8. PICK f : f = [Top EXCEPT !.part = part, !.kept = kept, !.got = got]
  OBVIOUS
<1>9. stack' = [stack EXCEPT ![Depth] = f]
  BY <1>4, <1>6, <1>7, <1>8 DEF LeafWrites, Become
<1>10. /\ f \in Frame /\ f.phase = "impl" /\ f.node = Top.node /\ f.data = Top.data
       /\ f.answer = Top.answer /\ f.load = Top.load /\ f.part = part /\ f.temp = Top.temp
       /\ f.kept = kept
  BY <1>1, <1>2, <1>8 DEF Frame
<1>11. Says(f)
  BY <1>1, <1>2, <1>3, <1>7, <1>10 DEF Says
<1>12. Held(f, t[f.data]) = Append(t[Depth], chunk)
  <2>1. PICK base : base = IF Buffers(Top.node) THEN Top.temp.data ELSE t[Top.data]
    OBVIOUS
  <2>2. base \in Seq(Chunk)
    BY <1>2, <1>3, <2>1
  <2>3. Held(f, t[f.data]) = base \o kept /\ t[Depth] = base \o Top.kept
    BY <1>2, <1>10, <2>1 DEF Held
  <2>4. PICK old \in Seq(Chunk) : old = Top.kept
    BY <1>3
  <2>5. PICK new : new = <<chunk>>
    OBVIOUS
  <2>6. new \in Seq(Chunk)
    BY <1>5, <2>5
  <2>7. kept = old \o new
    BY <1>5, <1>6, <2>4, <2>5, AppendIsConcat
  <2>8. (base \o old) \o new = base \o (old \o new)
    BY <2>2, <2>6, ConcatAssociative
  <2>9. Append(t[Depth], chunk) = t[Depth] \o new
    BY <1>2, <1>5, <2>5, AppendIsConcat
  <2> QED BY <2>3, <2>4, <2>7, <2>8, <2>9
<1>13. ASSUME NEW own, f.phase \in Writing => own = Held(f, t[f.data])
       PROVE  Promise(f, own, t[f.data])
  <2>1. own = Append(t[Depth], chunk)
    BY <1>10, <1>12, <1>13 DEF Writing
  <2>2. Ends(t[Depth], Top.load, Top.part)
    BY <1>1, <1>2 DEF Promise
  <2>3. Ends(own, Top.load, part)
    BY <1>2, <1>3, <1>5, <1>7, <2>1, <2>2, EndsWithOneMore
  <2> QED BY <1>10, <2>3 DEF Promise
<1> QED BY <1>1, <1>9, <1>10, <1>11, <1>13, TopBecomesTraced

\* The data is transformed.
LEMMA TransformTraced ==
  ASSUME IInv, Linked(stack), NEW t, Trail(t, stack, out), Promised(stack, t), Transform
  PROVE  Traced(stack', out')
<1>1. Depth > 0 /\ Top.phase = "loaded" /\ Top.node \in config.transforms /\ out' = out
  BY DEF Transform, At, Transforms
<1>2. /\ Top \in Frame /\ Says(Top) /\ FrameOK(Top) /\ Promise(Top, t[Depth], t[Top.data])
  BY <1>1, TopSays
<1>3. /\ Top.temp \in Stream /\ Top.transformed \in Stream /\ Top.node \in Nodes
      /\ Top.temp.pos = 0 /\ Top.temp.data \in Seq(Chunk)
  BY <1>1, <1>2 DEF Frame, FrameOK, TeeOK, Stream
<1>4. PICK data : data = TransformedBy(Top.node, Unread(Top.temp))
  OBVIOUS
<1>5. data \in Seq(Chunk) /\ data = TransformedBy(Top.node, Top.temp.data)
  BY <1>3, <1>4, UnreadFacts, TransformedFacts
<1>6. PICK temp : temp = ReadUp(Top.temp)
  OBVIOUS
<1>7. PICK u : u = [Top.transformed EXCEPT !.data = data]
  OBVIOUS
<1>8. temp \in Stream /\ u \in Stream /\ u.data = data
  BY <1>3, <1>5, <1>6, <1>7, UnreadFacts DEF Stream
<1>9. PICK f : f = [Top EXCEPT !.phase = "transformed", !.temp = temp, !.transformed = u]
  OBVIOUS
<1>10. stack' = [stack EXCEPT ![Depth] = f]
  BY <1>4, <1>6, <1>7, <1>9 DEF Transform, Become
<1>11. /\ f \in Frame /\ f.phase = "transformed" /\ f.data = Top.data
       /\ f.answer = Top.answer /\ f.transformed = u
  BY <1>2, <1>8, <1>9 DEF Frame, Phases
<1>12. Done(Top, Top.temp.data)
  BY <1>1, <1>2 DEF Promise, Buffers
<1>13. Done(f, f.transformed.data)
  BY <1>2, <1>3, <1>5, <1>8, <1>11, <1>12, DoneFacts
<1>14. Says(f) /\ \A own : Promise(f, own, t[f.data])
  BY <1>11, <1>13 DEF Says, Promise
<1> QED BY <1>1, <1>10, <1>11, <1>14, TopBecomesTraced

\* The tee reads and takes nothing away.
LEMMA TeeTraced ==
  ASSUME IInv, Linked(stack), NEW t, Trail(t, stack, out), Promised(stack, t), Tee
  PROVE  Traced(stack', out')
<1>1. /\ Depth > 0 /\ Top.node \in config.tees /\ out' = out
      /\ Top.phase = IF Transforms(Top.node) THEN "transformed" ELSE "loaded"
  BY DEF Tee, TeesNow, At
<1>2. /\ Top \in Frame /\ Promise(Top, t[Depth], t[Top.data])
  BY <1>1, TopSays
<1>3. Top.temp \in Stream /\ Top.transformed \in Stream
  BY <1>2 DEF Frame
<1>4. PICK teed, temp, transformed :
        /\ teed = Unread(TeeStream(Top))
        /\ temp = Rewound(Top.temp) /\ transformed = Rewound(Top.transformed)
  OBVIOUS
<1>5. /\ temp \in Stream /\ temp.data = Top.temp.data
      /\ transformed \in Stream /\ transformed.data = Top.transformed.data
      /\ teed \in Seq(Chunk)
  BY <1>3, <1>4, UnreadFacts DEF TeeStream
<1>6. PICK f : f = [Top EXCEPT !.phase = "teed", !.teed = teed, !.temp = temp,
                               !.transformed = transformed]
  OBVIOUS
<1>7. stack' = [stack EXCEPT ![Depth] = f]
  BY <1>4, <1>6 DEF Tee, AfterTee, Become
<1>8. /\ f \in Frame /\ f.phase = "teed" /\ f.node = Top.node /\ f.data = Top.data
      /\ f.answer = Top.answer /\ f.temp = temp /\ f.transformed = transformed
  BY <1>2, <1>5, <1>6 DEF Frame, Phases
<1>9. Done(f, IF Transforms(f.node) THEN f.transformed.data ELSE f.temp.data)
  BY <1>1, <1>2, <1>5, <1>8 DEF Promise, Buffers, Done
<1>10. Says(f) /\ \A own : Promise(f, own, t[f.data])
  BY <1>8, <1>9 DEF Says, Promise
<1> QED BY <1>1, <1>7, <1>8, <1>10, TopBecomesTraced

\* The data is copied to the caller's stream, or is there.
LEMMA PushTraced ==
  ASSUME IInv, Linked(stack), NEW t, Trail(t, stack, out), Promised(stack, t), Push
  PROVE  Traced(stack', out')
<1>1. /\ Depth > 0
      /\ \/ Top.phase = "teed"
         \/ Top.phase = "transformed"
         \/ Top.phase = "loaded" /\ ~Transforms(Top.node)
  BY DEF Push, ReadyToPush, At
<1>2. /\ Top \in Frame /\ FrameOK(Top) /\ Promise(Top, t[Depth], t[Top.data])
      /\ t[Top.data] \in Seq(Chunk) /\ Depth \in 1 .. Len(stack) /\ Depth = Len(stack)
      /\ stack = SubSeq(stack, 1, Depth) /\ Depth \in Nat
  BY <1>1, TopSays
<1>3. /\ Top.temp \in Stream /\ Top.transformed \in Stream
      /\ Top.temp.data \in Seq(Chunk) /\ Top.transformed.data \in Seq(Chunk)
      /\ Top.transformed.pos = 0
      /\ ~Transforms(Top.node) => Top.temp.pos = 0
      /\ Top.phase = "transformed" => Transforms(Top.node)
      /\ Top.phase = "teed" => Buffers(Top.node)
  BY <1>1, <1>2 DEF Frame, FrameOK, TeeOK, Stream, Transforms, Buffers
<1>4. PICK s : s = Pushed(Top)
  OBVIOUS
<1>5. s = IF ~Buffers(Top.node) THEN <<>>
          ELSE IF Transforms(Top.node) THEN Top.transformed.data ELSE Top.temp.data
  BY <1>3, <1>4, UnreadFacts DEF Pushed
<1>6. s \in Seq(Chunk)
  BY <1>3, <1>5, EmptySeq
<1>7. PICK f : f = [Top EXCEPT !.phase = "true", !.pushed = s]
  OBVIOUS
<1>8. /\ f \in Frame /\ f.phase = "true" /\ f.data = Top.data /\ f.answer = Top.answer
  BY <1>2, <1>6, <1>7 DEF Frame, Phases
<1>9. Done(f, t[Top.data] \o s)
  <2>1. CASE Buffers(Top.node)
    <3>1. Done(Top, s)
      BY <1>1, <1>2, <1>3, <1>5, <2>1 DEF Promise
    <3> QED BY <1>2, <1>6, <1>8, <3>1, DoneFacts
  <2>2. CASE ~Buffers(Top.node)
    <3>1. Done(Top, t[Top.data])
      <4>1. Top.phase = "loaded"
        BY <1>1, <1>3, <2>2 DEF Buffers, Transforms
      <4> QED BY <1>2, <2>2, <4>1 DEF Promise
    <3>2. t[Top.data] \o s = t[Top.data]
      BY <1>2, <1>5, <2>2, ConcatEmptySeq
    <3> QED BY <1>2, <1>8, <3>1, <3>2, DoneFacts
  <2> QED BY <2>1, <2>2
<1>10. PICK m, n : m = Depth /\ n = Depth
  OBVIOUS
<1>11. PICK next, p : next = stack' /\ p = out'
  OBVIOUS
<1>12. PICK b : b = SubSeq(stack, 1, n)
  OBVIOUS
<1>13. /\ next = Written([b EXCEPT ![m] = f], f.data, s)
       /\ p = IF f.data = 0 THEN out \o s ELSE out
       /\ b = stack
  BY <1>2, <1>4, <1>7, <1>8, <1>10, <1>11, <1>12 DEF Push
<1>14. /\ m \in 1 .. Len(stack) /\ n \in m .. Len(stack) /\ f.data = stack[m].data
       /\ Shape(stack) /\ out \in Seq(Chunk)
       /\ Direct(stack, out, next, p, m, n, f, s)
  BY <1>2, <1>8, <1>10, <1>12, <1>13, StackHasShape DEF Top, IInv, Types, Direct
<1>15. Writes(stack, out, next, p, m, s) /\ next[m] = f /\ Len(next) = m
  BY <1>6, <1>8, <1>10, <1>14, DirectWrites
<1>16. Says(next[m])
  BY <1>8, <1>15 DEF Says
<1>17. \A own : Promise(next[m], own, t[f.data] \o s)
  BY <1>8, <1>9, <1>15 DEF Promise
<1>18. Traced(next, p)
  BY <1>6, <1>14, <1>15, <1>16, <1>17, TraceGoesOn
<1> QED BY <1>11, <1>18
-----------------------------------------------------------------------------
\* The innermost call that has not ended passes on all that its output keeps.
LEMMA FlushTraced ==
  ASSUME IInv, Linked(stack), NEW t, Trail(t, stack, out), NEW m \in 1 .. Len(stack),
         NEW calls, calls = SubSeq(stack, 1, m), NEW f, f = stack[m],
         NEW h \in Frame, h.node = f.node, h.data = f.data, h.temp = f.temp, h.kept = f.kept,
         h.phase \in {"loaded", "failed"}, FlushAs(calls, h),
         h.phase = "loaded" =>
           \/ f.phase \in Writing /\ Done(h, t[m])
           \/ h.answer = 0 /\ Excused
  PROVE  Traced(stack', out')
<1>1. /\ Len(stack) \in Nat /\ m \in Nat /\ stack \in Seq(Frame) /\ out \in Seq(Chunk)
      /\ Len(calls) = m /\ Shape(stack) /\ m \in m .. Len(stack) /\ f \in Frame
  <2>1. Len(stack) \in Nat /\ stack \in Seq(Frame) /\ out \in Seq(Chunk)
    BY LenProperties DEF IInv, Types
  <2>2. m \in Nat /\ m <= Len(stack) /\ m \in m .. Len(stack)
    BY <2>1
  <2>3. Len(calls) = m
    BY <2>1, <2>2, PrefixFacts
  <2> QED BY <2>1, <2>2, <2>3, StackHasShape, ElementOfSeq
<1>2. PICK s \in Seq(Chunk) : s = h.kept
  BY DEF Frame
<1>3. PICK g : g = [h EXCEPT !.kept = <<>>]
  OBVIOUS
<1>4. /\ g \in Frame /\ g.phase = h.phase /\ g.node = f.node /\ g.data = f.data
      /\ g.temp = f.temp /\ g.answer = h.answer
  BY <1>3, EmptySeq DEF Frame
<1>5. PICK next, p : next = stack' /\ p = out'
  OBVIOUS
<1>6. PassOn(calls, m, g, s)
  BY <1>1, <1>2, <1>3 DEF FlushAs
<1>7. PICK w : w = IF Buffers(g.node) THEN <<>> ELSE s
  OBVIOUS
<1>8. PICK j : j = stack[m].data
  OBVIOUS
<1>9. PassesOn(stack, out, next, p, m, m, g, s, w)
  BY <1>5, <1>6, <1>7 DEF PassOn, PassesOn
<1>10. /\ Writes(stack, out, next, p, m, w)
       /\ next[m] = Receiver(g, s) /\ Len(next) = m /\ w \in Seq(Chunk)
  BY <1>1, <1>4, <1>9, PassWrites
<1>11. PICK r : r = Receiver(g, s)
  OBVIOUS
<1>12. /\ r.phase = h.phase /\ r.node = f.node /\ r.answer = h.answer
       /\ r.temp.data = IF Buffers(f.node) THEN f.temp.data \o s ELSE f.temp.data
  BY <1>4, <1>11 DEF Receiver, ToTemp, Frame, Stream
<1>13. t[j] \in Seq(Chunk)
  <2>1. j \in Nat
    BY <1>1, <1>8 DEF Frame
  <2> QED BY <2>1 DEF Trail
<1>14. f.phase \in Writing =>
         t[m] = IF Buffers(f.node) THEN r.temp.data ELSE t[j] \o w
  <2>1. SUFFICES ASSUME f.phase \in Writing
                 PROVE  t[m] = IF Buffers(f.node) THEN r.temp.data ELSE t[j] \o w
    OBVIOUS
  <2>2. t[m] = Held(f, t[j])
    BY <1>8, <2>1 DEF Trail
  <2> QED BY <1>2, <1>4, <1>7, <1>12, <2>2 DEF Held
<1>15. ASSUME h.phase = "loaded"
       PROVE  Done(r, IF Buffers(r.node) THEN r.temp.data ELSE t[j] \o w)
  <2>1. CASE h.answer = 0 /\ Excused
    BY <1>12, <2>1 DEF Done
  <2>2. CASE f.phase \in Writing /\ Done(h, t[m])
    BY <1>12, <1>14, <2>2 DEF Done
  <2> QED BY <1>15, <2>1, <2>2
<1>16. Says(r) /\ \A own : Promise(r, own, t[j] \o w)
  BY <1>12, <1>15 DEF Says, Promise
<1>17. Traced(next, p)
  BY <1>1, <1>8, <1>10, <1>11, <1>16, TraceGoesOn
<1> QED BY <1>5, <1>17

\* LoadImpl throws: what was written goes, or goes on to a stream that promises
\* nothing.
LEMMA AttemptFailsTraced ==
  ASSUME IInv, Linked(stack), NEW t, Trail(t, stack, out), NEW m \in 1 .. Len(stack),
         NEW calls, calls = SubSeq(stack, 1, m), NEW f, f = stack[m],
         f.phase \in {"impl", "routing", "calling"}, AttemptFails(calls, f)
  PROVE  Traced(stack', out')
<1>1. /\ Len(calls) = m /\ f \in Frame /\ Says(f)
  <2>1. Len(stack) \in Nat /\ stack \in Seq(Frame)
    BY LenProperties DEF IInv, Types
  <2>2. m \in Nat /\ m <= Len(stack)
    BY <2>1
  <2> QED BY <2>1, <2>2, PrefixFacts, ElementOfSeq DEF Linked
<1>2. CASE Exhausted(f)
  <2>1. PICK h : h = [f EXCEPT !.phase = "failed"]
    OBVIOUS
  <2>2. /\ h \in Frame /\ h.phase = "failed" /\ h.node = f.node /\ h.data = f.data
        /\ h.temp = f.temp /\ h.kept = f.kept
    BY <1>1, <2>1 DEF Frame, Phases
  <2>3. FlushAs(calls, h)
    BY <1>2, <2>1 DEF AttemptFails
  <2> QED BY <2>2, <2>3, FlushTraced
<1>3. CASE ~Exhausted(f)
  <2>1. f.attempt \in Nat \ {0} /\ f.attempt + 1 \in Nat \ {0}
    BY <1>1 DEF Frame
  <2>2. PICK more \in Nat \ {0} : more = f.attempt + 1
    BY <2>1
  <2>3. PICK g : g = [f EXCEPT !.phase = "attempt", !.attempt = more, !.temp = Empty]
    OBVIOUS
  <2>4. /\ stack' = [calls EXCEPT ![m] = g] /\ out' = out
    BY <1>1, <1>3, <2>2, <2>3 DEF AttemptFails
  <2>5. Empty \in Stream
    BY DEF Empty, Stream
  <2>6. g \in Frame /\ g.phase = "attempt" /\ g.data = f.data /\ g.answer = f.answer
    BY <1>1, <2>3, <2>5 DEF Frame, Phases
  <2>7. Says(g) /\ \A own, given : Promise(g, own, given)
    BY <1>1, <2>6 DEF Says, Promise
  <2>8. PICK next : next = stack'
    OBVIOUS
  <2>9. next = [SubSeq(stack, 1, m) EXCEPT ![m] = g]
    BY <2>4, <2>8
  <2>10. Traced(next, out)
    BY <2>6, <2>7, <2>9, BecomesTraced
  <2> QED BY <2>4, <2>8, <2>10
<1> QED BY <1>2, <1>3

\* LoadImpl of the call on top returns or throws.
LEMMA TopLoadsTraced ==
  ASSUME IInv, Linked(stack), NEW t, Trail(t, stack, out), Promised(stack, t),
         LeafReturns \/ HasNoRoute \/ LeafThrows \/ RouterIsDisabled
  PROVE  Traced(stack', out')
<1>1. Depth > 0 /\ Top.phase \in {"impl", "routing"}
  BY DEF LeafReturns, HasNoRoute, LeafThrows, RouterIsDisabled, At
<1>2. /\ Top \in Frame /\ Says(Top) /\ Promise(Top, t[Depth], t[Top.data])
      /\ Depth \in 1 .. Len(stack) /\ Depth = Len(stack) /\ stack = SubSeq(stack, 1, Depth)
  BY <1>1, TopSays
<1>3. PICK m : m = Depth
  OBVIOUS
<1>4. PICK f : f = Top
  OBVIOUS
<1>5. PICK calls : calls = stack
  OBVIOUS
<1>6. /\ m \in 1 .. Len(stack) /\ calls = SubSeq(stack, 1, m) /\ f = stack[m]
      /\ f \in Frame /\ f.answer \in Nat /\ f.load \in Nat
  BY <1>2, <1>3, <1>4, <1>5 DEF Top, Frame
<1>7. "loaded" \in Phases
  BY DEF Phases
<1>8. CASE LeafReturns
  <2>1. f.phase = "impl" /\ f.part = Length
    BY <1>4, <1>8 DEF LeafReturns, At
  <2>2. PICK h : h = [f EXCEPT !.phase = "loaded", !.answer = f.load]
    OBVIOUS
  <2>3. /\ h \in Frame /\ h.phase = "loaded" /\ h.node = f.node /\ h.data = f.data
        /\ h.temp = f.temp /\ h.kept = f.kept /\ h.answer = f.load
    BY <1>6, <1>7, <2>2 DEF Frame
  <2>4. FlushAs(calls, h)
    BY <1>4, <1>5, <1>8, <2>2 DEF LeafReturns
  <2>5. Done(h, t[m])
    <3>1. Ends(t[m], f.load, Length)
      BY <1>2, <1>3, <1>4, <2>1 DEF Promise
    <3>2. f.load > 0
      BY <1>2, <1>4, <2>1 DEF Says
    <3> QED BY <2>3, <3>1, <3>2 DEF Done
  <2>6. f.phase \in Writing
    BY <2>1 DEF Writing
  <2> QED BY <1>6, <2>3, <2>4, <2>5, <2>6, FlushTraced
<1>9. CASE HasNoRoute
  <2>1. f.phase = "routing" /\ config.route[f.node] = NoNode
    BY <1>4, <1>9 DEF HasNoRoute, At
  <2>2. PICK h : h = [f EXCEPT !.phase = "loaded"]
    OBVIOUS
  <2>3. /\ h \in Frame /\ h.phase = "loaded" /\ h.node = f.node /\ h.data = f.data
        /\ h.temp = f.temp /\ h.kept = f.kept /\ h.answer = f.answer
    BY <1>6, <1>7, <2>2 DEF Frame
  <2>4. FlushAs(calls, h)
    BY <1>4, <1>5, <1>9, <2>2 DEF HasNoRoute
  <2>5. h.answer = 0 /\ Excused
    BY <1>2, <1>4, <2>1, <2>3 DEF Says, Excused
  <2> QED BY <1>6, <2>3, <2>4, <2>5, FlushTraced
<1>10. CASE LeafThrows \/ RouterIsDisabled
  <2>1. AttemptFails(calls, f) /\ f.phase \in {"impl", "routing", "calling"}
    BY <1>1, <1>4, <1>5, <1>10 DEF LeafThrows, RouterIsDisabled
  <2> QED BY <1>6, <2>1, AttemptFailsTraced
<1> QED BY <1>8, <1>9, <1>10

\* What a call waits for has ended, and its data is where the caller looks for it.
LEMMA CallersTraced ==
  ASSUME IInv, Linked(stack), NEW t, Trail(t, stack, out), Promised(stack, t),
         RouteReturns \/ RouteThrows \/ ForwardReturns \/ ForwardThrows
  PROVE  Traced(stack', out')
<1>1. Depth > 1
  BY DEF RouteReturns, RouteThrows, ForwardReturns, ForwardThrows, Ended
<1>2. /\ Top \in Frame /\ Promise(Top, t[Depth], t[Top.data])
      /\ Depth \in Nat /\ Depth = Len(stack) /\ Top.data \in Nat
      /\ t[Top.data] \in Seq(Chunk) /\ Top.data < Depth
  <2>1. Depth > 0
    BY <1>1, StackFacts DEF Depth
  <2> QED BY <2>1, TopSays, StackFacts
<1>3. PICK m : m = Depth - 1
  OBVIOUS
<1>4. PICK f : f = Caller
  OBVIOUS
<1>5. PICK calls : calls = Callers
  OBVIOUS
<1>6. PICK a : a = Top.answer
  OBVIOUS
<1>7. /\ m \in 1 .. Len(stack) /\ m \in Nat /\ Depth = m + 1 /\ m \in 1 .. Len(stack) - 1
      /\ calls = SubSeq(stack, 1, m) /\ f = stack[m] /\ f \in Frame /\ a \in Nat
      /\ Says(f)
  <2>1. /\ m \in 1 .. Len(stack) /\ m \in Nat /\ Depth = m + 1 /\ m \in 1 .. Len(stack) - 1
    BY <1>1, <1>2, <1>3
  <2>2. calls = SubSeq(stack, 1, m) /\ f = stack[m] /\ f \in Frame
    BY <1>1, <1>3, <1>4, <1>5, StackFacts DEF Callers, Caller
  <2>3. a \in Nat
    BY <1>2, <1>6 DEF Frame
  <2> QED BY <2>1, <2>2, <2>3 DEF Linked
<1>8. CASE RouteReturns
  <2>1. f.phase = "calling" /\ Top.phase \in {"true", "false"}
    BY <1>4, <1>8 DEF RouteReturns, Ended
  <2>2. Top.data = m
    <3>1. Nested(stack[m], m, stack[Depth])
      BY <1>2, <1>7 DEF IInv, Frames
    <3>2. Top.data >= m
      BY <1>7, <2>1, <3>1 DEF Nested, Top
    <3> QED BY <1>2, <1>7, <3>2
  <2>3. PICK h : h = [f EXCEPT !.phase = "loaded", !.answer = a]
    OBVIOUS
  <2>4. /\ h \in Frame /\ h.phase = "loaded" /\ h.node = f.node /\ h.data = f.data
        /\ h.temp = f.temp /\ h.kept = f.kept /\ h.answer = a
    BY <1>7, <2>3 DEF Frame, Phases
  <2>5. FlushAs(calls, h)
    BY <1>4, <1>5, <1>6, <1>8, <2>3 DEF RouteReturns
  <2>6. Done(h, t[m])
    BY <1>2, <1>6, <2>1, <2>2, <2>4 DEF Promise, Done
  <2>7. f.phase \in Writing
    BY <2>1 DEF Writing
  <2> QED BY <1>7, <2>4, <2>5, <2>6, <2>7, FlushTraced
<1>9. CASE RouteThrows
  <2>1. AttemptFails(calls, f) /\ f.phase \in {"impl", "routing", "calling"}
    BY <1>4, <1>5, <1>9 DEF RouteThrows, Ended
  <2> QED BY <1>7, <2>1, AttemptFailsTraced
<1>10. CASE ForwardReturns \/ ForwardThrows
  <2>1. f.phase = "forwarding"
    BY <1>4, <1>10 DEF ForwardReturns, ForwardThrows, Ended
  <2>2. Top.data = f.data
    BY <1>2, <1>7, <2>1 DEF Linked, Top
  <2>3. PICK g : \/ ForwardReturns /\ g = [f EXCEPT !.phase = "false", !.answer = a]
                 \/ ForwardThrows /\ g = [f EXCEPT !.phase = "threw"]
    BY <1>10
  <2>4. /\ stack' = [calls EXCEPT ![m] = g] /\ out' = out
    BY <1>3, <1>4, <1>5, <1>6, <2>3 DEF ForwardReturns, ForwardThrows, ResumeAs, Callers
  <2>5. /\ g \in Frame /\ g.data = f.data
        /\ \/ g.phase = "false" /\ g.answer = a /\ ForwardReturns
           \/ g.phase = "threw"
    BY <1>7, <2>3 DEF Frame, Phases
  <2>6. Says(g)
    BY <2>5 DEF Says
  <2>7. g.phase = "false" => Done(g, t[f.data])
    <3>1. SUFFICES ASSUME g.phase = "false" PROVE Done(g, t[f.data])
      OBVIOUS
    <3>2. Top.phase \in {"true", "false"} /\ g.answer = Top.answer
      BY <1>6, <2>5, <3>1 DEF ForwardReturns, Ended
    <3> QED BY <1>2, <2>2, <3>2 DEF Promise, Done
  <2>8. \A own : Promise(g, own, t[f.data])
    BY <2>5, <2>7 DEF Promise
  <2>9. PICK next : next = stack'
    OBVIOUS
  <2>10. next = [SubSeq(stack, 1, m) EXCEPT ![m] = g]
    BY <1>7, <2>4, <2>9
  <2>11. Traced(next, out)
    BY <1>7, <2>5, <2>6, <2>8, <2>10, BecomesTraced
  <2> QED BY <2>4, <2>9, <2>11
<1> QED BY <1>8, <1>9, <1>10
-----------------------------------------------------------------------------
\* A new call is linked to the one that makes it.
LEMMA CalledTraced ==
  ASSUME NEW calls \in Seq(Frame), NEW n, n = Len(calls), n > 0,
         \A d \in 1 .. n : calls[d].data \in Nat /\ calls[d].data < d,
         NEW o, Traced(calls, o),
         NEW g \in Frame, g.phase = "enter", g.answer = 0,
         \/ calls[n].phase = "calling" /\ g.data = n
         \/ calls[n].phase = "forwarding" /\ g.data = calls[n].data,
         NEW next, next = Append(calls, g)
  PROVE  Traced(next, o)
<1>1. /\ n \in Nat /\ n \in 1 .. n /\ next \in Seq(Frame) /\ Len(next) = n + 1 /\ next[n + 1] = g
      /\ \A d \in 1 .. n : next[d] = calls[d]
  BY AppendFacts, LenProperties
<1>2. PICK t : Trail(t, calls, o)
  BY DEF Traced
<1>3. Trail(t, next, o)
  <2>1. ASSUME NEW d \in 1 .. n + 1, next[d].phase \in Writing
        PROVE  t[d] = Held(next[d], t[next[d].data])
    <3>1. d # n + 1
      BY <1>1, <2>1 DEF Writing
    <3>2. d \in 1 .. n
      BY <1>1, <3>1
    <3> QED BY <1>1, <1>2, <2>1, <3>2 DEF Trail
  <2> QED BY <1>1, <1>2, <2>1 DEF Trail
<1>4. Promised(next, t)
  BY <1>1 DEF Promised, Promise
<1>5. Linked(calls) /\ Says(g)
  BY DEF Traced, Says
<1>6. ASSUME NEW d \in 1 .. n + 1
      PROVE  Says(next[d]) /\ (next[d].data # 0 => next[next[d].data].phase = "calling")
  <2>1. CASE d = n + 1
    <3>1. CASE g.data = n /\ calls[n].phase = "calling"
      BY <1>1, <1>5, <2>1, <3>1
    <3>2. CASE g.data = calls[n].data
      <4>1. calls[n].data # 0 => calls[n].data \in 1 .. n
        BY <1>1
      <4>2. calls[n].data # 0 => calls[calls[n].data].phase = "calling"
        BY <1>1, <1>5 DEF Linked
      <4> QED BY <1>1, <1>5, <2>1, <3>2, <4>1, <4>2
    <3> QED BY <3>1, <3>2
  <2>2. CASE d # n + 1
    <3>1. d \in 1 .. n
      BY <1>1, <2>2
    <3>2. calls[d].data # 0 => calls[d].data \in 1 .. n
      BY <1>1, <3>1
    <3> QED BY <1>1, <1>5, <3>1, <3>2 DEF Linked
  <2> QED BY <2>1, <2>2
<1>7. ASSUME NEW d \in 1 .. n, next[d].phase = "forwarding"
      PROVE  next[d + 1].data = next[d].data
  <2>1. CASE d = n
    BY <1>1, <1>7, <2>1
  <2>2. CASE d # n
    <3>1. d \in 1 .. n - 1 /\ d + 1 \in 1 .. n
      BY <1>1, <2>2
    <3> QED BY <1>1, <1>5, <1>7, <3>1 DEF Linked
  <2> QED BY <2>1, <2>2
<1>8. Linked(next)
  <2>1. Len(next) - 1 = n
    BY <1>1
  <2> QED BY <1>1, <1>6, <1>7, <2>1 DEF Linked
<1> QED BY <1>3, <1>4, <1>8 DEF Traced

\* A router calls its route, or a call that failed the node it forwards to.
LEMMA CallsTraced ==
  ASSUME IInv, Linked(stack), NEW t, Trail(t, stack, out), Promised(stack, t),
         CallRoute \/ Forward
  PROVE  Traced(stack', out')
<1>1. PICK f, n, k :
        /\ CallFrom(f, n, k) /\ n \in Nodes /\ out' = out /\ Depth > 0
        /\ \/ /\ f = [Top EXCEPT !.phase = "calling"] /\ k = Depth
              /\ Top.phase = "routing"
           \/ /\ f = [Top EXCEPT !.phase = "forwarding"] /\ k = Top.data
  <2>1. Depth > 0
    BY DEF CallRoute, Forward, At
  <2>2. Top.node \in Nodes
    BY <2>1, TopSays DEF Frame
  <2>3. config.route[Top.node] \in Nodes \cup {NoNode} /\ config.forward[Top.node] \in Nodes \cup {NoNode}
    BY <2>2, ConfigFacts DEF IInv, Types
  <2> QED BY <2>1, <2>3 DEF CallRoute, Forward, At
<1>2. /\ Top \in Frame /\ Says(Top) /\ Depth \in 1 .. Len(stack) /\ Depth = Len(stack)
      /\ Depth \in Nat /\ Top.data \in Nat
  BY <1>1, TopSays
<1>3. /\ f \in Frame /\ f.data = Top.data /\ f.answer = Top.answer
      /\ \/ f.phase = "calling" /\ k = Depth /\ f.answer = 0
         \/ f.phase = "forwarding" /\ k = Top.data
  BY <1>1, <1>2 DEF Frame, Phases, Says
<1>4. Says(f) /\ \A own : Promise(f, own, t[f.data])
  BY <1>3 DEF Says, Promise
<1>5. PICK calls : calls = [stack EXCEPT ![Depth] = f]
  OBVIOUS
<1>6. Traced(calls, out)
  BY <1>1, <1>3, <1>4, <1>5, TopBecomesTraced
<1>7. /\ calls \in Seq(Frame) /\ Len(calls) = Depth /\ calls[Depth] = f
      /\ \A d \in 1 .. Depth : d # Depth => calls[d] = stack[d]
  <2>1. stack \in Seq(Frame)
    BY DEF IInv, Types
  <2> QED BY <1>2, <1>3, <1>5, <2>1, ExceptSeq
<1>8. ASSUME NEW d \in 1 .. Depth PROVE calls[d].data \in Nat /\ calls[d].data < d
  <2>1. stack[d] \in Frame /\ stack[d].data < d
    BY <1>2 DEF IInv, Frames, FrameOK
  <2>2. calls[d].data = stack[d].data
    BY <1>3, <1>7 DEF Top
  <2> QED BY <2>1, <2>2 DEF Frame
<1>9. PICK g : g = Called(n, k, Got(k))
  OBVIOUS
<1>10. k \in 0 .. Depth
  <2>1. Top.data < Depth
    BY <1>1, StackFacts
  <2> QED BY <1>2, <1>3, <2>1
<1>11. g \in Frame /\ g.phase = "enter" /\ g.data = k /\ g.answer = 0
  <2>1. Got(k) \in Nat /\ k \in Nat
    BY <1>10, GotFacts
  <2>2. g \in Frame
    BY <1>1, <1>9, <2>1, CalledIsOK DEF IInv, Types
  <2> QED BY <1>9, <2>2 DEF Called
<1>12. stack' = Append(calls, g)
  BY <1>1, <1>5, <1>9 DEF CallFrom
<1>13. PICK next : next = stack'
  OBVIOUS
<1>14. next = Append(calls, g) /\ Depth > 0 /\ Depth = Len(calls)
  BY <1>1, <1>7, <1>12, <1>13
<1>15. \/ calls[Depth].phase = "calling" /\ g.data = Depth
       \/ calls[Depth].phase = "forwarding" /\ g.data = calls[Depth].data
  BY <1>3, <1>7, <1>11
<1>16. Traced(next, out)
  BY <1>6, <1>7, <1>8, <1>11, <1>14, <1>15, CalledTraced
<1> QED BY <1>1, <1>13, <1>16

\* What a buffer passes on comes to the same place as what it keeps.
LEMMA DrainTraced ==
  ASSUME IInv, Linked(stack), NEW t, Trail(t, stack, out), Promised(stack, t),
         NEW d \in DOMAIN stack, Drain(d)
  PROVE  Traced(stack', out')
<1>1. /\ Len(stack) \in Nat /\ stack \in Seq(Frame) /\ d \in 1 .. Len(stack) /\ d \in Nat
      /\ stack[d].phase \in Writing /\ stack[d].kept # <<>>
      /\ out \in Seq(Chunk) /\ Shape(stack)
  BY LenProperties, StackHasShape DEF IInv, Types, Drain, Writing
<1>2. PICK n : n = Len(stack)
  OBVIOUS
<1>3. PICK h : h = stack[d]
  OBVIOUS
<1>4. /\ h \in Frame /\ h.kept \in Seq(Chunk) /\ h.kept # <<>> /\ h.temp.data \in Seq(Chunk)
      /\ h.data \in Nat /\ h.data < d /\ Says(h)
  <2>1. h \in Frame
    BY <1>1, <1>3, ElementOfSeq
  <2> QED BY <1>1, <1>3, <2>1 DEF Frame, Stream, Shape, Linked
<1>5. PICK rest \in Seq(Chunk) : rest = Tail(h.kept)
  BY <1>4, TailToSet
<1>6. PICK s : s = <<Head(h.kept)>>
  OBVIOUS
<1>7. /\ s \in Seq(Chunk) /\ s \o rest = h.kept
  <2>1. Head(h.kept) \in Chunk
    BY <1>4, TailToSet
  <2>2. s \in Seq(Chunk)
    BY <1>6, <2>1
  <2>3. h.kept = <<Head(h.kept)>> \o Tail(h.kept)
    BY <1>4
  <2> QED BY <1>5, <1>6, <2>2, <2>3
<1>8. PICK f : f = [h EXCEPT !.kept = rest]
  OBVIOUS
<1>9. /\ f \in Frame /\ f.node = h.node /\ f.phase = h.phase /\ f.data = h.data
      /\ f.temp = h.temp /\ f.kept = rest /\ f.answer = h.answer /\ f.load = h.load
      /\ f.part = h.part
  BY <1>4, <1>8 DEF Frame
<1>10. PICK next, p : next = stack' /\ p = out'
  OBVIOUS
<1>11. PICK w : w = IF Buffers(f.node) THEN <<>> ELSE s
  OBVIOUS
<1>12. PassesOn(stack, out, next, p, d, n, f, s, w)
  <2>1. PassOn(stack, d, f, s)
    BY <1>3, <1>5, <1>6, <1>8 DEF Drain
  <2>2. SubSeq(stack, 1, n) = stack
    BY <1>1, <1>2, SubSeqFull
  <2> QED BY <1>10, <1>11, <2>1, <2>2 DEF PassOn, PassesOn
<1>13. n \in d .. Len(stack) /\ f.data = stack[d].data /\ d <= n
  BY <1>1, <1>2, <1>3, <1>9
<1>14. /\ Writes(stack, out, next, p, d, w) /\ next[d] = Receiver(f, s) /\ Len(next) = n
       /\ w \in Seq(Chunk)
  BY <1>1, <1>7, <1>9, <1>12, <1>13, PassWrites
<1>15. PICK r : r = Receiver(f, s)
  OBVIOUS
<1>16. /\ r.phase = h.phase /\ r.node = h.node /\ r.answer = h.answer /\ r.load = h.load
       /\ r.part = h.part /\ r.kept = rest /\ r.data = h.data
       /\ r.temp.data = IF Buffers(h.node) THEN h.temp.data \o s ELSE h.temp.data
  BY <1>9, <1>15 DEF Receiver, ToTemp, Frame, Stream
<1>17. PICK j : j = stack[d].data
  OBVIOUS
<1>18. j \in Nat /\ j < d /\ t[j] \in Seq(Chunk)
  BY <1>3, <1>4, <1>17 DEF Trail
<1>19. Held(r, t[j] \o w) = t[d]
  <2>1. t[d] = Held(h, t[j])
    BY <1>1, <1>3, <1>17 DEF Trail
  <2>2. CASE Buffers(h.node)
    <3>1. PICK base \in Seq(Chunk) : base = h.temp.data
      BY <1>4
    <3>2. (base \o s) \o rest = base \o (s \o rest)
      <4>1. s \in Seq(Chunk)
        BY <1>7
      <4> QED BY <4>1, ConcatAssociative
    <3> QED BY <1>7, <1>16, <2>1, <2>2, <3>1, <3>2 DEF Held
  <2>3. CASE ~Buffers(h.node)
    <3>1. PICK base \in Seq(Chunk) : base = t[j]
      BY <1>18
    <3>2. (base \o s) \o rest = base \o (s \o rest)
      <4>1. s \in Seq(Chunk)
        BY <1>7
      <4> QED BY <4>1, ConcatAssociative
    <3>3. w = s
      BY <1>9, <1>11, <2>3
    <3> QED BY <1>7, <1>16, <2>1, <2>3, <3>1, <3>2, <3>3 DEF Held
  <2> QED BY <2>2, <2>3
<1>20. n > d => stack[d].phase = "calling"
  <2>1. SUFFICES ASSUME n > d PROVE stack[d].phase = "calling"
    OBVIOUS
  <2>2. Nested(stack[d], d, stack[n])
    BY <1>1, <1>2, <2>1 DEF Shape
  <2> QED BY <1>1, <2>2 DEF Nested, Writing
<1>21. PICK u : Follows(u, t, next, p, d, j, w)
  <2>1. Len(next) > d => stack[d].phase = "calling" /\ Held(next[d], t[j] \o w) = t[d]
    BY <1>14, <1>15, <1>19, <1>20
  <2> QED BY <1>1, <1>14, <1>17, <2>1, TrailGoesOn
<1>22. Linked(next)
  <2>1. Says(next[d])
    BY <1>4, <1>14, <1>15, <1>16 DEF Says
  <2>2. Len(next) > d => next[d].phase = stack[d].phase
    BY <1>3, <1>14, <1>15, <1>16
  <2> QED BY <1>1, <1>14, <2>1, <2>2, LinkedGoesOn
<1>23. Promise(next[n], u[n], u[next[n].data])
  <2>1. PICK i : i = stack[n].data
    OBVIOUS
  <2>2. Promise(stack[n], t[n], t[i]) /\ n \in 1 .. Len(stack) /\ n \in Nat
    BY <1>1, <1>2, <2>1 DEF Promised
  <2>3. CASE n = d
    <3>1. next[n].phase \in Writing /\ next[n] = r
      BY <1>1, <1>3, <1>14, <1>15, <1>16, <2>3
    <3>2. u[n] = t[n]
      BY <1>14, <1>15, <1>19, <1>21, <2>3, <3>1 DEF Follows
    <3>3. r.phase = "impl" => Ends(t[n], r.load, r.part)
      BY <1>3, <1>16, <2>2, <2>3 DEF Promise
    <3> QED BY <3>1, <3>2, <3>3 DEF Promise, Writing
  <2>4. CASE n # d
    <3>1. n > d /\ n # j
      BY <1>1, <1>13, <1>18, <2>2, <2>4
    <3>2. next[n] = stack[n]
      BY <1>14, <1>17, <2>2, <2>4, <3>1 DEF Writes
    <3>3. i \in Nat /\ i >= d
      <4>1. Nested(stack[d], d, stack[n]) /\ stack[n] \in Frame
        BY <1>1, <2>2, <3>1, ElementOfSeq DEF Shape
      <4> QED BY <1>20, <2>1, <3>1, <4>1 DEF Nested, Frame
    <3>4. u[i] = t[i] /\ u[n] = t[n]
      <4>1. /\ \A k \in Nat : k > d => u[k] = t[k]
            /\ u[d] = t[d]
        BY <1>14, <1>21, <3>1 DEF Follows
      <4>2. i = d \/ i > d
        BY <1>1, <3>3
      <4> QED BY <2>2, <3>1, <3>3, <4>1, <4>2
    <3> QED BY <2>1, <2>2, <3>2, <3>4
  <2> QED BY <2>3, <2>4
<1>24. Promised(next, u) /\ Trail(u, next, p)
  BY <1>14, <1>21, <1>23 DEF Promised, Follows
<1>25. Traced(next, p)
  BY <1>22, <1>24 DEF Traced
<1> QED BY <1>10, <1>25
-----------------------------------------------------------------------------
\* The answer is to come while there are calls, and is right.
Answers ==
  /\ Traced(stack, out)
  /\ Len(stack) > 0 => result = "none"
  /\ ReturnsWholeResult

\* A trail is the same for the same configuration.
LEMMA TracedNext ==
  ASSUME config' = config, NEW calls, NEW o, Traced(calls, o)
  PROVE  Traced(calls, o)'
<1>1. PICK t : Trail(t, calls, o) /\ Promised(calls, t)
  BY DEF Traced
<1>2. Trail(t, calls, o)'
  BY <1>1 DEF Trail, Held, Buffers
<1>3. Promised(calls, t)'
  BY <1>1 DEF Promised, Promise, Done, Excused, Attempts, Buffers, Transforms
<1>4. Linked(calls)'
  BY DEF Traced, Linked, Says
<1> QED BY <1>2, <1>3, <1>4 DEF Traced

\* Every step but those of the client.
LEMMA WorkTraced ==
  ASSUME IInv, Answers, Next, ~Request, ~RequestEnds
  PROVE  Answers'
<1>1. PICK t : Linked(stack) /\ Trail(t, stack, out) /\ Promised(stack, t)
  BY DEF Answers, Traced
<1>2. config' = config /\ result' = result
  BY DEF Next, Ignore, Prepare, PrepareFails, NoAttempt, Attempt, LeafWrites, LeafReturns,
     LeafThrows, Drain, RouterIsDisabled, HasNoRoute, CallRoute, RouteReturns, RouteThrows,
     Transform, TransformFails, Tee, TeeFails, Push, Throw, Forward, ForwardReturns,
     ForwardThrows, HandleResultThrows
<1>3. Len(stack) > 0
  <2>1. Depth > 0 \/ Depth > 1 \/ \E d \in DOMAIN stack : TRUE
    BY DEF Next, Ignore, Prepare, PrepareFails, NoAttempt, Attempt, LeafWrites, LeafReturns,
       LeafThrows, RouterIsDisabled, HasNoRoute, CallRoute, RouteReturns, RouteThrows,
       Transform, TransformFails, Tee, TeesNow, TeeFails, Push, ReadyToPush, Throw, Forward,
       ForwardReturns, ForwardThrows, HandleResultThrows, At, Ended
  <2>2. Len(stack) \in Nat /\ DOMAIN stack = 1 .. Len(stack)
    BY LenProperties DEF IInv, Types
  <2> QED BY <2>1, <2>2 DEF Depth
<1>4. Traced(stack', out')
  <2>1. CASE \/ Ignore \/ Prepare \/ PrepareFails \/ NoAttempt \/ TransformFails \/ TeeFails
             \/ Throw \/ HandleResultThrows
    BY <1>1, <2>1, MovesTraced
  <2>2. CASE Attempt
    BY <1>1, <2>2, AttemptTraced
  <2>3. CASE LeafWrites
    BY <1>1, <2>3, LeafWritesTraced
  <2>4. CASE LeafReturns \/ HasNoRoute \/ LeafThrows \/ RouterIsDisabled
    BY <1>1, <2>4, TopLoadsTraced
  <2>5. CASE RouteReturns \/ RouteThrows \/ ForwardReturns \/ ForwardThrows
    BY <1>1, <2>5, CallersTraced
  <2>6. CASE CallRoute \/ Forward
    BY <1>1, <2>6, CallsTraced
  <2>7. CASE \E d \in DOMAIN stack : Drain(d)
    BY <1>1, <2>7, DrainTraced
  <2>8. CASE Transform
    BY <1>1, <2>8, TransformTraced
  <2>9. CASE Tee
    BY <1>1, <2>9, TeeTraced
  <2>10. CASE Push
    BY <1>1, <2>10, PushTraced
  <2> QED BY <2>1, <2>2, <2>3, <2>4, <2>5, <2>6, <2>7, <2>8, <2>9, <2>10 DEF Next
<1>5. Traced(stack, out)'
  <2>1. PICK next, p : next = stack' /\ p = out'
    OBVIOUS
  <2>2. Traced(next, p)'
    BY <1>2, <1>4, <2>1, TracedNext
  <2> QED BY <2>1, <2>2
<1>6. result' = "none"
  BY <1>2, <1>3 DEF Answers
<1>7. ReturnsWholeResult'
  BY <1>6 DEF ReturnsWholeResult
<1> QED BY <1>5, <1>6, <1>7 DEF Answers

\* The client begins with nothing, and takes what the last call says.
LEMMA RequestsAnswer ==
  ASSUME IInv, Answers, Request \/ RequestEnds
  PROVE  Answers'
<1>1. CASE Request
  <2>1. PICK g : g = Called(config.root, 0, 0)
    OBVIOUS
  <2>2. g.phase = "enter" /\ g.answer = 0 /\ g.data = 0
    BY <2>1 DEF Called
  <2>3. /\ stack' = <<g>> /\ out' = <<>> /\ result' = "none" /\ config' = config
    BY <1>1, <2>1 DEF Request
  <2>4. PICK next, p : next = stack' /\ p = out'
    OBVIOUS
  <2>5. Len(next) = 1 /\ next[1] = g /\ p = <<>> /\ \A d \in 1 .. Len(next) : d = 1
    BY <2>3, <2>4
  <2>6. Says(g) /\ \A own, given : Promise(g, own, given)
    BY <2>2 DEF Says, Promise
  <2>7. Linked(next)
    <3>1. \A d \in 1 .. Len(next) - 1 : FALSE
      BY <2>5
    <3> QED BY <2>2, <2>5, <2>6, <3>1 DEF Linked
  <2>8. PICK t : t = [k \in Nat |-> <<>>]
    OBVIOUS
  <2>9. t \in [Nat -> Seq(Chunk)] /\ t[0] = p
    <3>1. <<>> \in Seq(Chunk)
      BY EmptySeq
    <3> QED BY <2>5, <2>8, <3>1
  <2>10. Trail(t, next, p)
    BY <2>2, <2>5, <2>9 DEF Trail, Writing
  <2>11. Promised(next, t)
    BY <2>5, <2>6 DEF Promised
  <2>12. Traced(next, p)
    BY <2>7, <2>10, <2>11 DEF Traced
  <2>13. Traced(next, p)'
    BY <2>3, <2>12, TracedNext
  <2> QED BY <2>3, <2>4, <2>13 DEF Answers, ReturnsWholeResult
<1>2. CASE RequestEnds
  <2>1. /\ Depth = 1 /\ Depth > 0 /\ result' = Top.phase /\ answer' = Top.answer
        /\ Top.phase \in {"true", "false", "threw"}
        /\ stack' = <<>> /\ out' = out /\ config' = config
    BY <1>2 DEF RequestEnds
  <2>2. PICK t : Linked(stack) /\ Trail(t, stack, out) /\ Promised(stack, t)
    BY DEF Answers, Traced
  <2>3. Promise(Top, t[Depth], t[Top.data]) /\ Top.data = 0 /\ t[0] = out
    <3>1. Top.data \in Nat /\ Top.data < Depth
      BY <2>1, StackFacts
    <3>2. Top.data = 0
      BY <2>1, <3>1
    <3>3. Promise(Top, t[Depth], t[Top.data])
      BY <2>1, <2>2, TopSays
    <3>4. t[0] = out
      BY <2>2 DEF Trail
    <3> QED BY <3>2, <3>3, <3>4
  <2>4. Top.phase \in {"true", "false"} => Done(Top, out)
    BY <2>3 DEF Promise
  <2>5. ReturnsWholeResult'
    BY <2>1, <2>4 DEF ReturnsWholeResult, Done, Ends, EndsWith, Excused, Attempts
  <2>6. PICK next, p : next = stack' /\ p = out'
    OBVIOUS
  <2>7. Len(next) = 0 /\ p = out
    BY <2>1, <2>6
  <2>8. Traced(next, p)
    BY <2>2, <2>7 DEF Traced, Linked, Trail, Promised
  <2>9. Traced(next, p)'
    BY <2>1, <2>8, TracedNext
  <2>10. ~(Len(stack') > 0)
    BY <2>1
  <2> QED BY <2>5, <2>6, <2>9, <2>10 DEF Answers
<1> QED BY <1>1, <1>2

\* Before the first request there is nothing to trace.
LEMMA InitAnswers == Init => Answers
<1>1. SUFFICES ASSUME Init PROVE Answers
  OBVIOUS
<1>2. Len(stack) = 0 /\ out = <<>> /\ result = "none"
  BY <1>1 DEF Init
<1>3. PICK t : t = [k \in Nat |-> <<>>]
  OBVIOUS
<1>4. t \in [Nat -> Seq(Chunk)] /\ t[0] = out
  <2>1. <<>> \in Seq(Chunk)
    BY EmptySeq
  <2> QED BY <1>2, <1>3, <2>1
<1>5. Trail(t, stack, out)
  BY <1>2, <1>4 DEF Trail
<1>6. Promised(stack, t) /\ Linked(stack)
  BY <1>2 DEF Linked, Promised
<1>7. Traced(stack, out)
  BY <1>5, <1>6 DEF Traced
<1> QED BY <1>2, <1>7 DEF Answers, ReturnsWholeResult

\* However many attempts, routes, forwards, tees and transformers a request goes through:
\* the client's stream ends with all the parts of the one LoadImpl that made it succeed
\* (AbstractNode.cpp:219-388, RouterNode.cpp:99-111).
THEOREM ReturnsWholeResultHolds == Spec => []ReturnsWholeResult
<1>1. IInv /\ Answers /\ [Next]_vars => Answers'
  <2>1. SUFFICES ASSUME IInv, Answers, [Next]_vars PROVE Answers'
    OBVIOUS
  <2>2. CASE Next /\ ~Request /\ ~RequestEnds
    BY <2>1, <2>2, WorkTraced
  <2>3. CASE Request \/ RequestEnds
    BY <2>1, <2>3, RequestsAnswer
  <2>4. CASE UNCHANGED vars
    <3>1. stack' = stack /\ out' = out /\ config' = config /\ result' = result /\ answer' = answer
      BY <2>4 DEF vars
    <3>2. Traced(stack, out)'
      <4>1. PICK next, p : next = stack /\ p = out
        OBVIOUS
      <4>2. Traced(next, p)'
        BY <2>1, <3>1, <4>1, TracedNext DEF Answers
      <4> QED BY <3>1, <4>1, <4>2
    <3>3. ReturnsWholeResult'
      BY <2>1, <3>1 DEF Answers, ReturnsWholeResult, EndsWith, Attempts
    <3> QED BY <2>1, <3>1, <3>2, <3>3 DEF Answers
  <2> QED BY <2>1, <2>2, <2>3, <2>4
<1>2. Answers => ReturnsWholeResult
  BY DEF Answers
<1> QED BY <1>1, <1>2, InitAnswers, Invariance, PTL DEF Spec
=============================================================================
