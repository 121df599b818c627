------------------------- MODULE StoreRequestProofs -------------------------
(***************************************************************************)
(* What a request keeps, for every configuration and however deep its      *)
(* calls nest.                                                             *)
(*                                                                         *)
(* The inductive invariant is about one call at a time (FrameOK): what its *)
(* loop over the routes has reached, and that its inputPos is where its    *)
(* stream begins.  A call below another one waits for it (Waits), and owns *)
(* none of the streams that go when the other one ends (Outlives).         *)
(***************************************************************************)
EXTENDS StoreRequest, FiniteSetTheorems, SequencesExt, SequenceTheorems, TLAPS

-----------------------------------------------------------------------------
\* Facts about the stack of calls.

\* What a call leaves as it was.
LEMMA AppendFacts ==
  ASSUME NEW S, NEW s \in Seq(S), NEW e \in S
  PROVE  /\ Append(s, e) \in Seq(S) /\ Len(Append(s, e)) = Len(s) + 1
         /\ Append(s, e)[Len(s) + 1] = e
         /\ \A i \in 1 .. Len(s) : Append(s, e)[i] = s[i]
  OBVIOUS

\* What is left when the calls above the first n have returned.
LEMMA PrefixFacts ==
  ASSUME NEW S, NEW s \in Seq(S), NEW n \in Nat, n <= Len(s)
  PROVE  /\ SubSeq(s, 1, n) \in Seq(S) /\ Len(SubSeq(s, 1, n)) = n
         /\ \A i \in 1 .. n : SubSeq(s, 1, n)[i] = s[i]
<1>1. Len(s) \in Nat /\ \A i \in 1 .. Len(s) : s[i] \in S
  BY ElementOfSeq, LenProperties
<1>2. \A i \in 1 .. n : s[i] \in S
  BY <1>1
<1>3. 1 \in Int /\ n \in Int /\ n - 1 + 1 = n
  OBVIOUS
<1>4. /\ SubSeq(s, 1, n) \in Seq(S)
      /\ Len(SubSeq(s, 1, n)) = IF 1 <= n THEN n - 1 + 1 ELSE 0
      /\ \A i \in 1 .. n - 1 + 1 : SubSeq(s, 1, n)[i] = s[1 + i - 1]
  BY <1>2, <1>3, SubSeqProperties
<1>5. Len(SubSeq(s, 1, n)) = n
  BY <1>3, <1>4
<1>6. ASSUME NEW i \in 1 .. n PROVE SubSeq(s, 1, n)[i] = s[i]
  <2>1. 1 + i - 1 = i /\ i \in 1 .. n - 1 + 1
    BY <1>3
  <2> QED BY <1>4, <2>1
<1> QED BY <1>4, <1>5, <1>6

-----------------------------------------------------------------------------

Results == {"none", "true", "false", "threw"}

Types ==
  /\ config \in Configs
  /\ streams \in Seq(Stream)
  /\ stack \in Seq(Frame)
  /\ result \in Results
  /\ served \subseteq Nodes
  /\ calls \in [Nodes -> Nat]
  /\ stored \in [Nodes -> Nat]

InLoop(f) == f.phase \in {"routing", "calling"}
Seen(f) == 1 .. f.next - 1
RoutesOf(f) == config.routes[f.node]

\* The local variables of a call fit its configuration.
Fits(f) ==
  /\ f \in Frame
  /\ f.own <= Len(streams)
  /\ f.use <= Len(streams)
  /\ f.below <= Len(streams)
  /\ f.attempt <= config.retries[f.node] + 1
  /\ f.next <= Len(RoutesOf(f)) + 1
  /\ f.phase = "calling" => f.next <= Len(RoutesOf(f))
  /\ InLoop(f) => f.node \in config.routers

\* What the loop of a router knows of the routes it has seen.
Reached(f) ==
  InLoop(f) =>
    /\ f.success => \E i \in Seen(f) : RoutesOf(f)[i].node \in served
    /\ ~f.criticalFailed =>
         \A i \in Seen(f) : RoutesOf(f)[i].critical => RoutesOf(f)[i].node \in served

\* Which routes it has called.
Tried(f) ==
  /\ InLoop(f) =>
       \A i \in Seen(f) :
         (RoutesOf(f)[i].critical \/ ~(f.criticalFailed /\ Behaves(f, "finishCriticals")))
           => calls[RoutesOf(f)[i].node] > 0
  /\ f.phase = "calling" => calls[RoutesOf(f)[f.next].node] > 0

\* A call that returns normally has done its work.
Justified(f) == (RetriesFit /\ f.phase \in {"true", "false"}) => Backed(f.node)

Rewinds == IsStore /\ (config.entry = 0 \/ config.forwardsTransformed = {})

\* The positions a call goes back to are the beginnings of its streams.
Sought(f) ==
  Rewinds =>
    /\ f.inputPos = streams[f.own].start
    /\ f.use # f.own => streams[f.use].start = 0
    /\ f.phase = "impl" => streams[f.use].pos = streams[f.use].start

StreamsOK ==
  Rewinds =>
    \A k \in 1 .. Len(streams) :
      /\ streams[k].whole
      /\ config.entry = 0 => streams[k].start = 0

FrameOK(f) == Fits(f) /\ Reached(f) /\ Tried(f) /\ Justified(f) /\ Sought(f)

\* f waits for g, the call it has made.
Waits(f, g) ==
  /\ f.phase \in {"calling", "forwarding"}
  /\ f.phase = "calling" => g.node = RoutesOf(f)[f.next].node
  /\ f.phase = "forwarding" => g.node = config.forward[f.node]

Outlives(f, g) == f.own <= g.below /\ f.use <= g.below /\ f.below <= g.below

Frames ==
  /\ \A d \in 1 .. Len(stack) : FrameOK(stack[d])
  /\ \A d \in 1 .. Len(stack) - 1 : Waits(stack[d], stack[d + 1])
  /\ \A d, e \in 1 .. Len(stack) : d < e => Outlives(stack[d], stack[e])
  /\ Len(stack) > 0 => stack[1].node = config.root

Answered == RetriesFit => ReturnsOnlyWhenBacked

IInv == Types /\ StreamsOK /\ Frames /\ Answered
-----------------------------------------------------------------------------
\* A step that leaves the first n streams where they begin, and forgets nothing
\* of the request's history.
Keeps(n) ==
  /\ config' = config
  /\ streams' \in Seq(Stream)
  /\ n <= Len(streams) /\ n <= Len(streams')
  /\ \A k \in 1 .. n : streams'[k].start = streams[k].start
  /\ served \subseteq served' /\ served' \subseteq Nodes
  /\ calls' \in [Nodes -> Nat] /\ \A m \in Nodes : calls[m] <= calls'[m]
  /\ stored' \in [Nodes -> Nat] /\ \A m \in Nodes : stored[m] <= stored'[m]
  /\ result' \in Results
  /\ StreamsOK'

\* The parts of a configuration have their types.
LEMMA ConfigFacts ==
  ASSUME config \in Configs
  PROVE  /\ config \in ConfigType
         /\ config.root \in Nodes
         /\ config.entry \in 0 .. Length
         /\ config.retries \in [Nodes -> 0 .. UintSize - 1]
         /\ config.forward \in [Nodes -> Nodes \cup {NoNode}]
         /\ config.routes \in [Nodes -> Seq(Route)]
         /\ Length \in Nat /\ UintSize \in Nat \ {0}
  BY RequestAssumption DEF ConfigType

\* What is backed stays backed while the request goes on.
LEMMA BackedStays ==
  ASSUME Types, NEW k \in Nat, Keeps(k), NEW n \in Nodes, Backed(n)
  PROVE  Backed(n)'
<1>1. /\ config' = config /\ served \subseteq served'
      /\ stored[n] > 0 => stored'[n] > 0
  BY DEF Keeps, Types
<1> QED BY <1>1 DEF Backed

\* A call that waits is not disturbed by what happens above it.
LEMMA FrameStays ==
  ASSUME Types, NEW k \in Nat, Keeps(k), NEW f, FrameOK(f), f.phase # "impl",
         f.own <= k, f.use <= k, f.below <= k
  PROVE  FrameOK(f)'
<1>1. /\ f \in Frame /\ f.node \in Nodes /\ f.own \in Nat \ {0} /\ f.use \in Nat \ {0}
      /\ f.below \in Nat \ {0} /\ f.next \in Nat \ {0}
  BY DEF FrameOK, Fits, Frame
<1>2. config' = config /\ Len(streams') \in Nat /\ k <= Len(streams')
  BY LenProperties DEF Keeps
<1>3. Fits(f)'
  BY <1>1, <1>2 DEF FrameOK, Fits, InLoop, RoutesOf
<1>4. Reached(f)'
  BY <1>2 DEF Keeps, FrameOK, Reached, InLoop, Seen, RoutesOf
<1>5. Tried(f)'
  <2>1. /\ \A i \in DOMAIN RoutesOf(f) : RoutesOf(f)[i].node \in Nodes
        /\ DOMAIN RoutesOf(f) = 1 .. Len(RoutesOf(f)) /\ Len(RoutesOf(f)) \in Nat
    <3>1. RoutesOf(f) \in Seq(Route)
      BY <1>1, ConfigFacts DEF Types, RoutesOf
    <3>2. \A i \in 1 .. Len(RoutesOf(f)) : RoutesOf(f)[i] \in Route
      BY <3>1, ElementOfSeq
    <3>3. DOMAIN RoutesOf(f) = 1 .. Len(RoutesOf(f)) /\ Len(RoutesOf(f)) \in Nat
      BY <3>1, LenProperties
    <3> QED BY <3>2, <3>3 DEF Route
  <2>2. \A m \in Nodes : calls[m] > 0 => calls'[m] > 0
    BY DEF Keeps, Types
  <2>3. \A i \in Seen(f) : i \in DOMAIN RoutesOf(f)
    BY <1>1, <2>1 DEF FrameOK, Fits, Seen
  <2>4. f.phase = "calling" => f.next \in DOMAIN RoutesOf(f)
    BY <1>1, <2>1 DEF FrameOK, Fits
  <2>5. (RoutesOf(f) = RoutesOf(f)') /\ (Behaves(f, "finishCriticals") = Behaves(f, "finishCriticals")')
    BY <1>2 DEF RoutesOf, Behaves
  <2> QED BY <2>1, <2>2, <2>3, <2>4, <2>5 DEF FrameOK, Tried, InLoop, Seen
<1>6. Justified(f)'
  <2>1. RetriesFit' = RetriesFit
    BY <1>2 DEF RetriesFit
  <2> QED BY <1>1, <2>1, BackedStays DEF FrameOK, Justified
<1>7. Sought(f)'
  <2>1. Rewinds' = Rewinds
    BY <1>2 DEF Rewinds, IsStore
  <2>2. f.own \in 1 .. k /\ f.use \in 1 .. k
    BY <1>1
  <2> QED BY <2>1, <2>2 DEF Keeps, FrameOK, Sought
<1> QED BY <1>3, <1>4, <1>5, <1>6, <1>7 DEF FrameOK

\* What the client was told stays true.
LEMMA AnswerStays ==
  ASSUME IInv, NEW k \in Nat, Keeps(k), served' = served, result' = result
  PROVE  Answered'
<1>1. config' = config /\ RetriesFit' = RetriesFit
  BY DEF Keeps, RetriesFit
<1>2. ASSUME RetriesFit, NEW n \in served PROVE Backed(n)'
  BY <1>2, BackedStays DEF IInv, Answered, ReturnsOnlyWhenBacked, Types
<1> QED BY <1>1, <1>2 DEF IInv, Answered, ReturnsOnlyWhenBacked
-----------------------------------------------------------------------------
\* The call on top goes on as f.
LEMMA TopBecomes ==
  ASSUME IInv, Depth > 0, Keeps(Len(streams)), served' = served, result' = result,
         NEW f, Become(f), FrameOK(f)', f \in Frame,
         f.node = Top.node, f.own = Top.own, f.below = Top.below
  PROVE  IInv'
<1>1. /\ Len(stack) \in Nat /\ Len(stack) > 0 /\ stack \in Seq(Frame)
      /\ Len(streams) \in Nat
  BY LenProperties DEF IInv, Types, Depth
<1>2. /\ stack' \in Seq(Frame) /\ Len(stack') = Len(stack)
      /\ stack'[Len(stack)] = f
      /\ \A d \in 1 .. Len(stack) - 1 : stack'[d] = stack[d]
  BY <1>1, ExceptSeq DEF Become, Depth
<1>3. Types'
  BY <1>2 DEF IInv, Types, Keeps
<1>4. ASSUME NEW d \in 1 .. Len(stack') PROVE FrameOK(stack[d])'
  <2>1. CASE d = Len(stack)
    BY <1>2, <2>1
  <2>2. CASE d # Len(stack)
    <3>1. /\ d \in 1 .. Len(stack) - 1 /\ d \in 1 .. Len(stack) /\ stack'[d] = stack[d]
      BY <1>1, <1>2, <2>2
    <3>2. PICK g : g = stack[d]
      OBVIOUS
    <3>3. FrameOK(g) /\ g.phase # "impl"
      BY <1>1, <3>1, <3>2 DEF IInv, Frames, Waits
    <3>4. FrameOK(g)'
      BY <1>1, <3>3, FrameStays DEF IInv, FrameOK, Fits
    <3> QED BY <3>1, <3>2, <3>4
  <2> QED BY <2>1, <2>2
<1>5. ASSUME NEW d \in 1 .. Len(stack') - 1 PROVE Waits(stack[d], stack[d + 1])'
  <2>1. /\ d \in 1 .. Len(stack) - 1 /\ d + 1 \in 1 .. Len(stack) /\ stack'[d] = stack[d]
        /\ d + 1 = Len(stack) \/ d + 1 \in 1 .. Len(stack) - 1
    BY <1>1, <1>2
  <2>2. stack'[d + 1].node = stack[d + 1].node
    BY <1>2, <2>1 DEF Top, Depth
  <2>3. Waits(stack[d], stack[d + 1]) /\ config' = config
    BY <2>1 DEF IInv, Frames, Keeps
  <2> QED BY <2>1, <2>2, <2>3 DEF Waits, RoutesOf
<1>6. ASSUME NEW d \in 1 .. Len(stack'), NEW e \in 1 .. Len(stack'), d < e
      PROVE  Outlives(stack'[d], stack'[e])
  <2>1. /\ d \in 1 .. Len(stack) - 1 /\ d \in 1 .. Len(stack) /\ e \in 1 .. Len(stack)
        /\ stack'[d] = stack[d]
        /\ e = Len(stack) \/ e \in 1 .. Len(stack) - 1
    BY <1>1, <1>2, <1>6
  <2>2. stack'[e].below = stack[e].below
    BY <1>2, <2>1 DEF Top, Depth
  <2>3. Outlives(stack[d], stack[e])
    BY <1>6, <2>1 DEF IInv, Frames
  <2> QED BY <2>1, <2>2, <2>3 DEF Outlives
<1>7. stack'[1].node = config'.root
  <2>1. stack[1].node = config.root /\ config' = config
    BY <1>1 DEF IInv, Frames, Keeps
  <2>2. PICK n \in Nat : n = Len(stack) /\ n > 0
    BY <1>1
  <2>3. 1 = n \/ 1 \in 1 .. n - 1
    BY <2>2
  <2> QED BY <1>2, <2>1, <2>2, <2>3 DEF Top, Depth
<1>8. Frames'
  BY <1>4, <1>5, <1>6, <1>7 DEF Frames, Outlives
<1>9. Answered'
  BY <1>1, AnswerStays
<1> QED BY <1>3, <1>8, <1>9 DEF IInv, Keeps

\* The call on top makes a call, and waits for it as f.
LEMMA CallIsMade ==
  ASSUME IInv, Depth > 0, Keeps(Len(streams)), served' = served, result' = result,
         Len(streams') = Len(streams),
         NEW f, NEW g, stack' = Append([stack EXCEPT ![Depth] = f], g),
         FrameOK(f)', FrameOK(g)', f \in Frame, g \in Frame,
         f.node = Top.node, f.own = Top.own, f.below = Top.below, f.use = Top.use,
         f.phase \in {"calling", "forwarding"}, Waits(f, g), g.below = Len(streams)
  PROVE  IInv'
<1>1. /\ Len(stack) \in Nat /\ Len(stack) > 0 /\ stack \in Seq(Frame)
      /\ Len(streams) \in Nat
  BY LenProperties DEF IInv, Types, Depth
<1> DEFINE n == Len(stack)
<1> DEFINE t == [stack EXCEPT ![n] = f]
<1>2. /\ t \in Seq(Frame) /\ Len(t) = n /\ t[n] = f
      /\ \A d \in 1 .. n - 1 : t[d] = stack[d]
  BY <1>1, ExceptSeq
<1> HIDE DEF t
<1>3. stack' = Append(t, g)
  BY DEF t, Depth
<1>4. /\ stack' \in Seq(Frame) /\ Len(stack') = n + 1
      /\ stack'[n + 1] = g
      /\ \A d \in 1 .. n : stack'[d] = t[d]
  <2>1. t \in Seq(Frame) /\ g \in Frame
    BY <1>2
  <2>2. /\ Append(t, g) \in Seq(Frame) /\ Len(Append(t, g)) = Len(t) + 1
        /\ Append(t, g)[Len(t) + 1] = g
        /\ \A d \in 1 .. Len(t) : Append(t, g)[d] = t[d]
    BY <2>1, AppendFacts
  <2> QED BY <1>2, <1>3, <2>2
<1>5. /\ stack'[n] = f /\ \A d \in 1 .. n - 1 : stack'[d] = stack[d]
  BY <1>1, <1>2, <1>4
<1>6. Types'
  BY <1>4 DEF IInv, Types, Keeps
<1>7. ASSUME NEW d \in 1 .. Len(stack') PROVE FrameOK(stack[d])'
  <2>1. CASE d = n + 1
    BY <1>4, <2>1
  <2>2. CASE d = n
    BY <1>5, <2>2
  <2>3. CASE d # n + 1 /\ d # n
    <3>1. /\ d \in 1 .. n - 1 /\ d \in 1 .. n /\ stack'[d] = stack[d]
      BY <1>1, <1>4, <1>5, <2>3
    <3>2. PICK h : h = stack[d]
      OBVIOUS
    <3>3. FrameOK(h) /\ h.phase # "impl"
      BY <1>1, <3>1, <3>2 DEF IInv, Frames, Waits
    <3>4. FrameOK(h)'
      BY <1>1, <3>3, FrameStays DEF IInv, FrameOK, Fits
    <3> QED BY <3>1, <3>2, <3>4
  <2> QED BY <2>1, <2>2, <2>3
<1>8. ASSUME NEW d \in 1 .. Len(stack') - 1 PROVE Waits(stack[d], stack[d + 1])'
  <2>1. config' = config
    BY DEF Keeps
  <2>2. CASE d = n
    BY <1>4, <1>5, <2>1, <2>2 DEF Waits, RoutesOf
  <2>3. CASE d # n
    <3>1. /\ d \in 1 .. n - 1 /\ d + 1 \in 1 .. n /\ stack'[d] = stack[d]
          /\ d + 1 = n \/ d + 1 \in 1 .. n - 1
      BY <1>1, <1>4, <1>5, <2>3
    <3>2. stack'[d + 1].node = stack[d + 1].node
      BY <1>5, <3>1 DEF Top, Depth
    <3>3. Waits(stack[d], stack[d + 1])
      BY <3>1 DEF IInv, Frames
    <3> QED BY <2>1, <3>1, <3>2, <3>3 DEF Waits, RoutesOf
  <2> QED BY <2>2, <2>3
<1>9. ASSUME NEW d \in 1 .. n PROVE Outlives(stack'[d], g)
  <2>1. FrameOK(stack[d])
    BY <1>1 DEF IInv, Frames
  <2>2. /\ stack'[d].own = stack[d].own /\ stack'[d].use = stack[d].use
        /\ stack'[d].below = stack[d].below
    <3>1. d = n \/ d \in 1 .. n - 1
      BY <1>1
    <3> QED BY <1>5, <3>1 DEF Top, Depth
  <2> QED BY <2>1, <2>2 DEF FrameOK, Fits, Outlives
<1>10. ASSUME NEW d \in 1 .. Len(stack'), NEW e \in 1 .. Len(stack'), d < e
       PROVE  Outlives(stack'[d], stack'[e])
  <2>1. CASE e = n + 1
    <3>1. d \in 1 .. n
      BY <1>1, <1>4, <1>10, <2>1
    <3> QED BY <1>4, <1>9, <2>1, <3>1
  <2>2. CASE e # n + 1
    <3>1. /\ d \in 1 .. n - 1 /\ d \in 1 .. n /\ e \in 1 .. n /\ stack'[d] = stack[d]
          /\ e = n \/ e \in 1 .. n - 1
      <4>1. d \in 1 .. n + 1 /\ e \in 1 .. n + 1 /\ d < e /\ e # n + 1 /\ n \in Nat
        BY <1>1, <1>4, <1>10, <2>2
      <4>2. /\ d \in 1 .. n - 1 /\ d \in 1 .. n /\ e \in 1 .. n
            /\ e = n \/ e \in 1 .. n - 1
        BY <4>1
      <4> QED BY <1>5, <4>2
    <3>2. stack'[e].below = stack[e].below
      BY <1>5, <3>1 DEF Top, Depth
    <3>3. Outlives(stack[d], stack[e])
      BY <1>10, <3>1 DEF IInv, Frames
    <3> QED BY <3>1, <3>2, <3>3 DEF Outlives
  <2> QED BY <2>1, <2>2
<1>11. stack'[1].node = config'.root
  <2>1. stack[1].node = config.root /\ config' = config
    BY <1>1 DEF IInv, Frames, Keeps
  <2>2. PICK k \in Nat : k = n /\ k > 0
    BY <1>1
  <2>3. 1 = k \/ 1 \in 1 .. k - 1
    BY <2>2
  <2> QED BY <1>5, <2>1, <2>2, <2>3 DEF Top, Depth
<1>12. Frames'
  BY <1>7, <1>8, <1>10, <1>11 DEF Frames, Outlives
<1>13. Answered'
  BY <1>1, AnswerStays
<1> QED BY <1>6, <1>12, <1>13 DEF IInv, Keeps

\* The streams that are left when the call on top ends.
LEMMA StreamsLeft ==
  ASSUME IInv, Depth > 1, streams' = SubSeq(streams, 1, Top.below),
         UNCHANGED <<config, result, calls, stored>>,
         served' = served \/ served' = served \cup {Top.node}
  PROVE  /\ Keeps(Top.below) /\ Len(streams') = Top.below
         /\ \A k \in 1 .. Top.below : streams'[k] = streams[k]
<1>1. /\ Len(stack) \in Nat /\ Len(stack) \in 1 .. Len(stack)
      /\ streams \in Seq(Stream) /\ Len(streams) \in Nat
  BY LenProperties DEF IInv, Types, Depth
<1>2. FrameOK(Top)
  BY <1>1 DEF IInv, Frames, Top, Depth
<1>3. PICK n \in Nat : n = Top.below /\ n <= Len(streams)
  BY <1>2 DEF FrameOK, Fits, Frame
<1>4. /\ streams' \in Seq(Stream) /\ Len(streams') = n
      /\ \A i \in 1 .. n : streams'[i] = streams[i]
  BY <1>1, <1>3, PrefixFacts
<1>5. StreamsOK'
  BY <1>1, <1>3, <1>4 DEF IInv, StreamsOK, Rewinds, IsStore
<1>6. served' \subseteq Nodes /\ served \subseteq served'
  BY <1>2 DEF IInv, Types, FrameOK, Fits, Frame
<1>7. Keeps(n)
  BY <1>1, <1>3, <1>4, <1>5, <1>6 DEF IInv, Types, Keeps
<1> QED BY <1>3, <1>4, <1>7

\* The call on top ends, and the one below goes on as f.
LEMMA CallEnds ==
  ASSUME IInv, Depth > 1, Keeps(Top.below), Answered',
         NEW f, ResumeAs(f), FrameOK(f)', f \in Frame,
         f.node = Caller.node, f.own = Caller.own, f.use = Caller.use,
         f.below = Caller.below
  PROVE  IInv'
<1>1. /\ Len(stack) \in Nat /\ Len(stack) > 1 /\ stack \in Seq(Frame)
      /\ Len(streams) \in Nat
  BY LenProperties DEF IInv, Types, Depth
<1>2. PICK n \in Nat : n = Len(stack) - 1 /\ n > 0
  BY <1>1
<1> DEFINE t == SubSeq(stack, 1, n)
<1>3. t \in Seq(Frame) /\ Len(t) = n /\ \A d \in 1 .. n : t[d] = stack[d]
  <2>1. n <= Len(stack)
    BY <1>1, <1>2
  <2> QED BY <1>1, <2>1, PrefixFacts
<1>4. stack' = [t EXCEPT ![n] = f]
  BY <1>2 DEF ResumeAs, Depth
<1> HIDE DEF t
<1>5. /\ stack' \in Seq(Frame) /\ Len(stack') = n /\ stack'[n] = f
      /\ \A d \in 1 .. n - 1 : stack'[d] = t[d]
  <2>1. n \in 1 .. Len(t)
    BY <1>2, <1>3
  <2> QED BY <1>3, <1>4, <2>1, ExceptSeq
<1>6. \A d \in 1 .. n - 1 : stack'[d] = stack[d]
  BY <1>2, <1>3, <1>5
<1>7. Caller = stack[n] /\ Top = stack[n + 1]
  BY <1>1, <1>2 DEF Caller, Top, Depth
<1>8. Types'
  BY <1>5 DEF IInv, Types, Keeps
<1>9. ASSUME NEW d \in 1 .. Len(stack') PROVE FrameOK(stack[d])'
  <2>1. CASE d = n
    BY <1>5, <2>1
  <2>2. CASE d # n
    <3>1. /\ d \in 1 .. n - 1 /\ d \in 1 .. Len(stack) /\ d \in 1 .. Len(stack) - 1
          /\ n + 1 \in 1 .. Len(stack) /\ d < n + 1
      BY <1>1, <1>2, <1>5, <2>2
    <3>2. stack'[d] = stack[d]
      BY <1>6, <3>1
    <3>3. PICK h : h = stack[d]
      OBVIOUS
    <3>4. PICK k : k = Top.below
      OBVIOUS
    <3>5. FrameOK(h) /\ h.phase # "impl" /\ h.own <= k /\ h.use <= k /\ h.below <= k
      BY <1>7, <3>1, <3>3, <3>4 DEF IInv, Frames, Waits, Outlives
    <3>6. k \in Nat
      BY <1>7, <3>1, <3>4 DEF IInv, Frames, FrameOK, Fits, Frame
    <3>7. FrameOK(h)'
      BY <3>4, <3>5, <3>6, FrameStays DEF IInv
    <3> QED BY <3>2, <3>3, <3>7
  <2> QED BY <2>1, <2>2
<1>10. ASSUME NEW d \in 1 .. Len(stack') - 1 PROVE Waits(stack[d], stack[d + 1])'
  <2>1. /\ d \in 1 .. n - 1 /\ d + 1 \in 1 .. n /\ d \in 1 .. Len(stack) - 1
        /\ d + 1 = n \/ d + 1 \in 1 .. n - 1
    BY <1>1, <1>2, <1>5
  <2>2. stack'[d] = stack[d] /\ stack'[d + 1].node = stack[d + 1].node
    BY <1>5, <1>6, <1>7, <2>1
  <2>3. Waits(stack[d], stack[d + 1]) /\ config' = config
    BY <2>1 DEF IInv, Frames, Keeps
  <2> QED BY <2>2, <2>3 DEF Waits, RoutesOf
<1>11. ASSUME NEW d \in 1 .. Len(stack'), NEW e \in 1 .. Len(stack'), d < e
       PROVE  Outlives(stack'[d], stack'[e])
  <2>1. /\ d \in 1 .. n - 1 /\ d \in 1 .. Len(stack) /\ e \in 1 .. Len(stack)
        /\ e = n \/ e \in 1 .. n - 1
    BY <1>1, <1>2, <1>5, <1>11
  <2>2. stack'[d] = stack[d] /\ stack'[e].below = stack[e].below
    BY <1>5, <1>6, <1>7, <2>1
  <2>3. Outlives(stack[d], stack[e])
    BY <1>11, <2>1 DEF IInv, Frames
  <2> QED BY <2>2, <2>3 DEF Outlives
<1>12. stack'[1].node = config'.root
  <2>1. stack[1].node = config.root /\ config' = config
    BY <1>1 DEF IInv, Frames, Keeps
  <2>2. 1 = n \/ 1 \in 1 .. n - 1
    BY <1>2
  <2> QED BY <1>5, <1>6, <1>7, <2>1, <2>2
<1>13. Frames'
  BY <1>9, <1>10, <1>11, <1>12 DEF Frames, Outlives
<1> QED BY <1>8, <1>13 DEF IInv, Keeps
-----------------------------------------------------------------------------
\* What is known of the call on top.
LEMMA TopFacts ==
  ASSUME IInv, Depth > 0
  PROVE  /\ FrameOK(Top) /\ Top \in Frame
         /\ Top.own <= Len(streams) /\ Top.use <= Len(streams) /\ Top.below <= Len(streams)
         /\ Len(streams) \in Nat
<1>1. Len(stack) \in Nat /\ Len(stack) \in 1 .. Len(stack) /\ Len(streams) \in Nat
  BY LenProperties DEF IInv, Types, Depth
<1>2. FrameOK(Top)
  BY <1>1 DEF IInv, Frames, Top, Depth
<1> QED BY <1>1, <1>2 DEF FrameOK, Fits

\* The call that waits for the one on top, and the streams it owns.
LEMMA CallerFacts ==
  ASSUME IInv, Depth > 1
  PROVE  /\ FrameOK(Caller) /\ Caller \in Frame /\ Waits(Caller, Top)
         /\ Caller.own <= Top.below /\ Caller.use <= Top.below /\ Caller.below <= Top.below
         /\ Top.below \in Nat
<1>1. Len(stack) \in Nat /\ Len(stack) > 1
  BY LenProperties DEF IInv, Types, Depth
<1>2. PICK n \in Nat : n = Len(stack) - 1 /\ n > 0
  BY <1>1
<1>3. /\ n \in 1 .. Len(stack) /\ n + 1 \in 1 .. Len(stack) /\ n < n + 1
      /\ n \in 1 .. Len(stack) - 1
  BY <1>1, <1>2
<1>4. Caller = stack[n] /\ Top = stack[n + 1]
  BY <1>1, <1>2 DEF Caller, Top, Depth
<1>5. FrameOK(Caller) /\ Waits(Caller, Top) /\ Outlives(Caller, Top) /\ FrameOK(Top)
  BY <1>3, <1>4 DEF IInv, Frames
<1> QED BY <1>5 DEF FrameOK, Fits, Frame, Outlives

\* The routes of a call's node.
LEMMA RouteFacts ==
  ASSUME Types, NEW f, f.node \in Nodes
  PROVE  /\ RoutesOf(f) \in Seq(Route)
         /\ Len(RoutesOf(f)) \in Nat /\ DOMAIN RoutesOf(f) = 1 .. Len(RoutesOf(f))
         /\ \A i \in 1 .. Len(RoutesOf(f)) : /\ RoutesOf(f)[i].node \in Nodes
                                            /\ RoutesOf(f)[i].critical \in BOOLEAN
<1>1. RoutesOf(f) \in Seq(Route)
  BY ConfigFacts DEF Types, RoutesOf
<1>2. \A i \in 1 .. Len(RoutesOf(f)) : RoutesOf(f)[i] \in Route
  BY <1>1, ElementOfSeq
<1>3. Len(RoutesOf(f)) \in Nat /\ DOMAIN RoutesOf(f) = 1 .. Len(RoutesOf(f))
  BY <1>1, LenProperties
<1> QED BY <1>1, <1>2, <1>3 DEF Route

\* A counter only grows.
LEMMA CountFacts ==
  ASSUME NEW f \in [Nodes -> Nat], NEW g, g = f \/ \E n \in Nodes : g = Count(f, n)
  PROVE  g \in [Nodes -> Nat] /\ \A m \in Nodes : f[m] <= g[m]
<1>1. CASE g = f
  BY <1>1
<1>2. CASE \E n \in Nodes : g = Count(f, n)
  <2>1. PICK n \in Nodes : g = [f EXCEPT ![n] = f[n] + 1]
    BY <1>2 DEF Count
  <2>2. f[n] + 1 \in Nat
    OBVIOUS
  <2> QED BY <2>1, <2>2
<1> QED BY <1>1, <1>2

\* A seek moves a stream and nothing else.
LEMMA SeekKeeps ==
  ASSUME IInv, UNCHANGED <<config, result, served>>,
         calls' = calls \/ \E n \in Nodes : calls' = Count(calls, n),
         stored' = stored \/ \E n \in Nodes : stored' = Count(stored, n),
         NEW k \in 1 .. Len(streams), NEW p \in 0 .. Length,
         streams' = streams \/ streams' = Seek(k, p)
  PROVE  /\ Keeps(Len(streams)) /\ Len(streams') = Len(streams)
         /\ \A j \in 1 .. Len(streams) : streams'[j].start = streams[j].start
         /\ streams' = Seek(k, p) => streams'[k].pos = p
<1>1. /\ streams \in Seq(Stream) /\ Len(streams) \in Nat
      /\ \A j \in 1 .. Len(streams) : streams[j] \in Stream
  BY ElementOfSeq, LenProperties DEF IInv, Types
<1>2. [streams[k] EXCEPT !.pos = p] \in Stream
  BY <1>1 DEF Stream
<1>3. /\ Seek(k, p) \in Seq(Stream) /\ Len(Seek(k, p)) = Len(streams)
      /\ Seek(k, p)[k] = [streams[k] EXCEPT !.pos = p]
      /\ \A j \in 1 .. Len(streams) : j # k => Seek(k, p)[j] = streams[j]
  BY <1>1, <1>2, ExceptSeq DEF Seek
<1>4. /\ Seek(k, p)[k].start = streams[k].start /\ Seek(k, p)[k].pos = p
      /\ Seek(k, p)[k].whole = streams[k].whole
  BY <1>1, <1>3 DEF Stream
<1>5. /\ streams' \in Seq(Stream) /\ Len(streams') = Len(streams)
      /\ \A j \in 1 .. Len(streams) : /\ streams'[j].start = streams[j].start
                                      /\ streams'[j].whole = streams[j].whole
  BY <1>1, <1>3, <1>4
<1>6. StreamsOK'
  BY <1>5 DEF IInv, StreamsOK, Rewinds, IsStore
<1>7. calls' \in [Nodes -> Nat] /\ \A m \in Nodes : calls[m] <= calls'[m]
  <2>1. calls \in [Nodes -> Nat] /\ (calls' = calls \/ \E n \in Nodes : calls' = Count(calls, n))
    BY DEF IInv, Types
  <2> QED BY <2>1, CountFacts
<1>9. stored' \in [Nodes -> Nat] /\ \A m \in Nodes : stored[m] <= stored'[m]
  <2>1. /\ stored \in [Nodes -> Nat]
        /\ stored' = stored \/ \E n \in Nodes : stored' = Count(stored, n)
    BY DEF IInv, Types
  <2> QED BY <2>1, CountFacts
<1>8. Keeps(Len(streams))
  BY <1>1, <1>5, <1>6, <1>7, <1>9 DEF IInv, Types, Keeps
<1> QED BY <1>4, <1>5, <1>8

\* A call g goes on, outside its loop and its StoreImpl, as f.
LEMMA MovesOn ==
  ASSUME Types, NEW k \in Nat, Keeps(k), NEW g, FrameOK(g),
         g.own <= k, g.use <= k, g.below <= k,
         NEW f, f \in Frame, f.node = g.node, f.own = g.own, f.use = g.use,
         f.below = g.below, f.inputPos = g.inputPos, f.next = g.next,
         f.attempt <= config.retries[f.node] + 1,
         f.phase \notin {"routing", "calling", "impl"}, Justified(f)'
  PROVE  FrameOK(f)'
<1>1. config' = config /\ Len(streams') \in Nat /\ k <= Len(streams')
  BY LenProperties DEF Keeps
<1>2. Fits(f)'
  BY <1>1 DEF FrameOK, Fits, Frame, InLoop, RoutesOf
<1>3. Reached(f)' /\ Tried(f)'
  BY DEF Reached, Tried, InLoop
<1>4. Sought(f)'
  <2>1. Rewinds' = Rewinds
    BY <1>1 DEF Rewinds, IsStore
  <2>2. g.own \in 1 .. k /\ g.use \in 1 .. k
    BY DEF FrameOK, Fits, Frame
  <2> QED BY <2>1, <2>2 DEF Keeps, FrameOK, Sought
<1> QED BY <1>2, <1>3, <1>4 DEF FrameOK

\* The loop of g goes on to the next route as f.
LEMMA LoopGoesOn ==
  ASSUME Types, NEW k \in Nat, Keeps(k), NEW g, FrameOK(g), InLoop(g),
         g.own <= k, g.use <= k, g.below <= k, g.next <= Len(RoutesOf(g)),
         NEW f, f \in Frame, f.node = g.node, f.own = g.own, f.use = g.use,
         f.below = g.below, f.inputPos = g.inputPos, f.attempt = g.attempt,
         f.phase = "routing", f.next = g.next + 1,
         f.success => (g.success \/ RoutesOf(g)[g.next].node \in served'),
         ~f.criticalFailed =>
           /\ ~g.criticalFailed
           /\ RoutesOf(g)[g.next].critical => RoutesOf(g)[g.next].node \in served',
         g.criticalFailed => f.criticalFailed,
         (RoutesOf(g)[g.next].critical \/ ~(f.criticalFailed /\ Behaves(f, "finishCriticals")))
           => calls'[RoutesOf(g)[g.next].node] > 0
  PROVE  FrameOK(f)'
<1>1. /\ config' = config /\ Len(streams') \in Nat /\ k <= Len(streams')
      /\ g \in Frame /\ g.node \in Nodes /\ g.next \in Nat \ {0}
  BY LenProperties DEF Keeps, FrameOK, Fits, Frame
<1>2. /\ RoutesOf(f) = RoutesOf(g) /\ RoutesOf(f)' = RoutesOf(f)
      /\ Len(RoutesOf(g)) \in Nat
      /\ \A i \in 1 .. Len(RoutesOf(g)) : RoutesOf(g)[i].node \in Nodes
  <2>1. RoutesOf(f) = RoutesOf(g) /\ RoutesOf(f)' = RoutesOf(f)
    BY <1>1 DEF RoutesOf
  <2> QED BY <1>1, <2>1, RouteFacts
<1>3. \A i \in Seen(f) : i = g.next \/ i \in Seen(g)
  BY <1>1 DEF Seen
<1>4. \A i \in Seen(f) : i \in 1 .. Len(RoutesOf(g))
  BY <1>1, <1>2 DEF Seen
<1>5. g.next \in Seen(f) /\ \A i \in Seen(g) : i \in Seen(f)
  BY <1>1 DEF Seen
<1>6. Fits(f)'
  BY <1>1, <1>2 DEF FrameOK, Fits, Frame, InLoop
<1>7. Reached(f)'
  <2>1. Reached(g) /\ served \subseteq served'
    BY DEF FrameOK, Keeps
  <2>2. ASSUME f.success PROVE \E i \in Seen(f) : RoutesOf(f)[i].node \in served'
    BY <1>2, <1>5, <2>1, <2>2 DEF Reached
  <2>3. ASSUME ~f.criticalFailed, NEW i \in Seen(f), RoutesOf(f)[i].critical
        PROVE  RoutesOf(f)[i].node \in served'
    BY <1>2, <1>3, <2>1, <2>3 DEF Reached
  <2> QED BY <1>2, <2>2, <2>3 DEF Reached, Seen
<1>8. Tried(f)'
  <2>1. Tried(g) /\ \A m \in Nodes : calls[m] > 0 => calls'[m] > 0
    BY DEF FrameOK, Keeps, Types
  <2>2. /\ Behaves(f, "finishCriticals") = Behaves(g, "finishCriticals")
        /\ Behaves(f, "finishCriticals")' = Behaves(f, "finishCriticals")
    BY <1>1 DEF Behaves
  <2>3. ASSUME NEW i \in Seen(f),
               RoutesOf(f)[i].critical \/ ~(f.criticalFailed /\ Behaves(f, "finishCriticals"))
        PROVE  calls'[RoutesOf(f)[i].node] > 0
    <3>1. CASE i = g.next
      BY <1>2, <2>3, <3>1
    <3>2. CASE i \in Seen(g)
      <4>1. RoutesOf(g)[i].critical \/ ~(g.criticalFailed /\ Behaves(g, "finishCriticals"))
        BY <1>2, <2>2, <2>3
      <4>2. calls[RoutesOf(g)[i].node] > 0
        BY <2>1, <3>2, <4>1 DEF Tried
      <4> QED BY <1>2, <1>4, <2>1, <4>2
    <3> QED BY <1>3, <3>1, <3>2
  <2> QED BY <1>2, <2>2, <2>3 DEF Tried, Seen
<1>9. Justified(f)'
  BY DEF Justified
<1>10. Sought(f)'
  <2>1. Rewinds' = Rewinds
    BY <1>1 DEF Rewinds, IsStore
  <2>2. g.own \in 1 .. k /\ g.use \in 1 .. k
    BY <1>1 DEF Frame
  <2> QED BY <2>1, <2>2 DEF Keeps, FrameOK, Sought
<1> QED BY <1>6, <1>7, <1>8, <1>9, <1>10 DEF FrameOK

\* The call on top goes on outside its loop and its StoreImpl.
LEMMA TopMovesOn ==
  ASSUME IInv, Depth > 0, Keeps(Len(streams)), served' = served, result' = result,
         NEW f, Become(f), f \in Frame, f.node = Top.node, f.own = Top.own,
         f.use = Top.use, f.below = Top.below, f.inputPos = Top.inputPos,
         f.next = Top.next, f.attempt <= config.retries[f.node] + 1,
         f.phase \notin {"routing", "calling", "impl"}, Justified(f)'
  PROVE  IInv'
<1>1. PICK g : g = Top
  OBVIOUS
<1>2. PICK k \in Nat : k = Len(streams)
  BY TopFacts
<1>3. /\ FrameOK(g) /\ g.own <= k /\ g.use <= k /\ g.below <= k
  BY <1>1, <1>2, TopFacts
<1>4. FrameOK(f)'
  BY <1>1, <1>2, <1>3, MovesOn DEF IInv
<1> QED BY <1>4, TopBecomes

\* What the failed attempt of a call makes of it.
LEMMA AfterFailedAttemptFacts ==
  ASSUME Types, NEW g, Fits(g)
  PROVE  LET f == AfterFailedAttempt(g)
         IN /\ f \in Frame /\ f.node = g.node /\ f.own = g.own /\ f.use = g.use
            /\ f.below = g.below /\ f.inputPos = g.inputPos /\ f.next = g.next
            /\ f.attempt <= config.retries[f.node] + 1
            /\ f.phase \in {"attempt", "failed"}
<1>1. /\ g \in Frame /\ g.attempt <= config.retries[g.node] + 1
      /\ g.attempt \in Nat \ {0} /\ g.node \in Nodes
  BY DEF Fits, Frame
<1>2. config.retries[g.node] \in Nat
  BY <1>1, ConfigFacts DEF Types
<1>3. CASE g.attempt <= config.retries[g.node]
  <2>1. AfterFailedAttempt(g) = [g EXCEPT !.phase = "attempt", !.attempt = @ + 1]
    BY <1>3 DEF AfterFailedAttempt
  <2>2. g.attempt + 1 \in Nat \ {0} /\ g.attempt + 1 <= config.retries[g.node] + 1
    BY <1>1, <1>2, <1>3
  <2> QED BY <1>1, <2>1, <2>2 DEF Frame, Phases
<1>4. CASE ~(g.attempt <= config.retries[g.node])
  <2>1. AfterFailedAttempt(g) = [g EXCEPT !.phase = "failed"]
    BY <1>4 DEF AfterFailedAttempt
  <2> QED BY <1>1, <2>1 DEF Frame, Phases
<1> QED BY <1>3, <1>4

\* The call on top goes on in phase ph, and its work is done if ph says so.
LEMMA TopMovesTo ==
  ASSUME IInv, Depth > 0, Keeps(Len(streams)), served' = served, result' = result,
         NEW ph \in Phases \ {"routing", "calling", "impl"}, MoveTo(ph),
         NEW n, n = Top.node, (RetriesFit /\ ph \in {"true", "false"}) => Backed(n)'
  PROVE  IInv'
<1>1. FrameOK(Top) /\ Top \in Frame /\ Top.attempt <= config.retries[Top.node] + 1
  BY TopFacts DEF FrameOK, Fits
<1>2. PICK f : f = [Top EXCEPT !.phase = ph]
  OBVIOUS
<1>3. /\ f \in Frame /\ f.node = n /\ f.own = Top.own /\ f.use = Top.use
      /\ f.below = Top.below /\ f.inputPos = Top.inputPos /\ f.next = Top.next
      /\ f.attempt = Top.attempt /\ f.phase = ph
  BY <1>1, <1>2 DEF Frame
<1>4. Become(f)
  BY <1>2 DEF MoveTo
<1>5. Justified(f)'
  <2>1. RetriesFit' = RetriesFit
    BY DEF Keeps, RetriesFit
  <2> QED BY <1>3, <2>1 DEF Justified
<1>6. f.phase \notin {"routing", "calling", "impl"} /\ f.node = Top.node
  BY <1>3
<1>7. f.attempt <= config.retries[f.node] + 1
  BY <1>1, <1>3
<1> QED BY <1>3, <1>4, <1>5, <1>6, <1>7, TopMovesOn

\* A failed attempt, wherever it has left the stream.
LEMMA AttemptFails ==
  ASSUME IInv, Depth > 0, Keeps(Len(streams)), served' = served, result' = result,
         Become(AfterFailedAttempt(Top))
  PROVE  IInv'
<1>1. Fits(Top)
  BY TopFacts DEF FrameOK
<1>2. PICK g : g = Top
  OBVIOUS
<1>3. PICK f : f = AfterFailedAttempt(g)
  OBVIOUS
<1>4. /\ f \in Frame /\ f.node = g.node /\ f.own = g.own /\ f.use = g.use
      /\ f.below = g.below /\ f.inputPos = g.inputPos /\ f.next = g.next
      /\ f.attempt <= config.retries[f.node] + 1
      /\ f.phase \in {"attempt", "failed"}
  BY <1>1, <1>2, <1>3, AfterFailedAttemptFacts DEF IInv
<1>5. Become(f)
  BY <1>2, <1>3
<1>6. Justified(f)'
  BY <1>4 DEF Justified
<1>7. f.phase \notin {"routing", "calling", "impl"}
  BY <1>4
<1> QED BY <1>2, <1>4, <1>5, <1>6, <1>7, TopMovesOn

\* A step that touches no stream, and one that moves a stream of the call on top.
LEMMA TopKeeps ==
  ASSUME IInv, Depth > 0, UNCHANGED <<config, result, served>>,
         calls' = calls \/ \E n \in Nodes : calls' = Count(calls, n),
         stored' = stored \/ \E n \in Nodes : stored' = Count(stored, n),
         \/ streams' = streams
         \/ \E p \in 0 .. Length : streams' = Seek(Top.own, p) \/ streams' = Seek(Top.use, p)
  PROVE  Keeps(Len(streams))
<1>1. Top.own \in 1 .. Len(streams) /\ Top.use \in 1 .. Len(streams)
  BY TopFacts DEF Frame
<1>2. 0 \in 0 .. Length
  BY RequestAssumption
<1>3. CASE streams' = streams
  BY <1>1, <1>2, <1>3, SeekKeeps
<1>4. CASE \E p \in 0 .. Length : streams' = Seek(Top.own, p) \/ streams' = Seek(Top.use, p)
  BY <1>1, <1>4, SeekKeeps
<1> QED BY <1>3, <1>4
-----------------------------------------------------------------------------
\* Where a stream is, and the calls' positions in it.
LEMMA Positions ==
  ASSUME IInv, Depth > 0
  PROVE  /\ Top.inputPos \in 0 .. Length /\ RetryPos(Top) \in 0 .. Length
         /\ 0 \in 0 .. Length /\ Length \in 0 .. Length
         /\ streams[Top.own].pos \in 0 .. Length /\ streams[Top.use].pos \in 0 .. Length
<1>1. Top \in Frame /\ Top.own \in 1 .. Len(streams) /\ Top.use \in 1 .. Len(streams)
  BY TopFacts DEF Frame
<1>2. Length \in Nat
  BY RequestAssumption
<1>3. streams[Top.own] \in Stream /\ streams[Top.use] \in Stream
  BY <1>1, ElementOfSeq DEF IInv, Types
<1>4. Top.inputPos \in 0 .. Length
  BY <1>1 DEF Frame
<1> QED BY <1>2, <1>3, <1>4 DEF Stream, RetryPos

\* Ignore, Prepare, PrepareFails: the call begins.
LEMMA EntersKeeps ==
  ASSUME IInv, Ignore \/ Prepare \/ PrepareFails PROVE IInv'
<1>1. Depth > 0
  BY DEF Ignore, Prepare, PrepareFails, Entered
<1>2. PICK n : n = Top.node
  OBVIOUS
<1>3. CASE Ignore
  <2>1. Keeps(Len(streams))
    BY <1>1, <1>3, TopKeeps DEF Ignore, history
  <2>2. Backed(n)'
    BY <1>2, <1>3 DEF Backed, Ignore
  <2> QED BY <1>1, <1>2, <1>3, <2>1, <2>2, TopMovesTo DEF Ignore, history, Phases
<1>4. CASE Prepare
  <2>1. streams' = Seek(Top.own, Top.inputPos) /\ UNCHANGED <<config, result, history>>
    BY <1>4 DEF Prepare
  <2>2. Keeps(Len(streams))
    BY <1>1, <2>1, TopKeeps, Positions DEF history
  <2> QED BY <1>1, <1>2, <1>4, <2>2, TopMovesTo DEF Prepare, history, Phases
<1>5. CASE PrepareFails
  <2>1. Top.inputPos \in 0 .. Length /\ Length \in Nat
    BY <1>1, Positions, RequestAssumption
  <2>2. \/ streams' = streams
        \/ \E p \in 0 .. Length : streams' = Seek(Top.own, p)
    BY <1>5, <2>1 DEF PrepareFails
  <2>3. Keeps(Len(streams))
    BY <1>1, <1>5, <2>2, TopKeeps DEF PrepareFails, history
  <2> QED BY <1>1, <1>2, <1>5, <2>3, TopMovesTo DEF PrepareFails, history, Phases
<1> QED BY <1>3, <1>4, <1>5

\* NoAttempt: with retries that fit a call always makes an attempt.
LEMMA NoAttemptKeeps ==
  ASSUME IInv, NoAttempt PROVE IInv'
<1>1. Depth > 0 /\ UNCHANGED <<config, streams, result, history>>
  BY DEF NoAttempt
<1>2. PICK n : n = Top.node
  OBVIOUS
<1>3. Keeps(Len(streams))
  BY <1>1, TopKeeps DEF history
<1>4. ~RetriesFit
  <2>1. n \in Nodes
    BY <1>1, <1>2, TopFacts DEF Frame
  <2>2. PICK r \in Nat : r = config.retries[n]
    BY <2>1, ConfigFacts DEF IInv, Types
  <2>3. PICK u \in Nat : u = UintSize
    BY RequestAssumption
  <2>4. (r + 1) % u = 0
    BY <1>2, <2>2, <2>3 DEF NoAttempt, Attempts
  <2>5. ASSUME r + 1 < u PROVE (r + 1) % u = r + 1
    <3>1. r + 1 \in Nat /\ u \in Nat /\ u > 0
      BY <2>5
    <3> QED BY <2>5, <3>1
  <2>6. ~(r + 1 < u)
    BY <2>4, <2>5
  <2> QED BY <2>1, <2>2, <2>3, <2>6 DEF RetriesFit
<1>5. MoveTo("false")
  BY DEF NoAttempt
<1> QED BY <1>1, <1>2, <1>3, <1>4, <1>5, TopMovesTo DEF history, Phases

\* PrepareTransformed: the new stream begins at 0 and is whole if its source was.
LEMMA TransformedKeeps ==
  ASSUME IInv, NEW ph \in {"attempt", "failed"}, PrepareTransformed(ph) PROVE IInv'
<1>1. Depth > 0 /\ IsStore /\ UNCHANGED <<config, result, history>>
  BY DEF PrepareTransformed, Entered
<1>2. /\ FrameOK(Top) /\ Top \in Frame /\ Top.own \in 1 .. Len(streams)
      /\ Len(streams) \in Nat /\ streams \in Seq(Stream)
      /\ \A k \in 1 .. Len(streams) : streams[k] \in Stream
  BY <1>1, TopFacts, ElementOfSeq DEF IInv, Types, Frame
<1> DEFINE t == Seek(Top.own, Length)
<1> DEFINE whole == streams[Top.own].whole /\ Top.inputPos = streams[Top.own].start
<1> DEFINE e == [pos |-> 0, start |-> 0, whole |-> whole]
<1>3. /\ t \in Seq(Stream) /\ Len(t) = Len(streams)
      /\ \A k \in 1 .. Len(streams) : t[k].start = streams[k].start /\ t[k].whole = streams[k].whole
  <2>1. [streams[Top.own] EXCEPT !.pos = Length] \in Stream
    BY <1>1, <1>2, Positions DEF Stream
  <2>2. /\ t \in Seq(Stream) /\ Len(t) = Len(streams)
        /\ t[Top.own] = [streams[Top.own] EXCEPT !.pos = Length]
        /\ \A k \in 1 .. Len(streams) : k # Top.own => t[k] = streams[k]
    BY <1>2, <2>1, ExceptSeq DEF Seek
  <2>3. t[Top.own].start = streams[Top.own].start /\ t[Top.own].whole = streams[Top.own].whole
    BY <1>2, <2>2 DEF Stream
  <2> QED BY <2>2, <2>3
<1>4. e \in Stream /\ e.start = 0 /\ e.whole = whole
  <2>1. whole \in BOOLEAN
    BY Zenon
  <2>2. 0 \in 0 .. Length
    BY RequestAssumption
  <2> HIDE DEF whole
  <2> QED BY <2>1, <2>2 DEF Stream
<1>5. streams' = Append(t, e)
  BY DEF PrepareTransformed, Transformed
<1> HIDE DEF t, e
<1>6. /\ streams' \in Seq(Stream) /\ Len(streams') = Len(streams) + 1
      /\ streams'[Len(streams) + 1] = e
      /\ \A k \in 1 .. Len(streams) : streams'[k] = t[k]
  BY <1>3, <1>4, <1>5, AppendFacts
<1>7. Rewinds => whole
  <2>1. ASSUME Rewinds
        PROVE  streams[Top.own].whole /\ Top.inputPos = streams[Top.own].start
    BY <1>2, <2>1 DEF FrameOK, Sought, IInv, StreamsOK
  <2> QED BY <2>1
<1> HIDE DEF whole
<1>8. StreamsOK'
  <2>1. Rewinds' = Rewinds /\ config' = config
    BY <1>1 DEF Rewinds, IsStore
  <2>2. \A k \in 1 .. Len(streams) + 1 : k \in 1 .. Len(streams) \/ k = Len(streams) + 1
    BY <1>2
  <2>3. ASSUME Rewinds, NEW k \in 1 .. Len(streams)
        PROVE  streams'[k].whole /\ (config.entry = 0 => streams'[k].start = 0)
    BY <1>3, <1>6, <2>3 DEF IInv, StreamsOK
  <2>4. Rewinds => streams'[Len(streams) + 1].whole /\ streams'[Len(streams) + 1].start = 0
    BY <1>4, <1>6, <1>7
  <2> QED BY <1>6, <2>1, <2>2, <2>3, <2>4 DEF StreamsOK
<1>9. Keeps(Len(streams))
  <2>1. Len(streams) <= Len(streams') /\ Len(streams) <= Len(streams)
    BY <1>2, <1>6
  <2>2. \A k \in 1 .. Len(streams) : streams'[k].start = streams[k].start
    BY <1>3, <1>6
  <2>3. /\ served' = served /\ served \subseteq Nodes
        /\ calls' = calls /\ calls \in [Nodes -> Nat]
        /\ stored' = stored /\ stored \in [Nodes -> Nat]
        /\ result' = result /\ result \in Results
    BY <1>1 DEF history, IInv, Types
  <2>4. /\ \A m \in Nodes : calls[m] <= calls'[m]
        /\ \A m \in Nodes : stored[m] <= stored'[m]
    BY <2>3
  <2> QED BY <1>1, <1>6, <1>8, <2>1, <2>2, <2>3, <2>4 DEF Keeps
<1>10. PICK f : f = [Top EXCEPT !.phase = ph, !.use = Len(streams) + 1]
  OBVIOUS
<1>11. /\ f \in Frame /\ f.node = Top.node /\ f.own = Top.own /\ f.below = Top.below
       /\ f.inputPos = Top.inputPos /\ f.next = Top.next /\ f.attempt = Top.attempt
       /\ f.phase = ph /\ f.use = Len(streams) + 1
  <2>1. Len(streams) + 1 \in Nat \ {0} /\ ph \in Phases
    BY <1>2 DEF Phases
  <2> QED BY <1>2, <1>10, <2>1 DEF Frame
<1>12. FrameOK(f)'
  <2>1. config' = config /\ Rewinds' = Rewinds
    BY <1>1 DEF Rewinds, IsStore
  <2>2. /\ Top.own <= Len(streams) + 1 /\ Top.below <= Len(streams) + 1
        /\ Len(streams) + 1 <= Len(streams) + 1 /\ f.own # f.use /\ f.own \in 1 .. Len(streams)
    BY <1>1, <1>2, <1>11, TopFacts DEF Frame
  <2>3. Fits(f)'
    BY <1>2, <1>6, <1>11, <2>1, <2>2 DEF FrameOK, Fits, InLoop, RoutesOf
  <2>4. Reached(f)' /\ Tried(f)' /\ Justified(f)'
    BY <1>11 DEF Reached, Tried, Justified, InLoop
  <2>5. Sought(f)'
    <3>1. Rewinds => f.inputPos = streams'[f.own].start
      BY <1>2, <1>9, <1>11, <2>2 DEF FrameOK, Sought, Keeps
    <3>2. streams'[f.use].start = 0
      BY <1>4, <1>6, <1>11
    <3> QED BY <1>11, <2>1, <3>1, <3>2 DEF Sought
  <2> QED BY <2>3, <2>4, <2>5 DEF FrameOK
<1>13. Become(f)
  BY <1>10 DEF PrepareTransformed
<1> QED BY <1>1, <1>9, <1>11, <1>12, <1>13, TopBecomes DEF history

\* Where a call seeks its stream to, that stream begins.
LEMMA RetryPosFacts ==
  ASSUME IInv, Depth > 0, Rewinds
  PROVE  RetryPos(Top) = streams[Top.use].start
  BY TopFacts DEF FrameOK, Sought, RetryPos

\* Attempt: StoreImpl finds the stream at its beginning, and a router starts
\* its loop.
LEMMA AttemptKeeps ==
  ASSUME IInv, Attempt PROVE IInv'
<1>1. Depth > 0 /\ UNCHANGED <<config, result, history>>
  BY DEF Attempt
<1>2. /\ FrameOK(Top) /\ Top \in Frame /\ Top.own \in 1 .. Len(streams)
      /\ Top.use \in 1 .. Len(streams) /\ RetryPos(Top) \in 0 .. Length
      /\ Len(streams) \in Nat
  BY <1>1, TopFacts, Positions DEF Frame
<1>3. streams' = IF IsStore THEN Seek(Top.use, RetryPos(Top)) ELSE streams
  BY DEF Attempt
<1>4. /\ Keeps(Len(streams)) /\ Len(streams') = Len(streams)
      /\ \A j \in 1 .. Len(streams) : streams'[j].start = streams[j].start
      /\ IsStore => streams'[Top.use].pos = RetryPos(Top)
  BY <1>1, <1>2, <1>3, SeekKeeps DEF history
<1>5. PICK ph : ph = IF Top.node \in config.routers THEN "routing" ELSE "impl"
  OBVIOUS
<1>6. PICK f : f = [Top EXCEPT !.phase = ph, !.next = 1, !.criticalFailed = FALSE, !.success = FALSE]
  OBVIOUS
<1>7. /\ f \in Frame /\ f.node = Top.node /\ f.own = Top.own /\ f.below = Top.below
      /\ f.use = Top.use /\ f.inputPos = Top.inputPos /\ f.next = 1
      /\ f.attempt = Top.attempt /\ f.phase = ph /\ ~f.criticalFailed /\ ~f.success
  <2>1. ph \in Phases /\ 1 \in Nat \ {0}
    BY <1>5 DEF Phases
  <2>2. /\ f.node = Top.node /\ f.own = Top.own /\ f.below = Top.below
        /\ f.use = Top.use /\ f.inputPos = Top.inputPos /\ f.next = 1
        /\ f.attempt = Top.attempt /\ f.phase = ph
    BY <1>2, <1>6 DEF Frame
  <2>3. f.criticalFailed = FALSE /\ f.success = FALSE
    BY <1>2, <1>6, Zenon DEF Frame
  <2>4. f \in Frame
    BY <1>2, <1>6, <2>1, Zenon DEF Frame
  <2> QED BY <2>2, <2>3, <2>4
<1>8. Become(f)
  BY <1>5, <1>6 DEF Attempt
<1>9. Fits(f)'
  <2>1. Len(RoutesOf(f)) \in Nat /\ RoutesOf(f)' = RoutesOf(f)
    BY <1>1, <1>7, RouteFacts DEF IInv, RoutesOf, Frame
  <2>2. 1 <= Len(RoutesOf(f)) + 1
    BY <2>1
  <2>3. InLoop(f) => f.node \in config.routers
    BY <1>5, <1>7 DEF InLoop
  <2>4. f.phase # "calling"
    BY <1>5, <1>7
  <2> QED BY <1>1, <1>2, <1>4, <1>7, <2>1, <2>2, <2>3, <2>4 DEF FrameOK, Fits, InLoop
<1>10. Reached(f)' /\ Tried(f)' /\ Justified(f)'
  <2>1. f.phase \in {"routing", "impl"} /\ \A i : i \notin Seen(f)
    BY <1>5, <1>7 DEF Seen
  <2> QED BY <1>7, <2>1 DEF Reached, Tried, Justified, Seen
<1>11. Sought(f)'
  <2>1. Rewinds' = Rewinds
    BY <1>1 DEF Rewinds, IsStore
  <2>2. Rewinds => streams'[f.use].pos = streams'[f.use].start
    BY <1>1, <1>2, <1>4, <1>7, RetryPosFacts DEF Rewinds
  <2>3. Rewinds => /\ f.inputPos = streams'[f.own].start
                   /\ f.use # f.own => streams'[f.use].start = 0
    BY <1>2, <1>4, <1>7 DEF FrameOK, Sought
  <2> QED BY <2>1, <2>2, <2>3 DEF Sought
<1>12. FrameOK(f)'
  BY <1>9, <1>10, <1>11 DEF FrameOK
<1> QED BY <1>1, <1>4, <1>7, <1>8, <1>12, TopBecomes DEF history

\* LeafSucceeds, LeafThrows: a leaf that succeeds has stored.
LEMMA LeafKeeps ==
  ASSUME IInv, LeafSucceeds \/ LeafThrows PROVE IInv'
<1>1. /\ Depth > 0 /\ UNCHANGED <<config, result, served, calls>>
      /\ streams' = streams \/ \E p \in 0 .. Length : streams' = Seek(Top.use, p)
  <2>1. Depth > 0 /\ UNCHANGED <<config, result, served, calls>> /\ Reads
    BY DEF LeafSucceeds, LeafThrows, InLeaf, history
  <2>2. streams[Top.use].pos \in 0 .. Length /\ Length \in Nat
    BY <2>1, Positions, RequestAssumption
  <2>3. PICK p \in streams[Top.use].pos .. Length :
          streams' = IF IsStore THEN Seek(Top.use, p) ELSE streams
    BY <2>1 DEF Reads
  <2>4. p \in 0 .. Length
    BY <2>2
  <2> QED BY <2>1, <2>3, <2>4
<1>2. PICK n \in Nodes : n = Top.node
  BY <1>1, TopFacts DEF Frame
<1>3. CASE LeafSucceeds
  <2>1. stored' = Count(stored, n)
    BY <1>2, <1>3 DEF LeafSucceeds
  <2>2. Keeps(Len(streams))
    BY <1>1, <2>1, TopKeeps
  <2>3. Backed(n)'
    <3>1. stored'[n] = stored[n] + 1 /\ stored[n] \in Nat
      BY <2>1 DEF IInv, Types, Count
    <3>2. stored'[n] > 0
      BY <3>1
    <3> QED BY <3>2 DEF Backed
  <2>4. MoveTo("true")
    BY <1>3 DEF LeafSucceeds
  <2> QED BY <1>1, <1>2, <2>2, <2>3, <2>4, TopMovesTo DEF Phases
<1>4. CASE LeafThrows
  <2>1. stored' = stored /\ Become(AfterFailedAttempt(Top))
    BY <1>4 DEF LeafThrows, history
  <2>2. Keeps(Len(streams))
    BY <1>1, <2>1, TopKeeps
  <2> QED BY <1>1, <2>1, <2>2, AttemptFails
<1> QED BY <1>3, <1>4

\* RouterReturns: the loop has been through all the routes, and what it knows of
\* them is enough.  RouterThrows is a failed attempt.
LEMMA RoutesDoneKeeps ==
  ASSUME IInv, RouterReturns \/ RouterThrows PROVE IInv'
<1>1. Depth > 0 /\ Top.phase = "routing" /\ UNCHANGED <<config, streams, result, history>>
  BY DEF RouterReturns, RouterThrows, RoutesDone, Routing
<1>2. Keeps(Len(streams))
  BY <1>1, TopKeeps DEF history
<1>3. FrameOK(Top) /\ Top \in Frame
  BY <1>1, TopFacts
<1>4. PICK n \in Nodes : n = Top.node
  BY <1>3 DEF Frame
<1>5. CASE RouterReturns
  <2>1. Top.next = Len(Destinations) + 1
    <3>1. /\ Top.next > Len(Destinations) /\ Top.next <= Len(Destinations) + 1
          /\ Top.next \in Nat
      BY <1>3, <1>5 DEF RouterReturns, RoutesDone, FrameOK, Fits, RoutesOf, Destinations, Frame
    <3>2. Len(Destinations) \in Nat
      BY <1>3, RouteFacts DEF IInv, RoutesOf, Destinations, Frame
    <3> QED BY <3>1, <3>2
  <2>2. Seen(Top) = DOMAIN Destinations
    <3>1. Len(Destinations) \in Nat /\ DOMAIN Destinations = 1 .. Len(Destinations)
      BY <1>3, RouteFacts DEF IInv, RoutesOf, Destinations, Frame
    <3> QED BY <2>1, <3>1 DEF Seen
  <2>3. Top.node \in config.routers /\ Reached(Top)
    BY <1>1, <1>3 DEF FrameOK, Fits, InLoop
  <2>4. Destinations = <<>> \/ (~Top.criticalFailed /\ Top.success)
    BY <1>5 DEF RouterReturns, RouterFails
  <2>5. Destinations = <<>> => DOMAIN Destinations = {}
    OBVIOUS
  <2>6. Backed(n)
    BY <1>1, <1>4, <2>2, <2>3, <2>4, <2>5 DEF Backed, Reached, InLoop, RoutesOf, Destinations
  <2>7. Backed(n)'
    BY <1>1, <2>6 DEF Backed, history
  <2>8. MoveTo("true")
    BY <1>5 DEF RouterReturns
  <2> QED BY <1>1, <1>2, <1>4, <2>7, <2>8, TopMovesTo DEF history, Phases
<1>6. CASE RouterThrows
  BY <1>1, <1>2, <1>6, AttemptFails DEF RouterThrows, history
<1> QED BY <1>5, <1>6

\* Throw, HandleResultThrows: a call that throws owes nothing.
LEMMA ThrowsKeeps ==
  ASSUME IInv, Throw \/ HandleResultThrows PROVE IInv'
<1>1. /\ Depth > 0 /\ UNCHANGED <<config, streams, result, history>> /\ MoveTo("threw")
  BY DEF Throw, HandleResultThrows, Failed
<1>2. Keeps(Len(streams))
  BY <1>1, TopKeeps DEF history
<1>3. PICK n : n = Top.node
  OBVIOUS
<1> QED BY <1>1, <1>2, <1>3, TopMovesTo DEF history, Phases
-----------------------------------------------------------------------------
\* SkipRoute: the route is not critical, and criticals is all there is left to do.
LEMMA SkipRouteKeeps ==
  ASSUME IInv, SkipRoute PROVE IInv'
<1>1. /\ Depth > 0 /\ Top.phase = "routing" /\ UNCHANGED <<config, streams, result, history>>
      /\ Top.criticalFailed /\ Behaves(Top, "finishCriticals")
      /\ Top.next <= Len(RoutesOf(Top)) /\ ~RoutesOf(Top)[Top.next].critical
  BY DEF SkipRoute, Routing, ProcessOnlyCriticals, Destinations, RoutesOf
<1>2. Keeps(Len(streams))
  BY <1>1, TopKeeps DEF history
<1>3. PICK g : g = Top
  OBVIOUS
<1>4. PICK k \in Nat : k = Len(streams)
  BY <1>1, TopFacts
<1>5. /\ FrameOK(g) /\ g \in Frame /\ g.own <= k /\ g.use <= k /\ g.below <= k
  BY <1>1, <1>3, <1>4, TopFacts
<1>6. PICK f : f = [g EXCEPT !.next = @ + 1]
  OBVIOUS
<1>7. /\ f \in Frame /\ f.node = g.node /\ f.own = g.own /\ f.use = g.use
      /\ f.below = g.below /\ f.inputPos = g.inputPos /\ f.attempt = g.attempt
      /\ f.phase = g.phase /\ f.next = g.next + 1
      /\ f.success = g.success /\ f.criticalFailed = g.criticalFailed
  BY <1>5, <1>6 DEF Frame
<1>8. Behaves(f, "finishCriticals") = Behaves(g, "finishCriticals")
  BY <1>7 DEF Behaves
<1>9. FrameOK(f)'
  <2>1. InLoop(g) /\ f.phase = "routing" /\ g.criticalFailed /\ f.criticalFailed
    BY <1>1, <1>3, <1>7 DEF InLoop
  <2>2. ~(RoutesOf(g)[g.next].critical \/ ~(f.criticalFailed /\ Behaves(f, "finishCriticals")))
    BY <1>1, <1>3, <1>8, <2>1
  <2>3. g.next <= Len(RoutesOf(g)) /\ Types
    BY <1>1, <1>3 DEF IInv
  <2> QED BY <1>2, <1>4, <1>5, <1>7, <2>1, <2>2, <2>3, LoopGoesOn
<1>10. Become(f)
  BY <1>3, <1>6 DEF SkipRoute
<1> QED BY <1>1, <1>2, <1>3, <1>7, <1>9, <1>10, TopBecomes DEF history

\* The call that is made finds its stream where it begins.
LEMMA CalledFacts ==
  ASSUME IInv, Keeps(Len(streams)), Len(streams') = Len(streams),
         NEW n \in Nodes, NEW k \in 1 .. Len(streams), NEW p \in 0 .. Length,
         Rewinds => p = streams[k].start, NEW g, g = Called(n, k, p)
  PROVE  FrameOK(g)' /\ g \in Frame /\ g.node = n /\ g.below = Len(streams)
<1>1. Len(streams) \in Nat /\ Len(streams) > 0 /\ config' = config
  <2>1. Len(streams) \in Nat
    BY LenProperties DEF IInv, Types
  <2> QED BY <2>1 DEF Keeps
<1>2. /\ g.node = n /\ g.phase = "enter" /\ g.own = k /\ g.use = k
      /\ g.below = Len(streams) /\ g.inputPos = p /\ g.attempt = 1 /\ g.next = 1
  BY DEF Called
<1>3. g \in Frame
  <2>1. /\ k \in Nat \ {0} /\ Len(streams) \in Nat \ {0} /\ 1 \in Nat \ {0}
        /\ "enter" \in Phases
    BY <1>1 DEF Phases
  <2> QED BY <2>1, Zenon DEF Called, Frame
<1>4. Fits(g)'
  <2>1. Len(RoutesOf(g)) \in Nat /\ RoutesOf(g)' = RoutesOf(g)
    BY <1>1, <1>2, RouteFacts DEF IInv, RoutesOf
  <2>2. config.retries[n] \in Nat
    BY ConfigFacts DEF IInv, Types
  <2>3. /\ g.attempt <= config.retries[g.node] + 1 /\ g.next <= Len(RoutesOf(g)) + 1
        /\ g.own <= Len(streams) /\ g.use <= Len(streams) /\ g.below <= Len(streams)
    BY <1>1, <1>2, <2>1, <2>2
  <2> QED BY <1>1, <1>2, <1>3, <2>1, <2>3 DEF Fits, InLoop
<1>5. Reached(g)' /\ Tried(g)' /\ Justified(g)'
  BY <1>2 DEF Reached, Tried, Justified, InLoop
<1>6. Sought(g)'
  <2>1. Rewinds' = Rewinds
    BY <1>1 DEF Rewinds, IsStore
  <2> QED BY <1>2, <2>1 DEF Sought, Keeps
<1> QED BY <1>2, <1>3, <1>4, <1>5, <1>6 DEF FrameOK

\* CallRoute: every route finds the stream where the router found it.
LEMMA CallRouteKeeps ==
  ASSUME IInv, CallRoute PROVE IInv'
<1>1. /\ Depth > 0 /\ Top.phase = "routing" /\ UNCHANGED <<config, result, served, stored>>
      /\ Top.next <= Len(RoutesOf(Top))
  BY DEF CallRoute, Routing, Destinations, RoutesOf
<1>2. PICK t : t = Top
  OBVIOUS
<1>3. PICK l \in Nat : l = Len(streams)
  BY <1>1, TopFacts
<1>4. /\ FrameOK(t) /\ t \in Frame /\ t.own \in 1 .. l /\ t.use \in 1 .. l
      /\ t.own <= l /\ t.use <= l /\ t.below <= l
  BY <1>1, <1>2, <1>3, TopFacts DEF Frame
<1>5. PICK n \in Nodes : n = RoutesOf(t)[t.next].node
  BY <1>1, <1>2, <1>4, RouteFacts DEF IInv, Frame
<1>6. PICK p \in 0 .. Length : p = IF IsStore THEN RetryPos(Top) ELSE streams[Top.use].pos
  BY <1>1, Positions
<1>7. PICK f : f = [t EXCEPT !.phase = "calling"]
  OBVIOUS
<1>8. PICK g : g = Called(n, t.use, p)
  OBVIOUS
<1>9. /\ stack' = Append([stack EXCEPT ![Depth] = f], g)
      /\ streams' = Seek(t.use, p) /\ calls' = Count(calls, n)
  BY <1>2, <1>5, <1>6, <1>7, <1>8 DEF CallRoute, CallFrom, Destinations, RoutesOf
<1>10. Keeps(l) /\ Len(streams') = l
  BY <1>1, <1>3, <1>4, <1>9, SeekKeeps
<1>11. /\ f \in Frame /\ f.node = t.node /\ f.own = t.own /\ f.use = t.use
       /\ f.below = t.below /\ f.inputPos = t.inputPos /\ f.attempt = t.attempt
       /\ f.phase = "calling" /\ f.next = t.next
       /\ f.success = t.success /\ f.criticalFailed = t.criticalFailed
  BY <1>4, <1>7 DEF Frame, Phases
<1>12. FrameOK(g)' /\ g \in Frame /\ g.node = n /\ g.below = l
  <2>1. Rewinds => p = streams[t.use].start
    BY <1>1, <1>2, <1>6, RetryPosFacts DEF Rewinds
  <2> QED BY <1>3, <1>4, <1>8, <1>10, <2>1, CalledFacts
<1>13. FrameOK(f)'
  <2>1. FrameOK(t)'
    BY <1>1, <1>2, <1>4, <1>10, FrameStays DEF IInv
  <2>2. t.phase = "routing" /\ config' = config
    BY <1>1, <1>2
  <2>3. Fits(f)'
    BY <1>1, <1>2, <1>11, <2>1, <2>2 DEF FrameOK, Fits, InLoop, RoutesOf
  <2>4. Reached(f)'
    BY <1>11, <2>1, <2>2 DEF FrameOK, Reached, InLoop, RoutesOf, Seen
  <2>5. Tried(f)'
    <3>1. calls'[n] > 0
      BY <1>9 DEF IInv, Types, Count
    <3>2. RoutesOf(f)' = RoutesOf(t) /\ RoutesOf(f)'[f.next].node = n
      BY <1>5, <1>11, <2>2 DEF RoutesOf
    <3>3. (RoutesOf(t)' = RoutesOf(t)) /\ (Behaves(f, "finishCriticals")' = Behaves(t, "finishCriticals")')
      BY <1>11, <2>2 DEF RoutesOf, Behaves
    <3>4. Tried(t)' /\ InLoop(t) /\ Seen(f) = Seen(t)
      BY <1>11, <2>1, <2>2 DEF FrameOK, InLoop, Seen
    <3> QED BY <1>11, <3>1, <3>2, <3>3, <3>4 DEF Tried, InLoop
  <2>6. Justified(f)' /\ Sought(f)'
    BY <1>11, <2>1, <2>2 DEF FrameOK, Justified, Sought
  <2> QED BY <2>3, <2>4, <2>5, <2>6 DEF FrameOK
<1>14. Waits(f, g)
  BY <1>5, <1>11, <1>12 DEF Waits, RoutesOf
<1> QED BY <1>1, <1>2, <1>3, <1>9, <1>10, <1>11, <1>12, <1>13, <1>14, CallIsMade

\* Forward: the node it forwards to finds the stream where the call found it.
LEMMA ForwardKeeps ==
  ASSUME IInv, Forward PROVE IInv'
<1>1. /\ Depth > 0 /\ Top.phase = "failed" /\ UNCHANGED <<config, result, served, stored>>
      /\ config.forward[Top.node] # NoNode
  BY DEF Forward, Failed
<1>2. PICK t : t = Top
  OBVIOUS
<1>3. PICK l \in Nat : l = Len(streams)
  BY <1>1, TopFacts
<1>4. /\ FrameOK(t) /\ t \in Frame /\ t.own \in 1 .. l /\ t.use \in 1 .. l
      /\ t.own <= l /\ t.use <= l /\ t.below <= l
  BY <1>1, <1>2, <1>3, TopFacts DEF Frame
<1>5. PICK n \in Nodes : n = config.forward[t.node]
  BY <1>1, <1>2, <1>4, ConfigFacts DEF IInv, Types, Frame
<1> DEFINE transformed == t.node \in config.forwardsTransformed
<1>6. PICK k \in 1 .. l : k = IF transformed THEN t.use ELSE t.own
  BY <1>4
<1>7. PICK q \in 0 .. Length : q = IF transformed THEN 0 ELSE t.inputPos
  BY <1>1, <1>2, Positions
<1>8. PICK p \in 0 .. Length : p = IF IsStore THEN q ELSE streams[k].pos
  <2>1. streams[k] \in Stream
    BY <1>3, <1>6, ElementOfSeq DEF IInv, Types
  <2> QED BY <2>1 DEF Stream
<1>9. PICK f : f = [t EXCEPT !.phase = "forwarding"]
  OBVIOUS
<1>10. PICK g : g = Called(n, k, p)
  OBVIOUS
<1>11. /\ stack' = Append([stack EXCEPT ![Depth] = f], g)
       /\ streams' = Seek(k, p) /\ calls' = Count(calls, n)
  BY <1>2, <1>5, <1>6, <1>7, <1>8, <1>9, <1>10 DEF Forward, CallFrom
<1>12. Keeps(l) /\ Len(streams') = l
  BY <1>1, <1>3, <1>6, <1>11, SeekKeeps
<1>13. /\ f \in Frame /\ f.node = t.node /\ f.own = t.own /\ f.use = t.use
       /\ f.below = t.below /\ f.inputPos = t.inputPos /\ f.attempt = t.attempt
       /\ f.phase = "forwarding" /\ f.next = t.next
  BY <1>4, <1>9 DEF Frame, Phases
<1>14. FrameOK(g)' /\ g \in Frame /\ g.node = n /\ g.below = l
  <2>1. ASSUME Rewinds PROVE p = streams[k].start
    <3>1. p = q
      BY <1>8, <2>1 DEF Rewinds
    <3>2. CASE transformed
      <4>1. config.entry = 0 /\ streams[k].start = 0
        BY <1>3, <2>1, <3>2 DEF Rewinds, IInv, StreamsOK
      <4> QED BY <1>7, <3>1, <3>2, <4>1
    <3>3. CASE ~transformed
      BY <1>4, <1>6, <1>7, <2>1, <3>1, <3>3 DEF FrameOK, Sought
    <3> QED BY <3>2, <3>3
  <2> QED BY <1>3, <1>10, <1>12, <2>1, CalledFacts
<1>15. FrameOK(f)'
  <2>1. Justified(f)'
    BY <1>13 DEF Justified
  <2>2. f.attempt <= config.retries[f.node] + 1
    BY <1>4, <1>13 DEF FrameOK, Fits
  <2>3. f.phase \notin {"routing", "calling", "impl"}
    BY <1>13
  <2> QED BY <1>4, <1>12, <1>13, <2>1, <2>2, <2>3, MovesOn DEF IInv
<1>16. Waits(f, g)
  BY <1>5, <1>13, <1>14 DEF Waits
<1> QED BY <1>1, <1>2, <1>3, <1>11, <1>12, <1>13, <1>14, <1>15, <1>16, CallIsMade
-----------------------------------------------------------------------------
\* A call that is over goes into the client's books with what backs it.
LEMMA ServedIsBacked ==
  ASSUME IInv, NEW k \in Nat, Keeps(k), NEW n \in Nodes, served' = served \cup {n},
         RetriesFit => Backed(n),
         result' = result \/ (result' \in {"true", "false"} => n = config.root)
  PROVE  Answered'
<1>1. config' = config /\ RetriesFit' = RetriesFit /\ Types
  BY DEF Keeps, RetriesFit, IInv
<1>2. ASSUME RetriesFit, NEW m \in served' PROVE Backed(m)'
  <2>1. Backed(m) /\ m \in Nodes
    BY <1>2 DEF IInv, Answered, ReturnsOnlyWhenBacked, Types
  <2> QED BY <1>1, <2>1, BackedStays
<1>3. ASSUME RetriesFit, result' \in {"true", "false"} PROVE config.root \in served'
  BY <1>3 DEF IInv, Answered, ReturnsOnlyWhenBacked
<1> QED BY <1>1, <1>2, <1>3 DEF Answered, ReturnsOnlyWhenBacked

\* What is left of the streams when a call ends, and what a caller that waited
\* for it can rely on.
LEMMA Resumes ==
  ASSUME IInv, Depth > 1, streams' = SubSeq(streams, 1, Top.below),
         UNCHANGED <<config, result, calls, stored>>,
         \/ served' = served
         \/ Top.phase \in {"true", "false"} /\ served' = served \cup {Top.node}
  PROVE  Keeps(Top.below) /\ Answered'
<1>1. Keeps(Top.below)
  BY StreamsLeft
<1>2. Depth > 0 /\ Top.below \in Nat
  <2>1. Depth \in Nat
    BY LenProperties DEF IInv, Types, Depth
  <2> QED BY <2>1, CallerFacts
<1>3. CASE served' = served
  BY <1>1, <1>2, <1>3, AnswerStays
<1>4. CASE Top.phase \in {"true", "false"} /\ served' = served \cup {Top.node}
  <2>1. Top.node \in Nodes /\ (RetriesFit => Backed(Top.node))
    BY <1>2, <1>4, TopFacts DEF FrameOK, Justified, Frame
  <2>2. PICK n \in Nodes : n = Top.node
    BY <2>1
  <2> QED BY <1>1, <1>2, <1>4, <2>1, <2>2, ServedIsBacked
<1> QED BY <1>1, <1>3, <1>4

\* RouteReturns, RouteThrows: the router goes on to its next route.
LEMMA RouteEndsKeeps ==
  ASSUME IInv, RouteReturns \/ RouteThrows PROVE IInv'
<1>1. /\ Depth > 1 /\ Caller.phase = "calling"
      /\ streams' = SubSeq(streams, 1, Top.below)
      /\ UNCHANGED <<config, result, calls, stored>>
      /\ \/ served' = served
         \/ Top.phase \in {"true", "false"} /\ served' = served \cup {Top.node}
  BY DEF RouteReturns, RouteThrows, Ended, ResumeAs, history
<1>2. Keeps(Top.below) /\ Answered'
  BY <1>1, Resumes
<1>3. PICK k \in Nat : k = Top.below
  BY <1>1, CallerFacts
<1>4. PICK g : g = Caller
  OBVIOUS
<1>5. /\ FrameOK(g) /\ g \in Frame /\ Waits(g, Top)
      /\ g.own <= k /\ g.use <= k /\ g.below <= k /\ g.phase = "calling" /\ InLoop(g)
  BY <1>1, <1>3, <1>4, CallerFacts DEF InLoop
<1>6. /\ g.next <= Len(RoutesOf(g)) /\ calls'[RoutesOf(g)[g.next].node] > 0
  BY <1>1, <1>5 DEF FrameOK, Fits, Tried
<1>7. PICK c \in BOOLEAN : c = RoutesOf(g)[g.next].critical
  <2>1. g.next \in 1 .. Len(RoutesOf(g)) /\ g.node \in Nodes
    BY <1>5, <1>6, RouteFacts DEF IInv, Frame
  <2> QED BY <2>1, RouteFacts DEF IInv
<1>8. ASSUME NEW f \in Frame, f.node = g.node, f.own = g.own, f.use = g.use,
             f.below = g.below, f.inputPos = g.inputPos, f.attempt = g.attempt,
             f.phase = "routing", f.next = g.next + 1,
             f.success => (g.success \/ RoutesOf(g)[g.next].node \in served'),
             ~f.criticalFailed =>
               /\ ~g.criticalFailed
               /\ RoutesOf(g)[g.next].critical => RoutesOf(g)[g.next].node \in served',
             g.criticalFailed => f.criticalFailed,
             ResumeAs(f)
      PROVE  IInv'
  <2>1. FrameOK(f)'
    BY <1>2, <1>3, <1>5, <1>6, <1>8, LoopGoesOn DEF IInv
  <2> QED BY <1>1, <1>2, <1>4, <1>8, <2>1, CallEnds
<1>9. CASE RouteReturns
  <2>1. PICK f : f = [g EXCEPT !.phase = "routing", !.next = @ + 1, !.success = TRUE]
    OBVIOUS
  <2>2. /\ f.node = g.node /\ f.own = g.own /\ f.use = g.use
        /\ f.below = g.below /\ f.inputPos = g.inputPos /\ f.attempt = g.attempt
        /\ f.phase = "routing" /\ f.next = g.next + 1
        /\ f.criticalFailed = g.criticalFailed
    BY <1>5, <2>1 DEF Frame
  <2>3. f \in Frame
    <3>1. g.next + 1 \in Nat \ {0} /\ "routing" \in Phases
      BY <1>5 DEF Frame, Phases
    <3> QED BY <1>5, <2>1, <3>1, Zenon DEF Frame
  <2>4. RoutesOf(g)[g.next].node \in served'
    BY <1>5, <1>9 DEF RouteReturns, Waits
  <2>5. ResumeAs(f)
    BY <1>4, <1>9, <2>1 DEF RouteReturns
  <2> QED BY <1>8, <2>2, <2>3, <2>4, <2>5
<1>10. CASE RouteThrows
  <2>1. PICK f : f = [g EXCEPT !.phase = "routing", !.next = @ + 1,
                               !.criticalFailed = @ \/ c]
    OBVIOUS
  <2>2. /\ f.node = g.node /\ f.own = g.own /\ f.use = g.use
        /\ f.below = g.below /\ f.inputPos = g.inputPos /\ f.attempt = g.attempt
        /\ f.phase = "routing" /\ f.next = g.next + 1 /\ f.success = g.success
    BY <1>5, <2>1 DEF Frame
  <2>3. f.criticalFailed = (g.criticalFailed \/ c)
    BY <1>5, <2>1, Zenon DEF Frame
  <2>4. f \in Frame
    <3>1. g.next + 1 \in Nat \ {0} /\ "routing" \in Phases
      BY <1>5 DEF Frame, Phases
    <3>2. (g.criticalFailed \/ c) \in BOOLEAN
      BY Zenon
    <3> QED BY <1>5, <2>1, <3>1, <3>2, Zenon DEF Frame
  <2>5. ResumeAs(f)
    <3>1. c = CriticalRoute
      BY <1>4, <1>7 DEF CriticalRoute, RoutesOf
    <3> QED BY <1>4, <1>10, <2>1, <3>1 DEF RouteThrows
  <2> QED BY <1>7, <1>8, <2>2, <2>3, <2>4, <2>5
<1> QED BY <1>9, <1>10

\* StopAtRoute, ForwardReturns, ForwardThrows: the caller is done with its loop,
\* or with the call it forwarded to.
LEMMA CallerLeavesKeeps ==
  ASSUME IInv, StopAtRoute \/ ForwardReturns \/ ForwardThrows PROVE IInv'
<1>1. /\ Depth > 1
      /\ streams' = SubSeq(streams, 1, Top.below)
      /\ UNCHANGED <<config, result, calls, stored>>
      /\ \/ served' = served
         \/ Top.phase \in {"true", "false"} /\ served' = served \cup {Top.node}
  BY DEF StopAtRoute, ForwardReturns, ForwardThrows, Ended, ResumeAs, history
<1>2. Keeps(Top.below) /\ Answered'
  BY <1>1, Resumes
<1>3. PICK k \in Nat : k = Top.below
  BY <1>1, CallerFacts
<1>4. PICK g : g = Caller
  OBVIOUS
<1>5. /\ FrameOK(g) /\ g \in Frame /\ Waits(g, Top)
      /\ g.own <= k /\ g.use <= k /\ g.below <= k
      /\ g.attempt <= config.retries[g.node] + 1 /\ Fits(g)
  BY <1>1, <1>3, <1>4, CallerFacts DEF FrameOK, Fits
<1>6. ASSUME NEW f \in Frame, f.node = g.node, f.own = g.own, f.use = g.use,
             f.below = g.below, f.inputPos = g.inputPos, f.next = g.next,
             f.attempt <= config.retries[f.node] + 1,
             f.phase \in {"attempt", "failed", "true", "false", "threw"},
             Justified(f)', ResumeAs(f)
      PROVE  IInv'
  <2>1. f.phase \notin {"routing", "calling", "impl"}
    BY <1>6
  <2>2. FrameOK(f)'
    BY <1>2, <1>3, <1>5, <1>6, <2>1, MovesOn DEF IInv
  <2> QED BY <1>1, <1>2, <1>4, <1>6, <2>2, CallEnds
<1>7. CASE StopAtRoute
  <2>1. PICK f : f = AfterFailedAttempt(g)
    OBVIOUS
  <2>2. /\ f \in Frame /\ f.node = g.node /\ f.own = g.own /\ f.use = g.use
        /\ f.below = g.below /\ f.inputPos = g.inputPos /\ f.next = g.next
        /\ f.attempt <= config.retries[f.node] + 1
        /\ f.phase \in {"attempt", "failed"}
    BY <1>5, <2>1, AfterFailedAttemptFacts DEF IInv
  <2>3. Justified(f)'
    BY <2>2 DEF Justified
  <2>4. ResumeAs(f)
    BY <1>4, <1>7, <2>1 DEF StopAtRoute
  <2> QED BY <1>6, <2>2, <2>3, <2>4
<1>8. CASE ForwardReturns
  <2>1. PICK f : f = [g EXCEPT !.phase = "false"]
    OBVIOUS
  <2>2. /\ f \in Frame /\ f.node = g.node /\ f.own = g.own /\ f.use = g.use
        /\ f.below = g.below /\ f.inputPos = g.inputPos /\ f.next = g.next
        /\ f.attempt = g.attempt /\ f.phase = "false"
    BY <1>5, <2>1 DEF Frame, Phases
  <2>3. Justified(f)'
    <3>1. config.forward[f.node] \in served' /\ config' = config
      BY <1>4, <1>5, <1>8, <2>2 DEF ForwardReturns, Ended, Waits
    <3> QED BY <3>1 DEF Justified, Backed
  <2>4. ResumeAs(f) /\ f.attempt <= config.retries[f.node] + 1
    BY <1>4, <1>5, <1>8, <2>1, <2>2 DEF ForwardReturns
  <2> QED BY <1>6, <2>2, <2>3, <2>4
<1>9. CASE ForwardThrows
  <2>1. PICK f : f = [g EXCEPT !.phase = "threw"]
    OBVIOUS
  <2>2. /\ f \in Frame /\ f.node = g.node /\ f.own = g.own /\ f.use = g.use
        /\ f.below = g.below /\ f.inputPos = g.inputPos /\ f.next = g.next
        /\ f.attempt = g.attempt /\ f.phase = "threw"
    BY <1>5, <2>1 DEF Frame, Phases
  <2>3. Justified(f)'
    BY <2>2 DEF Justified
  <2>4. ResumeAs(f) /\ f.attempt <= config.retries[f.node] + 1
    BY <1>4, <1>5, <1>9, <2>1, <2>2 DEF ForwardThrows
  <2> QED BY <1>6, <2>2, <2>3, <2>4
<1> QED BY <1>7, <1>8, <1>9

\* RequestEnds: the client is told what the outermost call became.
LEMMA RequestEndsKeeps ==
  ASSUME IInv, RequestEnds PROVE IInv'
<1>1. /\ Depth = 1 /\ Top = stack[1] /\ Top.node = config.root
      /\ stack' = <<>> /\ streams' = <<>> /\ UNCHANGED <<config, calls, stored>>
      /\ Top.phase \in {"true", "false", "threw"} /\ result' = Top.phase
  BY DEF RequestEnds, Depth, Top, IInv, Frames
<1>2. /\ stack' \in Seq(Frame) /\ streams' \in Seq(Stream)
      /\ Len(stack') = 0 /\ Len(streams') = 0
  BY <1>1
<1>3. FrameOK(Top) /\ Top.node \in Nodes
  BY <1>1, TopFacts DEF Frame
<1>4. Types'
  BY <1>1, <1>2, <1>3 DEF RequestEnds, IInv, Types, Results
<1>5. StreamsOK' /\ Frames'
  BY <1>2 DEF StreamsOK, Frames
<1>6. /\ config' = config /\ served \subseteq served' /\ served' \subseteq Nodes
      /\ UNCHANGED <<calls, stored>> /\ result' \in Results
  BY <1>1, <1>3 DEF RequestEnds, IInv, Types, Results
<1>7. Keeps(0)
  <2>1. \A k \in 1 .. 0 : FALSE
    OBVIOUS
  <2>2. 0 <= Len(streams) /\ 0 <= Len(streams')
    BY <1>2, TopFacts, <1>1
  <2>3. /\ calls' \in [Nodes -> Nat] /\ \A m \in Nodes : calls[m] <= calls'[m]
        /\ stored' \in [Nodes -> Nat] /\ \A m \in Nodes : stored[m] <= stored'[m]
    BY <1>6 DEF IInv, Types
  <2> QED BY <1>2, <1>5, <1>6, <2>1, <2>2, <2>3 DEF Keeps
<1>8. Answered'
  <2>1. CASE Top.phase = "threw"
    <3>1. served' = served /\ result' = "threw" /\ config' = config /\ RetriesFit' = RetriesFit
      BY <1>1, <2>1 DEF RequestEnds, RetriesFit
    <3>2. UNCHANGED stored
      BY <1>1
    <3> QED BY <3>1, <3>2 DEF IInv, Answered, ReturnsOnlyWhenBacked, Backed
  <2>2. CASE Top.phase # "threw"
    <3>1. PICK n \in Nodes : n = Top.node /\ n = config.root
      BY <1>1, <1>3
    <3>2. served' = served \cup {n} /\ (RetriesFit => Backed(n))
      BY <1>1, <1>3, <2>2, <3>1 DEF RequestEnds, FrameOK, Justified
    <3> QED BY <1>7, <3>1, <3>2, ServedIsBacked
  <2> QED BY <2>1, <2>2
<1> QED BY <1>4, <1>5, <1>8 DEF IInv

\* Request: one call, and one stream where the client has left it.
LEMMA RequestKeeps ==
  ASSUME IInv, Request PROVE IInv'
<1>1. config \in Configs /\ config' = config
  BY DEF Request, IInv, Types
<1>2. PICK n \in Nodes : n = config.root
  BY <1>1, ConfigFacts
<1>3. PICK p \in 0 .. Length : p = config.entry
  BY <1>1, ConfigFacts
<1>4. PICK s : s = [pos |-> p, start |-> p, whole |-> TRUE]
  OBVIOUS
<1>5. s \in Stream /\ s.start = p /\ s.whole
  BY <1>4 DEF Stream
<1>6. streams' = <<s>> /\ streams' \in Seq(Stream) /\ Len(streams') = 1 /\ streams'[1] = s
  BY <1>3, <1>4, <1>5 DEF Request
<1>7. PICK f : f = [Called(n, 1, p) EXCEPT !.below = 1]
  OBVIOUS
<1>8. /\ f.node = n /\ f.phase = "enter" /\ f.own = 1 /\ f.use = 1
      /\ f.below = 1 /\ f.inputPos = p /\ f.attempt = 1 /\ f.next = 1
  BY <1>7 DEF Called
<1>9. f = [node |-> n, phase |-> "enter", own |-> 1, use |-> 1, below |-> 1,
           inputPos |-> p, attempt |-> 1, next |-> 1, criticalFailed |-> FALSE, success |-> FALSE]
  BY <1>7 DEF Called
<1>10. f \in Frame
  <2>1. 1 \in Nat \ {0} /\ "enter" \in Phases
    BY DEF Phases
  <2> QED BY <1>9, <2>1, Zenon DEF Frame
<1>11. stack' = <<f>> /\ stack' \in Seq(Frame) /\ Len(stack') = 1 /\ stack'[1] = f
  BY <1>2, <1>3, <1>7, <1>10 DEF Request
<1>12. /\ served' = {} /\ result' = "none"
       /\ stored' = [m \in Nodes |-> 0] /\ stored' \in [Nodes -> Nat]
       /\ calls' = Count([m \in Nodes |-> 0], n)
  BY <1>2 DEF Request
<1>13. calls' \in [Nodes -> Nat]
  <2>1. [m \in Nodes |-> 0] \in [Nodes -> Nat]
    OBVIOUS
  <2> QED BY <1>12, <2>1, CountFacts
<1>14. Types'
  BY <1>1, <1>6, <1>11, <1>12, <1>13 DEF Types, Results
<1>15. StreamsOK'
  BY <1>1, <1>3, <1>5, <1>6 DEF StreamsOK, Rewinds, IsStore
<1>16. FrameOK(f)'
  <2>1. Len(RoutesOf(f)) \in Nat /\ RoutesOf(f)' = RoutesOf(f)
    BY <1>1, <1>8, RouteFacts DEF IInv, RoutesOf
  <2>2. config.retries[n] \in Nat
    BY <1>1, ConfigFacts
  <2>3. f.attempt <= config.retries[f.node] + 1 /\ f.next <= Len(RoutesOf(f)) + 1
    BY <1>8, <2>1, <2>2
  <2>4. Fits(f)'
    BY <1>1, <1>6, <1>8, <1>10, <2>1, <2>3 DEF Fits, InLoop
  <2>5. Reached(f)' /\ Tried(f)' /\ Justified(f)'
    BY <1>8 DEF Reached, Tried, Justified, InLoop
  <2>6. Sought(f)'
    BY <1>5, <1>6, <1>8 DEF Sought
  <2> QED BY <2>4, <2>5, <2>6 DEF FrameOK
<1>17. Frames'
  BY <1>1, <1>2, <1>8, <1>11, <1>16 DEF Frames
<1>18. Answered'
  BY <1>12 DEF Answered, ReturnsOnlyWhenBacked
<1> QED BY <1>14, <1>15, <1>17, <1>18 DEF IInv
-----------------------------------------------------------------------------
\* Before the first request there is nothing to keep.
LEMMA InitKeeps ==
  ASSUME Init PROVE IInv
<1>1. /\ stack \in Seq(Frame) /\ streams \in Seq(Stream)
      /\ Len(stack) = 0 /\ Len(streams) = 0
  BY DEF Init
<1>2. Types
  BY <1>1 DEF Init, Types, Results
<1>3. StreamsOK /\ Frames
  BY <1>1 DEF StreamsOK, Frames
<1>4. Answered
  BY DEF Init, Answered, ReturnsOnlyWhenBacked
<1> QED BY <1>2, <1>3, <1>4 DEF IInv

\* Every step of a call, and every stuttering step.
LEMMA NextKeeps ==
  ASSUME IInv, [Next]_vars PROVE IInv'
<1>1. CASE Request
  BY <1>1, RequestKeeps
<1>2. CASE Ignore \/ Prepare \/ PrepareFails
  BY <1>2, EntersKeeps
<1>3. CASE PrepareTransformed("attempt") \/ PrepareTransformed("failed")
  BY <1>3, TransformedKeeps
<1>4. CASE NoAttempt
  BY <1>4, NoAttemptKeeps
<1>5. CASE Attempt
  BY <1>5, AttemptKeeps
<1>6. CASE LeafSucceeds \/ LeafThrows
  BY <1>6, LeafKeeps
<1>7. CASE SkipRoute
  BY <1>7, SkipRouteKeeps
<1>8. CASE CallRoute
  BY <1>8, CallRouteKeeps
<1>9. CASE RouteReturns \/ RouteThrows
  BY <1>9, RouteEndsKeeps
<1>10. CASE StopAtRoute \/ ForwardReturns \/ ForwardThrows
  BY <1>10, CallerLeavesKeeps
<1>11. CASE RouterReturns \/ RouterThrows
  BY <1>11, RoutesDoneKeeps
<1>12. CASE Throw \/ HandleResultThrows
  BY <1>12, ThrowsKeeps
<1>13. CASE Forward
  BY <1>13, ForwardKeeps
<1>14. CASE RequestEnds
  BY <1>14, RequestEndsKeeps
<1>15. CASE UNCHANGED vars
  <2>1. UNCHANGED <<config, stack, streams, result, served, calls, stored>>
    BY <1>15 DEF vars, history
  <2>2. Types' /\ StreamsOK'
    BY <2>1 DEF IInv, Types, StreamsOK, Rewinds, IsStore
  <2>3. Answered'
    BY <2>1 DEF IInv, Answered, RetriesFit, ReturnsOnlyWhenBacked, Backed
  <2>4. ASSUME NEW f, FrameOK(f) PROVE FrameOK(f)'
    <3>1. Fits(f)' /\ Reached(f)' /\ Tried(f)'
      BY <2>1, <2>4 DEF FrameOK, Fits, Reached, Tried, InLoop, Seen, RoutesOf, Behaves
    <3>2. Justified(f)' /\ Sought(f)'
      BY <2>1, <2>4 DEF FrameOK, Justified, Backed, RetriesFit, Sought, Rewinds, IsStore
    <3> QED BY <3>1, <3>2 DEF FrameOK
  <2>5. \A d \in 1 .. Len(stack') : FrameOK(stack[d])'
    BY <2>1, <2>4 DEF IInv, Frames
  <2>6. Frames'
    BY <2>1, <2>5 DEF IInv, Frames, Waits, Outlives, RoutesOf
  <2> QED BY <2>2, <2>3, <2>6 DEF IInv
<1> QED BY <1>1, <1>2, <1>3, <1>4, <1>5, <1>6, <1>7, <1>8, <1>9, <1>10, <1>11, <1>12,
      <1>13, <1>14, <1>15 DEF Next, Work

\* The invariant holds in every state of every request.
THEOREM Invariance == Spec => []IInv
  BY InitKeeps, NextKeeps, PTL DEF Spec

\* The local variables of AbstractNode's and RouterNode's calls stay in their
\* types, each call within its RetryCount, its routes and its streams.
THEOREM TypeCorrect == Spec => []TypeOK
<1>1. IInv => TypeOK
  <2> SUFFICES ASSUME IInv PROVE TypeOK
    OBVIOUS
  <2>1. /\ stack \in Seq(Frame) /\ DOMAIN stack = 1 .. Len(stack)
        /\ DOMAIN streams = 1 .. Len(streams)
    BY LenProperties DEF IInv, Types
  <2>2. ASSUME NEW d \in DOMAIN stack
        PROVE  /\ stack[d].own \in DOMAIN streams
               /\ stack[d].use \in DOMAIN streams
               /\ stack[d].below \in DOMAIN streams
               /\ stack[d].attempt <= config.retries[stack[d].node] + 1
               /\ stack[d].next <= Len(config.routes[stack[d].node]) + 1
    <3>1. PICK l \in Nat : l = Len(streams)
      BY LenProperties DEF IInv, Types
    <3>2. PICK h : h = stack[d]
      OBVIOUS
    <3>3. Fits(h)
      BY <2>1, <3>2 DEF IInv, Types, Frames, FrameOK
    <3>4. h.own \in 1 .. l /\ h.use \in 1 .. l /\ h.below \in 1 .. l
      BY <3>1, <3>3 DEF Fits, Frame
    <3> QED BY <2>1, <3>1, <3>2, <3>3, <3>4 DEF Fits, RoutesOf
  <2> QED BY <2>1, <2>2 DEF TypeOK, IInv, Types, Results
<1> QED BY <1>1, Invariance, PTL

\* AbstractNode.cpp:460 and RouterNode.cpp:147 seek before they hand the stream
\* on: no StoreImpl finds it part read.
THEOREM WholePayloadHolds == Spec => []WholePayload
<1>1. IInv => WholePayload
  <2> SUFFICES ASSUME IInv, Rewinds, NEW d \in DOMAIN stack, stack[d].phase = "impl"
               PROVE  LET s == streams[stack[d].use] IN s.pos = s.start /\ s.whole
    BY DEF WholePayload, Rewinds
  <2>1. d \in 1 .. Len(stack)
    BY LenProperties DEF IInv, Types
  <2>2. Sought(stack[d]) /\ Fits(stack[d]) /\ Len(streams) \in Nat
    BY <2>1, LenProperties DEF IInv, Types, Frames, FrameOK
  <2>3. stack[d].use \in 1 .. Len(streams)
    BY <2>2 DEF Fits, Frame
  <2> QED BY <2>2, <2>3 DEF Sought, IInv, StreamsOK
<1> QED BY <1>1, Invariance, PTL

\* A call that returns normally has its data stored, by the node, by enough of
\* its routes or by the node it forwarded to, if no RetryCount is a uint's last.
THEOREM SuccessIsBackedHolds == Spec => []SuccessIsBacked
<1>1. IInv => SuccessIsBacked
  BY DEF IInv, Answered, SuccessIsBacked
<1> QED BY <1>1, Invariance, PTL

\* RouterNode.cpp:134: the loop leaves out no route but those that are not
\* critical, once a critical one has failed and onCriticalError says so.
THEOREM EveryRouteIsTriedHolds == Spec => []EveryRouteIsTried
<1>1. IInv => EveryRouteIsTried
  <2> SUFFICES ASSUME IInv, RoutesDone, NEW i \in DOMAIN Destinations,
                      Destinations[i].critical \/ ~ProcessOnlyCriticals
               PROVE  calls[Destinations[i].node] > 0
    BY DEF EveryRouteIsTried
  <2>1. Depth > 0 /\ Top.phase = "routing" /\ Top.next > Len(Destinations)
    BY DEF RoutesDone, Routing
  <2>2. FrameOK(Top) /\ Top \in Frame
    BY <2>1, TopFacts
  <2>3. i \in Seen(Top)
    <3>1. Len(Destinations) \in Nat /\ DOMAIN Destinations = 1 .. Len(Destinations)
      BY <2>2, RouteFacts DEF IInv, RoutesOf, Destinations, Frame
    <3>2. Top.next \in Nat
      BY <2>2 DEF Frame
    <3> QED BY <2>1, <3>1, <3>2 DEF Seen
  <2> QED BY <2>1, <2>2, <2>3 DEF FrameOK, Tried, InLoop, RoutesOf, Destinations,
        ProcessOnlyCriticals
<1> QED BY <1>1, Invariance, PTL
-----------------------------------------------------------------------------
\* The calls of a node that have not ended and may yet store.
Live(f) == f.phase \in {"enter", "attempt", "impl", "routing", "calling"}
LiveCalls(n) == {d \in 1 .. Len(stack) : stack[d].node = n /\ Live(stack[d])}

\* Each of them accounts for one of the calls that were made, and each success
\* for another.
Accounted == \A n \in Nodes : stored[n] + Cardinality(LiveCalls(n)) <= calls[n]

LEMMA LiveFacts ==
  ASSUME Types, NEW n \in Nodes
  PROVE  /\ IsFiniteSet(LiveCalls(n)) /\ Cardinality(LiveCalls(n)) \in Nat
         /\ stored[n] \in Nat /\ calls[n] \in Nat
<1>1. Len(stack) \in Nat
  BY LenProperties DEF Types
<1>2. IsFiniteSet(1 .. Len(stack)) /\ LiveCalls(n) \in SUBSET (1 .. Len(stack))
  BY <1>1, FS_Interval DEF LiveCalls
<1> QED BY <1>2, FS_Subset, FS_CardinalityType DEF Types

\* A step after which no node has more such calls than before.
LEMMA NoMoreLive ==
  ASSUME Types, Types', Accounted, stored' = stored,
         \A n \in Nodes : LiveCalls(n)' \subseteq LiveCalls(n),
         \A n \in Nodes : calls[n] <= calls'[n]
  PROVE  Accounted'
<1> SUFFICES ASSUME NEW n \in Nodes
             PROVE  stored'[n] + Cardinality(LiveCalls(n)') <= calls'[n]
  BY DEF Accounted
<1>1. /\ IsFiniteSet(LiveCalls(n)')
      /\ Cardinality(LiveCalls(n)') <= Cardinality(LiveCalls(n))
  BY LiveFacts, FS_Subset
<1>2. /\ Cardinality(LiveCalls(n)) \in Nat /\ Cardinality(LiveCalls(n)') \in Nat
      /\ stored[n] \in Nat /\ calls[n] \in Nat /\ calls'[n] \in Nat
  BY <1>1, LiveFacts, FS_CardinalityType DEF Types
<1>3. stored[n] + Cardinality(LiveCalls(n)) <= calls[n]
  BY DEF Accounted
<1> QED BY <1>1, <1>2, <1>3

\* The call on top goes on as f.
LEMMA LiveBecomes ==
  ASSUME Types, Depth > 0, NEW f, f.node = Top.node, Live(f) => Live(Top), Become(f),
         NEW n
  PROVE  LiveCalls(n)' \subseteq LiveCalls(n)
<1>1. Len(stack) \in Nat /\ Len(stack) \in 1 .. Len(stack) /\ stack \in Seq(Frame)
  BY LenProperties DEF Types, Depth
<1>2. /\ Len(stack') = Len(stack) /\ stack'[Len(stack)] = f
      /\ \A d \in 1 .. Len(stack) : d # Len(stack) => stack'[d] = stack[d]
  BY <1>1 DEF Become, Depth
<1> QED BY <1>1, <1>2 DEF LiveCalls, Top, Depth

\* The call on top is gone, and its caller goes on as f.
LEMMA LiveResumes ==
  ASSUME Types, Depth > 1, NEW f, f.node = Caller.node, Live(f) => Live(Caller),
         ResumeAs(f), NEW n
  PROVE  LiveCalls(n)' \subseteq LiveCalls(n)
<1>1. PICK l \in Nat : Len(stack) = l + 1 /\ l > 0
  <2>1. Len(stack) \in Nat /\ Len(stack) > 1
    BY LenProperties DEF Types, Depth
  <2>2. /\ Len(stack) - 1 \in Nat /\ Len(stack) - 1 > 0
        /\ Len(stack) = (Len(stack) - 1) + 1
    BY <2>1
  <2> QED BY <2>2
<1>2. stack \in Seq(Frame) /\ Depth - 1 = l
  BY <1>1 DEF Types, Depth
<1>3. PICK rest : rest = SubSeq(stack, 1, l)
  OBVIOUS
<1>4. /\ rest \in Seq(Frame) /\ Len(rest) = l
      /\ \A d \in 1 .. l : rest[d] = stack[d]
  BY <1>1, <1>2, <1>3, PrefixFacts
<1>5. stack' = [rest EXCEPT ![l] = f]
  BY <1>2, <1>3 DEF ResumeAs
<1>6. /\ Len(stack') = l /\ stack'[l] = f
      /\ \A d \in 1 .. l : d # l => stack'[d] = stack[d]
  <2>1. rest \in Seq(Frame \cup {f}) /\ f \in Frame \cup {f} /\ l \in 1 .. l
    BY <1>1, <1>4
  <2> QED BY <1>4, <1>5, <2>1, ExceptSeq
<1>7. Caller = stack[l] /\ l \in 1 .. l /\ 1 .. l \subseteq 1 .. Len(stack)
  BY <1>1, <1>2 DEF Caller
<1> QED BY <1>6, <1>7 DEF LiveCalls

\* The call on top calls m: one more call is counted, and one more is live.
LEMMA LiveCalled ==
  ASSUME Types, Types', Accounted, Depth > 0, NEW f \in Frame, f.node = Top.node,
         ~Live(f) \/ Live(Top), NEW m \in Nodes, NEW k, NEW p,
         CallFrom(f, m, k, p), stored' = stored
  PROVE  Accounted'
<1>1. /\ Len(stack) \in Nat /\ Len(stack) \in 1 .. Len(stack) /\ stack \in Seq(Frame)
  BY LenProperties DEF Types, Depth
<1>2. PICK mid : mid = [stack EXCEPT ![Depth] = f]
  OBVIOUS
<1>3. /\ mid \in Seq(Frame) /\ Len(mid) = Len(stack) /\ mid[Len(stack)] = f
      /\ \A d \in 1 .. Len(stack) : d # Len(stack) => mid[d] = stack[d]
  BY <1>1, <1>2, ExceptSeq DEF Depth
<1>4. /\ Len(stack') = Len(stack) + 1
      /\ stack'[Len(stack) + 1] = Called(m, k, p)
      /\ \A d \in 1 .. Len(stack) : stack'[d] = mid[d]
  <2>1. PICK c : c = Called(m, k, p)
    OBVIOUS
  <2>2. stack' = Append(mid, c)
    BY <1>2, <2>1 DEF CallFrom
  <2>3. mid \in Seq(Frame \cup {c}) /\ c \in Frame \cup {c}
    BY <1>3
  <2> QED BY <1>3, <2>1, <2>2, <2>3, AppendFacts
<1>5. Called(m, k, p).node = m
  BY DEF Called
<1>6. \A n : LiveCalls(n)' \subseteq LiveCalls(n) \cup (IF n = m THEN {Len(stack) + 1} ELSE {})
  BY <1>1, <1>3, <1>4, <1>5 DEF LiveCalls, Top, Depth
<1>7. \A n \in Nodes : calls'[n] = IF n = m THEN calls[n] + 1 ELSE calls[n]
  BY DEF CallFrom, Count, Types
<1>8. ASSUME NEW n \in Nodes PROVE stored'[n] + Cardinality(LiveCalls(n)') <= calls'[n]
  <2> DEFINE more == LiveCalls(n) \cup {Len(stack) + 1}
  <2>1. /\ IsFiniteSet(LiveCalls(n)) /\ Cardinality(LiveCalls(n)) \in Nat
        /\ stored[n] \in Nat /\ calls[n] \in Nat
        /\ stored[n] + Cardinality(LiveCalls(n)) <= calls[n]
    BY LiveFacts DEF Accounted
  <2>2. CASE n = m
    <3>1. /\ IsFiniteSet(more)
          /\ \/ Cardinality(more) = Cardinality(LiveCalls(n))
             \/ Cardinality(more) = Cardinality(LiveCalls(n)) + 1
      BY <2>1, FS_AddElement, Zenon
    <3>2. /\ IsFiniteSet(LiveCalls(n)') /\ Cardinality(LiveCalls(n)') <= Cardinality(more)
      BY <1>6, <2>2, <3>1, FS_Subset
    <3>3. Cardinality(more) \in Nat /\ Cardinality(LiveCalls(n)') \in Nat
      BY <3>1, <3>2, FS_CardinalityType
    <3> HIDE DEF more
    <3> QED BY <1>7, <2>1, <2>2, <3>1, <3>2, <3>3
  <2>3. CASE n # m
    <3>1. /\ IsFiniteSet(LiveCalls(n)')
          /\ Cardinality(LiveCalls(n)') <= Cardinality(LiveCalls(n))
      BY <1>6, <2>1, <2>3, FS_Subset
    <3>2. Cardinality(LiveCalls(n)') \in Nat
      BY <3>1, FS_CardinalityType
    <3> QED BY <1>7, <2>1, <2>3, <3>1, <3>2
  <2> QED BY <2>2, <2>3
<1> QED BY <1>8 DEF Accounted

\* The leaf on top succeeds: one more success is counted, and one call less is live.
LEMMA LiveSucceeds ==
  ASSUME IInv, Types', Accounted, LeafSucceeds
  PROVE  Accounted'
<1>1. /\ Len(stack) \in Nat /\ Len(stack) \in 1 .. Len(stack) /\ stack \in Seq(Frame)
      /\ Depth > 0 /\ Top.phase = "impl" /\ Top \in Frame /\ Types
  BY TopFacts, LenProperties DEF IInv, Types, Depth, LeafSucceeds, InLeaf
<1>2. /\ Len(stack') = Len(stack) /\ stack'[Len(stack)].phase = "true"
      /\ \A d \in 1 .. Len(stack) : d # Len(stack) => stack'[d] = stack[d]
  <2>1. PICK f : f = [Top EXCEPT !.phase = "true"]
    OBVIOUS
  <2>2. stack' = [stack EXCEPT ![Len(stack)] = f]
    BY <2>1 DEF LeafSucceeds, MoveTo, Become, Depth
  <2>3. f \in Frame /\ f.phase = "true"
    <3>1. "true" \in Phases
      BY DEF Phases
    <3> QED BY <1>1, <2>1, <3>1 DEF Frame
  <2> QED BY <1>1, <2>2, <2>3, ExceptSeq
<1>3. PICK m \in Nodes : m = Top.node
  BY <1>1 DEF Frame
<1>4. /\ \A n : LiveCalls(n)' \subseteq LiveCalls(n) \ {Len(stack)}
      /\ Len(stack) \in LiveCalls(m)
  BY <1>1, <1>2, <1>3 DEF LiveCalls, Live, Top, Depth
<1>5. /\ \A n \in Nodes : stored'[n] = IF n = m THEN stored[n] + 1 ELSE stored[n]
      /\ calls' = calls
  BY <1>3 DEF LeafSucceeds, Count, IInv, Types
<1>6. ASSUME NEW n \in Nodes PROVE stored'[n] + Cardinality(LiveCalls(n)') <= calls'[n]
  <2> DEFINE less == LiveCalls(n) \ {Len(stack)}
  <2>1. /\ IsFiniteSet(LiveCalls(n)) /\ Cardinality(LiveCalls(n)) \in Nat
        /\ stored[n] \in Nat /\ calls[n] \in Nat
        /\ stored[n] + Cardinality(LiveCalls(n)) <= calls[n]
    BY <1>1, LiveFacts DEF Accounted
  <2>2. /\ IsFiniteSet(less)
        /\ Len(stack) \in LiveCalls(n) => Cardinality(less) = Cardinality(LiveCalls(n)) - 1
        /\ Len(stack) \notin LiveCalls(n) => Cardinality(less) = Cardinality(LiveCalls(n))
    BY <2>1, FS_RemoveElement, Zenon
  <2>3. /\ IsFiniteSet(LiveCalls(n)') /\ Cardinality(LiveCalls(n)') <= Cardinality(less)
    BY <1>4, <2>2, FS_Subset
  <2>4. Cardinality(less) \in Nat /\ Cardinality(LiveCalls(n)') \in Nat
    BY <2>2, <2>3, FS_CardinalityType
  <2> HIDE DEF less
  <2> QED BY <1>4, <1>5, <2>1, <2>2, <2>3, <2>4
<1> QED BY <1>6 DEF Accounted
-----------------------------------------------------------------------------
\* What a call becomes after a failed attempt is no other call.
LEMMA AttemptIsLive ==
  ASSUME NEW f \in Frame
  PROVE  AfterFailedAttempt(f).node = f.node
  BY DEF AfterFailedAttempt, Frame

\* Every step but those of the client.
LEMMA WorkIsAccounted ==
  ASSUME IInv, Types', Accounted, Work
  PROVE  Accounted'
<1>1. Types /\ Len(stack) \in Nat /\ \A n \in Nodes : calls[n] \in Nat
  BY LenProperties DEF IInv, Types
<1>2. ASSUME Depth > 0, NEW f, f.node = Top.node, Live(f) => Live(Top), Become(f),
             UNCHANGED <<calls, stored>>
      PROVE  Accounted'
  BY <1>1, <1>2, LiveBecomes, NoMoreLive
<1>3. ASSUME Depth > 1, NEW f, f.node = Caller.node, Live(f) => Live(Caller),
             ResumeAs(f), UNCHANGED <<calls, stored>>
      PROVE  Accounted'
  BY <1>1, <1>3, LiveResumes, NoMoreLive
<1>4. CASE \/ Ignore \/ Prepare \/ PrepareFails \/ NoAttempt \/ RouterReturns \/ Throw
           \/ HandleResultThrows
  <2>1. /\ Depth > 0 /\ UNCHANGED <<calls, stored>>
        /\ \E phase : /\ MoveTo(phase)
                      /\ phase \in {"true", "false", "threw", "failed"} \/ Live(Top)
    BY <1>4 DEF Ignore, Prepare, PrepareFails, NoAttempt, RouterReturns, Throw,
                HandleResultThrows, Entered, RoutesDone, Routing, Failed, Live, history
  <2>2. PICK phase : /\ MoveTo(phase)
                     /\ phase \in {"true", "false", "threw", "failed"} \/ Live(Top)
    BY <2>1
  <2>3. Top \in Frame
    BY <2>1, TopFacts
  <2> DEFINE f == [Top EXCEPT !.phase = phase]
  <2>4. f.node = Top.node /\ f.phase = phase
    BY <2>3 DEF Frame
  <2>5. Live(f) => Live(Top)
    BY <2>2, <2>4 DEF Live
  <2>6. Become(f)
    BY <2>2 DEF MoveTo
  <2> HIDE DEF f
  <2> QED BY <1>2, <2>1, <2>4, <2>5, <2>6
<1>5. CASE \/ PrepareTransformed("attempt") \/ PrepareTransformed("failed") \/ Attempt
           \/ SkipRoute
  <2>1. /\ Depth > 0 /\ UNCHANGED <<calls, stored>> /\ Live(Top)
    BY <1>5 DEF PrepareTransformed, Attempt, SkipRoute, Entered, Routing, Live, history
  <2>2. Top \in Frame
    BY <2>1, TopFacts
  <2>3. \E f : f.node = Top.node /\ Become(f)
    BY <1>5, <2>2 DEF PrepareTransformed, Attempt, SkipRoute, Frame
  <2> QED BY <1>2, <2>1, <2>3
<1>6. CASE LeafThrows \/ RouterThrows
  <2>1. /\ Depth > 0 /\ UNCHANGED <<calls, stored>> /\ Live(Top)
        /\ Become(AfterFailedAttempt(Top))
    BY <1>6 DEF LeafThrows, RouterThrows, InLeaf, RoutesDone, Routing, Live, history
  <2> QED BY <1>2, <2>1, TopFacts, AttemptIsLive
<1>7. CASE LeafSucceeds
  BY <1>7, LiveSucceeds
<1>8. CASE CallRoute
  <2>1. /\ Depth > 0 /\ Top.phase = "routing" /\ stored' = stored
        /\ Top.next <= Len(RoutesOf(Top))
    BY <1>8 DEF CallRoute, Routing, Destinations, RoutesOf
  <2>2. Top \in Frame
    BY <2>1, TopFacts
  <2>3. PICK f : f = [Top EXCEPT !.phase = "calling"]
    OBVIOUS
  <2>4. f \in Frame /\ f.node = Top.node
    BY <2>2, <2>3 DEF Frame, Phases
  <2>5. /\ Len(RoutesOf(Top)) \in Nat /\ Top.next \in Nat \ {0} /\ Top.node \in Nodes
        /\ \A i \in 1 .. Len(RoutesOf(Top)) : RoutesOf(Top)[i].node \in Nodes
    BY <1>1, <2>2, RouteFacts DEF Frame
  <2>6. PICK m \in Nodes : m = Destinations[Top.next].node
    BY <2>1, <2>5 DEF Destinations, RoutesOf
  <2>7. \E p : CallFrom(f, m, Top.use, p)
    BY <1>8, <2>3, <2>6 DEF CallRoute
  <2> QED BY <1>1, <2>1, <2>4, <2>6, <2>7, LiveCalled DEF Live
<1>9. CASE Forward
  <2>1. /\ Depth > 0 /\ Top.phase = "failed" /\ stored' = stored
        /\ config.forward[Top.node] # NoNode
    BY <1>9 DEF Forward, Failed
  <2>2. Top \in Frame
    BY <2>1, TopFacts
  <2>3. PICK f : f = [Top EXCEPT !.phase = "forwarding"]
    OBVIOUS
  <2>4. f \in Frame /\ f.node = Top.node /\ ~Live(f)
    BY <2>2, <2>3 DEF Frame, Phases, Live
  <2>5. PICK m \in Nodes : m = config.forward[Top.node]
    BY <1>1, <2>1, <2>2, ConfigFacts DEF Frame, Types
  <2>6. \E k, p : CallFrom(f, m, k, p)
    BY <1>9, <2>3, <2>5 DEF Forward
  <2> QED BY <1>1, <2>1, <2>4, <2>5, <2>6, LiveCalled
<1>10. CASE \/ RouteReturns \/ StopAtRoute \/ RouteThrows \/ ForwardReturns
            \/ ForwardThrows
  <2>1. /\ Depth > 1 /\ Caller.phase \in {"calling", "forwarding"}
        /\ UNCHANGED <<calls, stored>>
    BY <1>10 DEF RouteReturns, StopAtRoute, RouteThrows, ForwardReturns, ForwardThrows,
                 Ended, history
  <2>2. Caller \in Frame
    BY <2>1, CallerFacts
  <2>3. CASE RouteReturns \/ RouteThrows
    <3>1. PICK f : /\ \/ f = [Caller EXCEPT !.phase = "routing", !.next = @ + 1,
                                            !.success = TRUE]
                      \/ f = [Caller EXCEPT !.phase = "routing", !.next = @ + 1,
                                            !.criticalFailed = @ \/ CriticalRoute]
                   /\ ResumeAs(f) /\ Caller.phase = "calling"
      BY <2>3 DEF RouteReturns, RouteThrows, Ended
    <3>2. f.node = Caller.node /\ Live(Caller)
      BY <2>2, <3>1 DEF Frame, Live
    <3> QED BY <1>3, <2>1, <3>1, <3>2
  <2>4. CASE StopAtRoute
    <3>1. ResumeAs(AfterFailedAttempt(Caller)) /\ Live(Caller)
      BY <2>4 DEF StopAtRoute, Ended, Live
    <3> QED BY <1>3, <2>1, <2>2, <3>1, AttemptIsLive
  <2>5. CASE ForwardReturns \/ ForwardThrows
    <3>1. PICK f : /\ \/ f = [Caller EXCEPT !.phase = "false"]
                      \/ f = [Caller EXCEPT !.phase = "threw"]
                   /\ ResumeAs(f)
      BY <2>5 DEF ForwardReturns, ForwardThrows
    <3>2. f.node = Caller.node /\ ~Live(f)
      BY <2>2, <3>1 DEF Frame, Live
    <3> QED BY <1>3, <2>1, <3>1, <3>2
  <2> QED BY <1>10, <2>3, <2>4, <2>5
<1>11. CASE RequestEnds
  <2>1. stack' = <<>> /\ UNCHANGED <<calls, stored>>
    BY <1>11 DEF RequestEnds
  <2>2. \A n \in Nodes : LiveCalls(n)' = {}
    BY <2>1 DEF LiveCalls
  <2> QED BY <1>1, <2>1, <2>2, NoMoreLive
<1> QED BY <1>4, <1>5, <1>6, <1>7, <1>8, <1>9, <1>10, <1>11 DEF Work

\* The client's call is the first.
LEMMA RequestIsAccounted ==
  ASSUME IInv, Types', Request
  PROVE  Accounted'
<1>1. /\ stack' = <<[Called(config.root, 1, config.entry) EXCEPT !.below = 1]>>
      /\ stored' = [n \in Nodes |-> 0]
      /\ calls' = Count([n \in Nodes |-> 0], config.root)
      /\ config.root \in Nodes
  BY ConfigFacts DEF Request, IInv, Types
<1>2. Len(stack') = 1 /\ stack'[1].node = config.root
  BY <1>1 DEF Called
<1>3. \A n : LiveCalls(n)' \subseteq IF n = config.root THEN {1} ELSE {}
  BY <1>2 DEF LiveCalls
<1>4. \A n \in Nodes : /\ stored'[n] = 0
                       /\ calls'[n] = IF n = config.root THEN 1 ELSE 0
  BY <1>1 DEF Count
<1>5. ASSUME NEW n \in Nodes PROVE Cardinality(LiveCalls(n)') <= calls'[n]
  <2>1. CASE n = config.root
    <3>1. IsFiniteSet({1}) /\ Cardinality({1}) = 1
      BY FS_Singleton
    <3>2. Cardinality(LiveCalls(n)') <= Cardinality({1})
      BY <1>3, <2>1, <3>1, FS_Subset
    <3> QED BY <1>4, <2>1, <3>1, <3>2
  <2>2. CASE n # config.root
    <3>1. LiveCalls(n)' = {}
      BY <1>3, <2>2
    <3> QED BY <1>4, <2>2, <3>1, FS_EmptySet
  <2> QED BY <2>1, <2>2
<1>6. ASSUME NEW n \in Nodes PROVE Cardinality(LiveCalls(n)') \in Nat
  <2>1. IsFiniteSet({1}) /\ LiveCalls(n)' \in SUBSET {1}
    BY <1>3, FS_Singleton
  <2> QED BY <2>1, FS_Subset, FS_CardinalityType
<1>7. ASSUME NEW n \in Nodes PROVE stored'[n] + Cardinality(LiveCalls(n)') <= calls'[n]
  BY <1>4, <1>5, <1>6
<1> QED BY <1>7 DEF Accounted

\* A call of a leaf stores once at most, however often it is tried again: a success
\* ends the loop of AbstractNode.cpp:591.
THEOREM StoredOncePerCallHolds == Spec => []StoredOncePerCall
<1>1. Init => Accounted
  <2> SUFFICES ASSUME Init, NEW n \in Nodes
               PROVE  stored[n] + Cardinality(LiveCalls(n)) <= calls[n]
    BY DEF Accounted
  <2>1. LiveCalls(n) = {} /\ stored[n] = 0 /\ calls[n] = 0
    BY DEF Init, LiveCalls
  <2> QED BY <2>1, FS_EmptySet
<1>2. IInv /\ IInv' /\ Accounted /\ [Next]_vars => Accounted'
  <2> SUFFICES ASSUME IInv, IInv', Accounted, [Next]_vars PROVE Accounted'
    OBVIOUS
  <2>1. Types'
    BY DEF IInv
  <2>2. CASE UNCHANGED vars
    BY <2>2 DEF vars, history, Accounted, LiveCalls
  <2> QED BY <2>1, <2>2, WorkIsAccounted, RequestIsAccounted DEF Next
<1>3. IInv /\ Accounted => StoredOncePerCall
  <2> SUFFICES ASSUME IInv, Accounted, NEW n \in Nodes PROVE stored[n] <= calls[n]
    BY DEF StoredOncePerCall
  <2>1. /\ stored[n] + Cardinality(LiveCalls(n)) <= calls[n]
        /\ Cardinality(LiveCalls(n)) \in Nat /\ stored[n] \in Nat /\ calls[n] \in Nat
    BY LiveFacts DEF IInv, Accounted
  <2> QED BY <2>1
<1> QED BY <1>1, <1>2, <1>3, Invariance, PTL DEF Spec
=============================================================================
