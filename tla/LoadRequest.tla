---------------------------- MODULE LoadRequest ----------------------------
(***************************************************************************)
(* One Load request on its way through the nodes: the retries, the tee,    *)
(* the transformation and the failure forwarding of AbstractNode::Load,    *)
(* and the route of RouterNode.                                            *)
(*                                                                         *)
(* Each call writes through an output of its own, which keeps some of what *)
(* is written to it, into a temporary stream or into the stream its caller *)
(* gave it.  Data is a sequence of chunks that know where they come from.  *)
(***************************************************************************)
EXTENDS Naturals, Sequences

CONSTANTS
  Nodes,
  NoNode,     \* ForwardNodeName or m_ReadRoute is null
  Configs,    \* the requested node with the configuration of all nodes
  Length,     \* how many chunks a LoadImpl that returns has written
  UintSize    \* how many values a uint has

ConfigType ==
  [root : Nodes,                           \* the node the client names
   ignored : SUBSET Nodes,                 \* Operation is OPERATION_IGNORE
   retries : [Nodes -> 0..(UintSize - 1)], \* RetryCount
   forward : [Nodes -> Nodes \cup {NoNode}],  \* ForwardNodeName
   transforms : SUBSET Nodes,              \* HasStreamTransformers
   tees : SUBSET Nodes,                    \* m_TeeConfig has a ForwardNodeName
   teesTransformed : SUBSET Nodes,         \* m_TeeConfig: UseTransformedStream
   routers : SUBSET Nodes,
   disabled : SUBSET Nodes,                \* routers without m_ReadEnabled
   route : [Nodes -> Nodes \cup {NoNode}]] \* m_ReadRoute

ASSUME LoadAssumption ==
  /\ Length \in Nat
  /\ UintSize \in Nat \ {0}
  /\ NoNode \notin Nodes
  /\ Configs \subseteq ConfigType

VARIABLES
  config,  \* the request and the configuration
  stack,   \* the calls of Load that have not returned, outermost first
  out,     \* the client's stream
  result,  \* what the client got
  loads,   \* history: how many LoadImpl of leaves have begun
  answer   \* history: the LoadImpl whose data the client was promised, or 0

vars == <<config, stack, out, result, loads, answer>>

\* A part of what the LoadImpl number load of a leaf wrote, and the nodes that
\* have transformed it since.
Chunk == [load : Nat, part : Nat, by : SUBSET Nodes]
Stream == [data : Seq(Chunk), pos : Nat]

Phases == {"enter", "attempt", "impl", "routing", "calling", "loaded", "transformed",
           "teed", "failed", "forwarding", "true", "false", "threw"}

Frame ==
  [node : Nodes,
   phase : Phases,
   data : Nat,           \* o_rData: the output of that call, or for 0 the client's stream
   attempt : Nat \ {0},
   load : Nat,           \* the LoadImpl that runs, if the node is a leaf
   part : Nat,           \* how much it has written
   kept : Seq(Chunk),    \* written to output, and still there
   temp : Stream,        \* pTempIOStream
   transformed : Stream, \* pTransformedStream
   answer : Nat,         \* history: the LoadImpl that returned the data
   found : Nat,          \* history: how much o_rData had got before the call
   got : Nat,            \* history: how much output has got
   teed : Seq(Chunk),    \* history: what the tee was given
   pushed : Seq(Chunk)]  \* history: what was copied to o_rData

Empty == [data |-> <<>>, pos |-> 0]

Depth == Len(stack)
Top == stack[Depth]
Caller == stack[Depth - 1]

\* How much stream k has got.
Got(k) == IF k = 0 THEN Len(out) ELSE stack[k].got

Called(n, k, got) ==
  [node |-> n, phase |-> "enter", data |-> k, attempt |-> 1, load |-> 0, part |-> 0,
   kept |-> <<>>, temp |-> Empty, transformed |-> Empty,
   answer |-> 0, found |-> got, got |-> 0, teed |-> <<>>, pushed |-> <<>>]

Become(f) == stack' = [stack EXCEPT ![Depth] = f]
MoveTo(phase) == Become([Top EXCEPT !.phase = phase])
CallFrom(f, n, k) == stack' = Append([stack EXCEPT ![Depth] = f], Called(n, k, Got(k)))
ResumeAs(f) == stack' = [SubSeq(stack, 1, Depth - 1) EXCEPT ![Depth - 1] = f]

Init ==
  /\ config \in Configs
  /\ stack = <<>>
  /\ out = <<>>
  /\ result = "none"
  /\ loads = 0
  /\ answer = 0
-----------------------------------------------------------------------------
(* Where data goes. *)

\* The call may have to take back what was written, or needs it itself.
Buffers(n) ==
  \/ config.retries[n] > 0
  \/ n \in config.tees
  \/ n \in config.transforms

ReachesClient(f) == ~Buffers(f.node) /\ f.data = 0

\* In the calls calls, s is written to stream k.
Written(calls, k, s) ==
  IF k = 0 THEN calls ELSE [calls EXCEPT ![k].kept = @ \o s, ![k].got = @ + Len(s)]

ToTemp(f, s) == [f EXCEPT !.temp.data = @ \o s]

\* The call at depth d has become f, and its output passes s on.
Passed(calls, d, f, s) ==
  IF Buffers(f.node) THEN [calls EXCEPT ![d] = ToTemp(f, s)]
                     ELSE Written([calls EXCEPT ![d] = f], f.data, s)
PassOn(calls, d, f, s) ==
  /\ stack' = Passed(calls, d, f, s)
  /\ out' = IF ReachesClient(f) THEN out \o s ELSE out

\* MUTANT: output is not reset before the data is used.
KeepAs(calls, f) == PassOn(calls, Len(calls), f, <<>>)

\* output is reset, or its scope ends, and the innermost call goes on as f.
FlushAs(calls, f) == PassOn(calls, Len(calls), [f EXCEPT !.kept = <<>>], f.kept)

\* A buffer of output is full.
Drain(d) ==
  /\ d \in DOMAIN stack
  /\ stack[d].phase \in {"impl", "calling"}
  /\ stack[d].kept # <<>>
  /\ PassOn(stack, d, [stack[d] EXCEPT !.kept = Tail(@)], <<Head(stack[d].kept)>>)
  /\ UNCHANGED <<config, result, loads, answer>>
-----------------------------------------------------------------------------
(* The client. *)

Request ==
  /\ stack = <<>>
  /\ stack' = <<Called(config.root, 0, 0)>>
  /\ out' = <<>>
  /\ result' = "none"
  /\ loads' = 0
  /\ answer' = 0
  /\ UNCHANGED config

RequestEnds ==
  /\ Depth = 1
  /\ Top.phase \in {"true", "false", "threw"}
  /\ result' = Top.phase
  /\ answer' = Top.answer
  /\ stack' = <<>>
  /\ UNCHANGED <<config, out, loads>>
-----------------------------------------------------------------------------
(* AbstractNode::Load up to its attempts. *)

At(phase) == Depth > 0 /\ Top.phase = phase

Ignore ==
  /\ At("enter")
  /\ Top.node \in config.ignored
  /\ MoveTo("true")
  /\ UNCHANGED <<config, out, result, loads, answer>>

Prepare ==
  /\ At("enter")
  /\ Top.node \notin config.ignored
  /\ MoveTo("attempt")
  /\ UNCHANGED <<config, out, result, loads, answer>>

\* A missing parameter, or a translator that throws.
PrepareFails ==
  /\ At("enter")
  /\ Top.node \notin config.ignored
  /\ MoveTo("failed")
  /\ UNCHANGED <<config, out, result, loads, answer>>

\* RetryCount + 1, a uint.
Attempts(n) == (config.retries[n] + 1) % UintSize

\* The loop has no attempt to make, and what follows it is done.
NoAttempt ==
  /\ At("attempt")
  /\ Attempts(Top.node) = 0
  /\ MoveTo("loaded")
  /\ UNCHANGED <<config, out, result, loads, answer>>

Attempt ==
  /\ At("attempt")
  /\ Attempts(Top.node) > 0
  /\ IF Top.node \in config.routers
     THEN MoveTo("routing") /\ UNCHANGED loads
     ELSE /\ Become([Top EXCEPT !.phase = "impl", !.load = loads + 1, !.part = 0])
          /\ loads' = loads + 1
  /\ UNCHANGED <<config, out, result, answer>>

Exhausted(f) == f.attempt > config.retries[f.node]

\* LoadImpl of the innermost call of calls throws.  A retry empties the temporary
\* stream and not what output keeps; after the last attempt output goes, and
\* passes on what it has.
AttemptFails(calls, f) ==
  IF Exhausted(f)
  THEN FlushAs(calls, [f EXCEPT !.phase = "failed"])
  ELSE /\ stack' = [calls EXCEPT ![Len(calls)] =
                      [f EXCEPT !.phase = "attempt", !.attempt = @ + 1, !.temp = Empty]]
       /\ UNCHANGED out
-----------------------------------------------------------------------------
(* A leaf: LoadImpl of any node that is not a router. *)

LeafWrites ==
  /\ At("impl")
  /\ Top.part < Length
  /\ LET chunk == [load |-> Top.load, part |-> Top.part + 1, by |-> {}]
     IN Become([Top EXCEPT !.part = @ + 1, !.kept = Append(@, chunk), !.got = @ + 1])
  /\ UNCHANGED <<config, out, result, loads, answer>>

LeafReturns ==
  /\ At("impl")
  /\ Top.part = Length
  /\ FlushAs(stack, [Top EXCEPT !.phase = "loaded", !.answer = Top.load])
  /\ UNCHANGED <<config, result, loads, answer>>

LeafThrows ==
  /\ At("impl")
  /\ AttemptFails(stack, Top)
  /\ UNCHANGED <<config, result, loads, answer>>
-----------------------------------------------------------------------------
(* RouterNode::LoadImpl. *)

RouterIsDisabled ==
  /\ At("routing")
  /\ Top.node \in config.disabled
  /\ AttemptFails(stack, Top)
  /\ UNCHANGED <<config, result, loads, answer>>

HasNoRoute ==
  /\ At("routing")
  /\ Top.node \notin config.disabled
  /\ config.route[Top.node] = NoNode
  /\ FlushAs(stack, [Top EXCEPT !.phase = "loaded"])
  /\ UNCHANGED <<config, result, loads, answer>>

CallRoute ==
  /\ At("routing")
  /\ Top.node \notin config.disabled
  /\ config.route[Top.node] # NoNode
  /\ CallFrom([Top EXCEPT !.phase = "calling"], config.route[Top.node], Depth)
  /\ UNCHANGED <<config, out, result, loads, answer>>

Ended(phase, outcomes) == Depth > 1 /\ Caller.phase = phase /\ Top.phase \in outcomes
Callers == SubSeq(stack, 1, Depth - 1)

RouteReturns ==
  /\ Ended("calling", {"true", "false"})
  /\ FlushAs(Callers, [Caller EXCEPT !.phase = "loaded", !.answer = Top.answer])
  /\ UNCHANGED <<config, result, loads, answer>>

RouteThrows ==
  /\ Ended("calling", {"threw"})
  /\ AttemptFails(Callers, Caller)
  /\ UNCHANGED <<config, result, loads, answer>>
-----------------------------------------------------------------------------
(* AbstractNode::Load when LoadImpl has returned. *)

Unread(s) == SubSeq(s.data, s.pos + 1, Len(s.data))
Rewound(s) == [s EXCEPT !.pos = 0]
ReadUp(s) == [s EXCEPT !.pos = Len(s.data)]
TransformedBy(n, s) == [i \in DOMAIN s |-> [s[i] EXCEPT !.by = @ \cup {n}]]

Transforms(n) == n \in config.transforms

\* TransformStream reads the temporary stream and makes another.
Transform ==
  /\ At("loaded")
  /\ Transforms(Top.node)
  /\ Become([Top EXCEPT !.phase = "transformed", !.temp = ReadUp(@),
                        !.transformed.data = TransformedBy(Top.node, Unread(Top.temp))])
  /\ UNCHANGED <<config, out, result, loads, answer>>

TransformFails ==
  /\ At("loaded")
  /\ Transforms(Top.node)
  /\ MoveTo("failed")
  /\ UNCHANGED <<config, out, result, loads, answer>>

TeesNow ==
  /\ At(IF Transforms(Top.node) THEN "transformed" ELSE "loaded")
  /\ Top.node \in config.tees

\* What the tee gets: without a transformer the temporary stream where it is,
\* otherwise one of the two from its beginning.
TeeStream(f) ==
  IF ~Transforms(f.node) THEN f.temp
  ELSE IF f.node \in config.teesTransformed THEN Rewound(f.transformed)
  ELSE Rewound(f.temp)

\* The stream that is to be used again is rewound, whatever the tee has read.
AfterTee(f) ==
  [f EXCEPT !.phase = "teed", !.teed = Unread(TeeStream(f)), !.temp = Rewound(@),
            !.transformed = Rewound(@)]

\* MUTANT: the temporary stream is not rewound after the tee.
TeeUnrewound ==
  /\ TeesNow
  /\ Become([AfterTee(Top) EXCEPT !.temp = ReadUp(@)])
  /\ UNCHANGED <<config, out, result, loads, answer>>

Tee ==
  /\ TeesNow
  /\ Become(AfterTee(Top))
  /\ UNCHANGED <<config, out, result, loads, answer>>

\* MUTANT: the data is copied to o_rData before the tee is known to succeed.
TeeFailsLate ==
  /\ TeesNow
  /\ PassOn(Written(stack, Top.data, Unread(Top.temp)), Depth, [Top EXCEPT !.phase = "failed"], <<>>)
  /\ UNCHANGED <<config, result, loads, answer>>

TeeFails ==
  /\ TeesNow
  /\ MoveTo("failed")
  /\ UNCHANGED <<config, out, result, loads, answer>>

ReadyToPush ==
  \/ At("teed")
  \/ At("transformed") /\ Top.node \notin config.tees
  \/ At("loaded") /\ ~Transforms(Top.node) /\ Top.node \notin config.tees

\* What was not written to o_rData directly is copied to it.
Pushed(f) ==
  IF Buffers(f.node) THEN Unread(IF Transforms(f.node) THEN f.transformed ELSE f.temp)
                     ELSE <<>>
Push ==
  /\ ReadyToPush
  /\ LET s == Pushed(Top)
         f == [Top EXCEPT !.phase = "true", !.pushed = s]
     IN /\ stack' = Written([stack EXCEPT ![Depth] = f], Top.data, s)
        /\ out' = IF Top.data = 0 THEN out \o s ELSE out
  /\ UNCHANGED <<config, result, loads, answer>>
-----------------------------------------------------------------------------
(* AbstractNode::Load when something has thrown. *)

Throw ==
  /\ At("failed")
  /\ config.forward[Top.node] = NoNode
  /\ MoveTo("threw")
  /\ UNCHANGED <<config, out, result, loads, answer>>

Forward ==
  /\ At("failed")
  /\ config.forward[Top.node] # NoNode
  /\ CallFrom([Top EXCEPT !.phase = "forwarding"], config.forward[Top.node], Top.data)
  /\ UNCHANGED <<config, out, result, loads, answer>>

ForwardReturns ==
  /\ Ended("forwarding", {"true", "false"})
  /\ ResumeAs([Caller EXCEPT !.phase = "false", !.answer = Top.answer])
  /\ UNCHANGED <<config, out, result, loads, answer>>

ForwardThrows ==
  /\ Ended("forwarding", {"threw"})
  /\ ResumeAs([Caller EXCEPT !.phase = "threw"])
  /\ UNCHANGED <<config, out, result, loads, answer>>

\* DataProxyClient::HandleResult refuses what the node returned.
HandleResultThrows ==
  /\ At("true") \/ At("false")
  /\ MoveTo("threw")
  /\ UNCHANGED <<config, out, result, loads, answer>>
-----------------------------------------------------------------------------
Next ==
  \/ Request \/ RequestEnds
  \/ Ignore \/ Prepare \/ PrepareFails \/ NoAttempt \/ Attempt
  \/ LeafWrites \/ LeafReturns \/ LeafThrows \/ \E d \in DOMAIN stack : Drain(d)
  \/ RouterIsDisabled \/ HasNoRoute \/ CallRoute \/ RouteReturns \/ RouteThrows
  \/ Transform \/ TransformFails \/ Tee \/ TeeFails \/ Push
  \/ Throw \/ Forward \/ ForwardReturns \/ ForwardThrows
  \/ HandleResultThrows

Spec == Init /\ [][Next]_vars
-----------------------------------------------------------------------------
(* Properties. *)

\* The stack is one of calls, each of which writes to the client's stream or to
\* the output of a call below it and makes no more attempts than its
\* RetryCount allows.
TypeOK ==
  /\ config \in Configs
  /\ stack \in Seq(Frame)
  /\ \A d \in DOMAIN stack :
       /\ stack[d].data < d
       /\ stack[d].attempt <= config.retries[stack[d].node] + 1
  /\ out \in Seq(Chunk)
  /\ result \in {"none", "true", "false", "threw"}
  /\ loads \in Nat
  /\ answer \in Nat

\* s ends with all that the LoadImpl number k has written, in order.
EndsWith(s, k) ==
  /\ Len(s) >= Length
  /\ \A i \in 1..Length :
       LET chunk == s[Len(s) - Length + i] IN chunk.load = k /\ chunk.part = i

\* However many attempts, routes and forwards a request took: what the client has
\* at the end are all the parts of the one LoadImpl whose return made the
\* request succeed, in order and with nothing after them.  There is such a LoadImpl
\* unless a node is ignored, a router has no route or RetryCount + 1 is 0.
ReturnsWholeResult ==
  result \in {"true", "false"} =>
    IF answer > 0 THEN EndsWith(out, answer)
    ELSE \/ config.ignored # {}
         \/ \E n \in config.routers : config.route[n] = NoNode
         \/ \E n \in Nodes : Attempts(n) = 0

\* AbstractNode.cpp:224-225: with retries, a tee or transformers, nothing reaches
\* the caller's stream until all of them have succeeded.  So a node to which the
\* failure is forwarded finds the stream as the failed call found it.
FailureLeavesNoTrace ==
  \A d \in DOMAIN stack :
    (stack[d].phase = "failed" /\ Buffers(stack[d].node)) => Got(stack[d].data) = stack[d].found

\* A tee is given the data its node returns or, without forwardTransformedStream,
\* the data of which that was made: nothing is lost to an earlier reader of
\* the same stream.
TeeMatchesResult ==
  \A d \in DOMAIN stack :
    LET f == stack[d]
        whole == IF f.node \in config.transforms \ config.teesTransformed
                 THEN TransformedBy(f.node, f.teed) ELSE f.teed
    IN (f.phase = "true" /\ f.node \in config.tees \ config.ignored) => f.pushed = whole

=============================================================================
