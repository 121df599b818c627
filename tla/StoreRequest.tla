---------------------------- MODULE StoreRequest ----------------------------
(***************************************************************************)
(* One Store or Delete request on its way through the nodes: the retries   *)
(* and the failure forwarding of AbstractNode, the routes of RouterNode,   *)
(* and the one stream they all read.                                       *)
(*                                                                         *)
(* The calls nest, so the state is a stack of them.  A node that is not a  *)
(* router is a leaf: its StoreImpl reads as far as it likes and returns or *)
(* throws.  A stream is its position; positions count lumps of text.       *)
(***************************************************************************)
EXTENDS Naturals, Sequences

CONSTANTS
  Nodes,
  NoNode,     \* ForwardNodeName is null
  Configs,    \* requests, each with the configuration it meets
  Length,     \* of a stream
  UintSize    \* how many values a uint has

Route == [node : Nodes, critical : BOOLEAN]
CriticalErrorBehavior == {"stop", "finishCriticals", "finishAll"}

ConfigType ==
  [operation : {"store", "delete"},
   root : Nodes,                           \* the node the client names
   entry : 0..Length,                      \* where the client's stream is
   ignored : SUBSET Nodes,                 \* Operation is OPERATION_IGNORE
   retries : [Nodes -> 0..(UintSize - 1)], \* RetryCount
   forward : [Nodes -> Nodes \cup {NoNode}],  \* ForwardNodeName
   transforms : SUBSET Nodes,              \* HasStreamTransformers
   forwardsTransformed : SUBSET Nodes,     \* UseTransformedStream
   routers : SUBSET Nodes,
   routes : [Nodes -> Seq(Route)],         \* m_WriteRoute or m_DeleteRoute
   onCriticalError : [Nodes -> CriticalErrorBehavior]]

ASSUME RequestAssumption ==
  /\ Length \in Nat
  /\ UintSize \in Nat \ {0}
  /\ NoNode \notin Nodes
  /\ Configs \subseteq ConfigType

VARIABLES
  config,   \* the request and its configuration
  stack,    \* the calls of Store or Delete that have not returned, outermost first
  streams,  \* the client's stream, then the transformed ones the calls made
  result,   \* what the client got
  served,   \* history: nodes a call to which returned normally
  calls,    \* history: how often each node was called
  stored    \* history: how often each leaf's StoreImpl or DeleteImpl succeeded

history == <<served, calls, stored>>
vars == <<config, stack, streams, result, history>>

Phases == {"enter", "attempt", "impl", "routing", "calling", "failed",
           "forwarding", "true", "false", "threw"}

Frame ==
  [node : Nodes,
   phase : Phases,
   own : Nat \ {0},      \* i_rData
   use : Nat \ {0},      \* pUseData
   below : Nat \ {0},    \* how many streams there were before the call
   inputPos : 0..Length,
   attempt : Nat \ {0},
   next : Nat \ {0},     \* destinationIter
   criticalFailed : BOOLEAN,  \* criticalExceptionNames is not empty
   success : BOOLEAN]

\* pos: tellg.  start: where what has to be stored begins.  whole: the stream
\* was made from everything its source had to give.
Stream == [pos : 0..Length, start : 0..Length, whole : BOOLEAN]

\* A call that begins: its inputPos is where it finds its stream.
Called(n, k, p) ==
  [node |-> n, phase |-> "enter", own |-> k, use |-> k, below |-> Len(streams),
   inputPos |-> p, attempt |-> 1, next |-> 1, criticalFailed |-> FALSE, success |-> FALSE]

Depth == Len(stack)
Top == stack[Depth]
Caller == stack[Depth - 1]
IsStore == config.operation = "store"
Count(f, n) == [f EXCEPT ![n] = @ + 1]
Seek(k, p) == [streams EXCEPT ![k].pos = p]

Become(f) == stack' = [stack EXCEPT ![Depth] = f]
MoveTo(phase) == Become([Top EXCEPT !.phase = phase])

\* f calls n with stream k, sought to position p.
CallFrom(f, n, k, p) ==
  /\ stack' = Append([stack EXCEPT ![Depth] = f], Called(n, k, p))
  /\ streams' = Seek(k, p)
  /\ calls' = Count(calls, n)

\* The callee is gone, with the streams it made, and its caller goes on as f.
ResumeAs(f) ==
  /\ stack' = [SubSeq(stack, 1, Depth - 1) EXCEPT ![Depth - 1] = f]
  /\ streams' = SubSeq(streams, 1, Top.below)

Init ==
  /\ config \in Configs
  /\ stack = <<>>
  /\ streams = <<>>
  /\ result = "none"
  /\ served = {}
  /\ calls = [n \in Nodes |-> 0]
  /\ stored = [n \in Nodes |-> 0]
-----------------------------------------------------------------------------
(* The client. *)

Request ==
  /\ stack = <<>>
  /\ streams' = <<[pos |-> config.entry, start |-> config.entry, whole |-> TRUE]>>
  /\ stack' = <<[Called(config.root, 1, config.entry) EXCEPT !.below = 1]>>
  /\ result' = "none"
  /\ served' = {}
  /\ calls' = Count([n \in Nodes |-> 0], config.root)
  /\ stored' = [n \in Nodes |-> 0]
  /\ UNCHANGED config

RequestEnds ==
  /\ Depth = 1
  /\ Top.phase \in {"true", "false", "threw"}
  /\ result' = Top.phase
  /\ served' = IF Top.phase = "threw" THEN served ELSE served \cup {Top.node}
  /\ stack' = <<>>
  /\ streams' = <<>>
  /\ UNCHANGED <<config, calls, stored>>
-----------------------------------------------------------------------------
(* AbstractNode: what happens around StoreImpl and DeleteImpl. *)

Entered == Depth > 0 /\ Top.phase = "enter" /\ Top.node \notin config.ignored

Ignore ==
  /\ Depth > 0
  /\ Top.phase = "enter"
  /\ Top.node \in config.ignored
  /\ MoveTo("true")
  /\ UNCHANGED <<config, streams, result, history>>

\* The parameters are valid, and nothing is to be transformed.
Prepare ==
  /\ Entered
  /\ ~(IsStore /\ Top.node \in config.transforms)
  /\ MoveTo("attempt")
  /\ streams' = Seek(Top.own, Top.inputPos)
  /\ UNCHANGED <<config, result, history>>

\* TransformStream reads the stream from inputPos and makes a new one.
Transformed ==
  LET whole == streams[Top.own].whole /\ Top.inputPos = streams[Top.own].start
  IN Append(Seek(Top.own, Length), [pos |-> 0, start |-> 0, whole |-> whole])

PrepareTransformed(phase) ==
  /\ Entered
  /\ IsStore
  /\ Top.node \in config.transforms
  /\ streams' = Transformed
  /\ Become([Top EXCEPT !.phase = phase, !.use = Len(streams) + 1])
  /\ UNCHANGED <<config, result, history>>

\* A missing parameter, a translator or a transformer that throws: the call
\* has no transformed stream yet.
PrepareFails ==
  /\ Entered
  /\ MoveTo("failed")
  /\ \/ UNCHANGED streams
     \/ \E p \in Top.inputPos..Length : IsStore /\ streams' = Seek(Top.own, p)
  /\ UNCHANGED <<config, result, history>>

\* transformedInputPos where there is a transformed stream.
RetryPos(f) == IF f.use = f.own THEN f.inputPos ELSE 0

\* RetryCount + 1, a uint.
Attempts(n) == (config.retries[n] + 1) % UintSize

\* The loop has no attempt to make and falls through to the end.
NoAttempt ==
  /\ Depth > 0
  /\ Top.phase = "attempt"
  /\ Attempts(Top.node) = 0
  /\ MoveTo("false")
  /\ UNCHANGED <<config, streams, result, history>>

Attempt ==
  /\ Depth > 0
  /\ Top.phase = "attempt"
  /\ Attempts(Top.node) > 0
  /\ streams' = IF IsStore THEN Seek(Top.use, RetryPos(Top)) ELSE streams
  /\ Become([Top EXCEPT !.phase = IF Top.node \in config.routers THEN "routing" ELSE "impl",
                        !.next = 1, !.criticalFailed = FALSE, !.success = FALSE])
  /\ UNCHANGED <<config, result, history>>

\* MUTANT: a retry that is not counted.
AfterFailedAttemptForever(f) ==
  IF f.attempt <= config.retries[f.node]
  THEN [f EXCEPT !.phase = "attempt"]
  ELSE [f EXCEPT !.phase = "failed"]

\* What a call becomes when StoreImpl or DeleteImpl throws.
AfterFailedAttempt(f) ==
  IF f.attempt <= config.retries[f.node]
  THEN [f EXCEPT !.phase = "attempt", !.attempt = @ + 1]
  ELSE [f EXCEPT !.phase = "failed"]
-----------------------------------------------------------------------------
(* A leaf: StoreImpl or DeleteImpl of any node that is not a router. *)

InLeaf == Depth > 0 /\ Top.phase = "impl"
Reads == \E p \in streams[Top.use].pos..Length :
           streams' = IF IsStore THEN Seek(Top.use, p) ELSE streams

\* MUTANT: the loop goes on after a success.
LeafSucceedsAndRetries ==
  /\ InLeaf
  /\ Reads
  /\ Become(AfterFailedAttempt(Top))
  /\ stored' = Count(stored, Top.node)
  /\ UNCHANGED <<config, result, served, calls>>

LeafSucceeds ==
  /\ InLeaf
  /\ Reads
  /\ MoveTo("true")
  /\ stored' = Count(stored, Top.node)
  /\ UNCHANGED <<config, result, served, calls>>

LeafThrows ==
  /\ InLeaf
  /\ Reads
  /\ Become(AfterFailedAttempt(Top))
  /\ UNCHANGED <<config, result, history>>
-----------------------------------------------------------------------------
(* RouterNode: StoreImpl and DeleteImpl. *)

Routing == Depth > 0 /\ Top.phase = "routing"
Destinations == config.routes[Top.node]
Behaves(router, behavior) == config.onCriticalError[router.node] = behavior
ProcessOnlyCriticals == Top.criticalFailed /\ Behaves(Top, "finishCriticals")

SkipRoute ==
  /\ Routing
  /\ Top.next <= Len(Destinations)
  /\ ProcessOnlyCriticals
  /\ ~Destinations[Top.next].critical
  /\ Become([Top EXCEPT !.next = @ + 1])
  /\ UNCHANGED <<config, streams, result, history>>

\* MUTANT: each route reads on from where the last one stopped.
CallRouteUnrewound ==
  /\ Routing
  /\ Top.next <= Len(Destinations)
  /\ Destinations[Top.next].critical \/ ~ProcessOnlyCriticals
  /\ CallFrom([Top EXCEPT !.phase = "calling"], Destinations[Top.next].node, Top.use,
              streams[Top.use].pos)
  /\ UNCHANGED <<config, result, served, stored>>

\* Every route reads from where the router found the stream.
CallRoute ==
  /\ Routing
  /\ Top.next <= Len(Destinations)
  /\ Destinations[Top.next].critical \/ ~ProcessOnlyCriticals
  /\ CallFrom([Top EXCEPT !.phase = "calling"], Destinations[Top.next].node, Top.use,
              IF IsStore THEN RetryPos(Top) ELSE streams[Top.use].pos)
  /\ UNCHANGED <<config, result, served, stored>>

Ended(phase, outcomes) == Depth > 1 /\ Caller.phase = phase /\ Top.phase \in outcomes

RouteReturns ==
  /\ Ended("calling", {"true", "false"})
  /\ ResumeAs([Caller EXCEPT !.phase = "routing", !.next = @ + 1, !.success = TRUE])
  /\ served' = served \cup {Top.node}
  /\ UNCHANGED <<config, result, calls, stored>>

CriticalRoute == config.routes[Caller.node][Caller.next].critical

\* A critical route throws and the router passes it on at once ...
StopAtRoute ==
  /\ Ended("calling", {"threw"})
  /\ CriticalRoute /\ Behaves(Caller, "stop")
  /\ ResumeAs(AfterFailedAttempt(Caller))
  /\ UNCHANGED <<config, result, history>>

\* ... or remembers it, and goes on.
RouteThrows ==
  /\ Ended("calling", {"threw"})
  /\ ~(CriticalRoute /\ Behaves(Caller, "stop"))
  /\ ResumeAs([Caller EXCEPT !.phase = "routing", !.next = @ + 1,
                             !.criticalFailed = @ \/ CriticalRoute])
  /\ UNCHANGED <<config, result, history>>

RoutesDone == Routing /\ Top.next > Len(Destinations)
\* MUTANT: any success will do.
RouterFailsAlone == Destinations # <<>> /\ ~Top.success

RouterFails == Destinations # <<>> /\ (Top.criticalFailed \/ ~Top.success)

RouterReturns ==
  /\ RoutesDone
  /\ ~RouterFails
  /\ MoveTo("true")
  /\ UNCHANGED <<config, streams, result, history>>

RouterThrows ==
  /\ RoutesDone
  /\ RouterFails
  /\ Become(AfterFailedAttempt(Top))
  /\ UNCHANGED <<config, streams, result, history>>
-----------------------------------------------------------------------------
(* AbstractNode: the attempts are used up. *)

Failed == Depth > 0 /\ Top.phase = "failed"

Throw ==
  /\ Failed
  /\ config.forward[Top.node] = NoNode
  /\ MoveTo("threw")
  /\ UNCHANGED <<config, streams, result, history>>

\* transformedInputPos is 0, whether there is a transformed stream or not.
Forward ==
  /\ Failed
  /\ config.forward[Top.node] # NoNode
  /\ LET transformed == Top.node \in config.forwardsTransformed
         k == IF transformed THEN Top.use ELSE Top.own
         p == IF transformed THEN 0 ELSE Top.inputPos
     IN CallFrom([Top EXCEPT !.phase = "forwarding"], config.forward[Top.node], k,
                 IF IsStore THEN p ELSE streams[k].pos)
  /\ UNCHANGED <<config, result, served, stored>>

ForwardReturns ==
  /\ Ended("forwarding", {"true", "false"})
  /\ ResumeAs([Caller EXCEPT !.phase = "false"])
  /\ served' = served \cup {Top.node}
  /\ UNCHANGED <<config, result, calls, stored>>

ForwardThrows ==
  /\ Ended("forwarding", {"threw"})
  /\ ResumeAs([Caller EXCEPT !.phase = "threw"])
  /\ UNCHANGED <<config, result, history>>

\* DataProxyClient::HandleResult refuses what the node returned: the automatic
\* commit or rollback throws, or the node is marked both ways.
HandleResultThrows ==
  /\ Depth > 0
  /\ Top.phase \in {"true", "false"}
  /\ MoveTo("threw")
  /\ UNCHANGED <<config, streams, result, history>>
-----------------------------------------------------------------------------
Work ==
  \/ Ignore \/ Prepare \/ PrepareTransformed("attempt") \/ PrepareTransformed("failed")
  \/ PrepareFails \/ NoAttempt \/ Attempt
  \/ LeafSucceeds \/ LeafThrows
  \/ SkipRoute \/ CallRoute \/ RouteReturns \/ StopAtRoute \/ RouteThrows
  \/ RouterReturns \/ RouterThrows
  \/ Throw \/ Forward \/ ForwardReturns \/ ForwardThrows
  \/ HandleResultThrows \/ RequestEnds

Next == Work \/ Request

Spec == Init /\ [][Next]_vars

\* The thread of the request runs on, whatever it calls.
FairSpec == Spec /\ WF_vars(Work)
-----------------------------------------------------------------------------
(* Properties. *)

\* The stack is one of calls, each in a phase its node can be in; no call makes
\* more attempts than its RetryCount allows, and the streams are all there.
TypeOK ==
  /\ config \in Configs
  /\ streams \in Seq(Stream)
  /\ stack \in Seq(Frame)
  /\ \A d \in DOMAIN stack :
       /\ stack[d].own \in DOMAIN streams
       /\ stack[d].use \in DOMAIN streams
       /\ stack[d].below \in DOMAIN streams
       /\ stack[d].attempt <= config.retries[stack[d].node] + 1
       /\ stack[d].next <= Len(config.routes[stack[d].node]) + 1
  /\ result \in {"none", "true", "false", "threw"}
  /\ served \subseteq Nodes
  /\ calls \in [Nodes -> Nat]
  /\ stored \in [Nodes -> Nat]

\* Whatever earlier attempts and other routes have read, StoreImpl of a leaf
\* finds the stream at the beginning of what the client gave, or of all of it
\* transformed.  (The condition leaves out the stores that fail on a node with
\* forwardTransformedStream before there is a transformed stream: they are
\* forwarded from position 0, AbstractNode.cpp:538, wherever the client's stream was.)
WholePayload ==
  (config.entry = 0 \/ config.forwardsTransformed = {}) =>
    \A d \in DOMAIN stack :
      (IsStore /\ stack[d].phase = "impl") =>
        LET s == streams[stack[d].use] IN s.pos = s.start /\ s.whole

\* "Try the maximum # of retries" (AbstractNode.cpp:591): a call tries at least
\* once.  So a node whose call returned normally has the data behind it: the leaf has
\* stored, a router has reached all its critical routes and at least one route,
\* or the node the failure was forwarded to has returned normally.
Backed(n) ==
  \/ n \in config.ignored
  \/ stored[n] > 0
  \/ config.forward[n] \in served
  \/ /\ n \in config.routers
     /\ \A i \in DOMAIN config.routes[n] :
          config.routes[n][i].critical => config.routes[n][i].node \in served
     /\ config.routes[n] # <<>> =>
          \E i \in DOMAIN config.routes[n] : config.routes[n][i].node \in served

ReturnsOnlyWhenBacked ==
  /\ \A n \in served : Backed(n)
  /\ result \in {"true", "false"} => config.root \in served

\* The same, unless a RetryCount has the largest value a uint can have.
RetriesFit == \A n \in Nodes : config.retries[n] + 1 < UintSize
SuccessIsBacked == RetriesFit => ReturnsOnlyWhenBacked

\* However often calls are retried and forwarded, one call of a leaf stores or
\* deletes successfully once at most: a success is never followed by a retry.
StoredOncePerCall == \A n \in Nodes : stored[n] <= calls[n]

\* A router whose loop is over has called all its critical routes, whatever
\* threw on the way, and the others too unless it is to finish criticals only.
EveryRouteIsTried ==
  RoutesDone =>
    \A i \in DOMAIN Destinations :
      (Destinations[i].critical \/ ~ProcessOnlyCriticals) => calls[Destinations[i].node] > 0

\* Every request ends, with a result or an exception.
Ends == stack # <<>> ~> stack = <<>>
=============================================================================
