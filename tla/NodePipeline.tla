---------------------------- MODULE NodePipeline ----------------------------
(***************************************************************************)
(* A join in front of a partition: what JoinNode::StoreImpl sends on is    *)
(* what PartitionNode::StoreImpl splits, and its answer is the answer of   *)
(* both.                                                                   *)
(***************************************************************************)
EXTENDS JoinNode, PartitionNode

pipelineVars == <<side, keys, content, files, calls, partition, parts, stored>>

PipelineInit == JoinInit /\ PartitionInit

\* Store( m_WriteEndpoint, ... )
SendOn(r) ==
  /\ Call(r).stage = "store"
  /\ BeginPartition(r, Call(r).out) \/ RefusePartition(r)
  /\ UNCHANGED joinVars

\* The loop of the partition, while the join waits.
SplitOn(r) ==
  /\ StorePart(r) \/ RefusePart(r) \/ EndPartition(r)
  /\ UNCHANGED joinVars

\* The partition returned, or threw.
Answered(r) ==
  /\ Call(r).stage = "store"
  /\ \/ parts[r].stage = "done" /\ Stored(r)
     \/ parts[r].stage = "failed" /\ Fail(r)
  /\ UNCHANGED partitionVars

\* What a request is stored as by both nodes together.
JoinThenPartition(r) ==
  \/ Call(r).stage # "store" /\ JoinStep(r) /\ UNCHANGED partitionVars
  \/ SendOn(r) \/ SplitOn(r) \/ Answered(r)

\* The lines of the join are stored once each, under their own value, and a
\* request that was answered stored all of them.
\* (JoinNode::StoreImpl, PartitionNode::StoreImpl)
PartitionedOnce ==
  \A r \in Request :
    /\ parts[r].stage # "new" => PartsAreRight(r, Call(r).out)
    /\ side.op = "store" /\ Call(r).stage = "done" =>
         PartsAreRight(r, Call(r).out) /\ parts[r].stage = "done"
=============================================================================
