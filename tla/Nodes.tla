------------------------------- MODULE Nodes -------------------------------
(***************************************************************************)
(* The node modules as one specification, in which a behaviour is about    *)
(* one of three things: requests through a join and a partition, requests  *)
(* through the translator of a node, or one computation on a configuration *)
(* and its input.                                                          *)
(***************************************************************************)
EXTENDS NodePipeline, ParameterTranslator, SortedAggregate, StoreColumns, ForwardCycles

CONSTANT Computations    \* what is computed, and from what: records with a kind

\* The keys and the fields that a configuration of an aggregate can have.
Keys == [name : STRING, modify : {"", "half"}]

Fields == [name : STRING, varName : STRING, op : {"sum", "last", "count"}, init : Int,
           output : {"aggregate", "fixed", ""}, modify : {"", "half"}]

\* A configuration file names finitely many nodes and columns, a request finitely
\* many parameters; a stream is a header and lines, here with a cell per column.
ASSUME NodesAssumption ==
  \A w \in Computations :
    /\ w.kind = "cycles" => IsFiniteSet(DOMAIN w.nodes)
    /\ w.kind \in {"aggregate", "sorted"} =>
         /\ w.header \in Seq(STRING) /\ w.lines \in Seq([DOMAIN w.header -> Int])
         /\ w.keys \in Seq(Keys) /\ w.fields \in Seq(Fields) /\ w.passed \subseteq Nat
    /\ w.kind = "columns" =>
         /\ w.policy \in Policies /\ w.header \in Seq(Nat \ {0}) /\ w.lines \in Seq(Seq(Nat))
         /\ DOMAIN w.required \subseteq Nat \ {0} /\ IsFiniteSet(DOMAIN w.required)
         /\ DOMAIN w.parameters \subseteq Nat \ {0} /\ IsFiniteSet(DOMAIN w.parameters)

VARIABLES
  task,       \* what a behaviour is about
  work,       \* a computation and its input
  answer      \* its result, <<>> for a refusal

\* What the code makes of it.
Result(w) ==
  CASE w.kind = "aggregate" -> TransformInput(w.header, w.lines, w.keys, w.fields, w.skipGroup, w.passed)
    [] w.kind = "sorted"    -> AggregateFields(w.header, w.lines, w.keys, w.fields, w.skipGroup, w.passed)
    [] w.kind = "columns"   -> StoredTable(w.required, w.policy, w.header, w.lines, w.parameters)
    [] w.kind = "cycles"    -> IF NoCycles(w.nodes) THEN <<"accepted">> ELSE <<>>

-----------------------------------------------------------------------------
vars == <<pipelineVars, translatorVars, task, work, answer>>

NoPipeline ==
  /\ side = <<>> /\ keys = <<>> /\ content = <<>> /\ files = {} /\ calls = <<>>
  /\ partition = <<>> /\ parts = <<>> /\ stored = <<>>

NoTranslator == parameters = <<>> /\ delayed = {} /\ asked = <<>>

NoWork == work = <<>> /\ answer = <<>>

Init ==
  \/ task = "pipeline" /\ PipelineInit /\ NoTranslator /\ NoWork
  \/ task = "translate" /\ TranslatorInit /\ NoPipeline /\ NoWork
  \/ task = "compute" /\ NoPipeline /\ NoTranslator /\ answer = <<>>
       /\ work \in Computations

Compute ==
  /\ task = "compute"
  /\ task' = "computed" /\ answer' = Result(work)
  /\ UNCHANGED <<pipelineVars, translatorVars, work>>

Next ==
  \/ task = "pipeline" /\ (\E r \in Request : JoinThenPartition(r))
       /\ UNCHANGED <<translatorVars, task, work, answer>>
  \/ task = "translate" /\ (\E c \in Caller : TranslatorStep(c))
       /\ UNCHANGED <<pipelineVars, task, work, answer>>
  \/ Compute

Spec == Init /\ [][Next]_vars

-----------------------------------------------------------------------------
\* Whatever a node of another type, a second request or a failing command does
\* between two steps, what a request is answered with, or sends on, is the join of
\* the streams by the names of their columns. (JoinNode::WriteHorizontalJoin)
JoinsAreRight == task = "pipeline" => JoinIsRight

\* In the same way, streams that are appended arrive one after the other, each
\* without the lines it is to skip, and a request with nothing to join as it is.
\* (JoinNode::LoadImpl, StoreImpl)
AppendsAreRight == task = "pipeline" => AppendIsRight

\* The sorted copies of the joined streams are there as long as the command needs
\* them and no longer; only a request that failed leaves some. (JoinNode::
\* WriteHorizontalJoin, step 4)
TempFilesAccounted == task = "pipeline" => FilesAccounted

\* Of what a join sends to a partition every line is stored once, under its own
\* value, and a request is answered only when all of it was stored.
\* (JoinNode::StoreImpl, PartitionNode::StoreImpl)
PartitionsAreRight == task = "pipeline" => PartitionedOnce

\* The parameters of a request become what the configuration says of each name by
\* itself, in whatever order the four loops meet it and whichever request is
\* translated in between. (ParameterTranslator::Translate,
\* TranslateDelayedParameters)
TranslationsAreRight == task = "translate" => TranslationIsRight

\* The awk programs find every column where the reordering has left it: one line
\* per group, with the aggregates of exactly that group.
\* (GroupingAggregateStreamTransformer::TransformInput,
\* AggregateStreamTransformer::TransformInput)
AggregatesAreRight ==
  /\ task = "computed" /\ work.kind = "aggregate" =>
       IsAggregate(work.header, work.lines, work.keys, work.fields, work.skipGroup, work.passed,
                   answer)
  /\ task = "computed" /\ work.kind = "sorted" =>
       IsSortedAggregate(work.header, work.lines, work.keys, work.fields, work.skipGroup,
                         work.passed, answer)

\* A store to a database takes every column from the one place that the policy
\* names, and is refused when there is none or more than one.
\* (DatabaseProxy::StoreImpl, WriteDataFile)
StoredColumnsAreRight ==
  task = "computed" /\ work.kind = "columns" =>
    ColumnsAreRight(work.required, work.policy, work.header, work.lines, work.parameters, answer)

\* Of the configurations that report their forwards, one that is accepted has no
\* request that goes round or to no node, and one that is refused has one, unless a
\* join that stores is in it. (DataProxyClient::CheckForCycles)
CyclesAreRefused ==
  task = "computed" /\ work.kind = "cycles" => AcceptsTheAcyclic(work.nodes, answer # <<>>)
=============================================================================
