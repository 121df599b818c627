---------------------------- MODULE PartitionNode ----------------------------
(***************************************************************************)
(* A node that splits what is stored by the value of one column and sends  *)
(* every part on by itself, with the value as a parameter                  *)
(* (PartitionNode.cpp).  A part may be refused after others were stored.   *)
(***************************************************************************)
EXTENDS CsvStreams

CONSTANT Partitions    \* configurations: key (partitionBy) and skipSort

VARIABLES
  partition,    \* the configuration
  parts,        \* what each store has come to
  stored        \* what the route has taken of each store, in order: key, lines

partitionVars == <<partition, parts, stored>>

PartitionInit ==
  /\ partition \in Partitions
  /\ parts = [r \in Request |-> [stage |-> "new", header |-> <<>>, rows |-> <<>>]]
  /\ stored = [r \in Request |-> <<>>]

\* GetPartitionKeyIndexAndCount finds the column in the header or throws.
PartitionIndex(header) == KeyIndex(header, partition.key)

\* Mutant: skipSort is read the wrong way round.
SortIfSkipped(rows, header) ==
  IF partition.skipSort THEN Sorted(rows, PartitionIndex(header)) ELSE rows

\* The command of GetSortCommand compares from the column to the end of the line.
SortUnlessSkipped(rows, header) ==
  IF partition.skipSort THEN rows ELSE Sorted(rows, PartitionIndex(header))

\* StoreImpl up to its loop.
BeginPartition(r, stream) ==
  /\ parts[r].stage = "new"
  /\ stream # <<>> /\ PartitionIndex(Head(stream)) # 0
  /\ parts' = [parts EXCEPT ![r] =
       [stage |-> "running", header |-> Head(stream),
        rows |-> SortUnlessSkipped(Tail(stream), Head(stream))]]
  /\ UNCHANGED <<partition, stored>>

\* No header, no such column, or a sort that fails.
RefusePartition(r) ==
  /\ parts[r].stage = "new"
  /\ parts' = [parts EXCEPT ![r].stage = "failed"]
  /\ UNCHANGED <<partition, stored>>

\* The lines up to the next change of the value, and the others.
RunLength(rows, i) ==
  LET changes == {n \in 2 .. Len(rows) : CellAt(rows[n], i) # CellAt(rows[n - 1], i)}
  IN  IF changes = {} THEN Len(rows) ELSE (CHOOSE n \in changes : \A k \in changes : n <= k) - 1

\* One part of the loop: the lines collected so far go to the route.
StorePart(r) ==
  /\ parts[r].stage = "running" /\ parts[r].rows # <<>>
  /\ LET rows == parts[r].rows
         i == PartitionIndex(parts[r].header)
         n == RunLength(rows, i)
     IN  /\ stored' = [stored EXCEPT ![r] =
              Append(@, [key |-> CellAt(rows[1], i), lines |-> SubSeq(rows, 1, n)])]
         /\ parts' = [parts EXCEPT ![r].rows = SubSeq(rows, n + 1, Len(rows))]
  /\ UNCHANGED partition

\* The route refuses a part: the exception ends the store, parts that were stored
\* before stay.
RefusePart(r) ==
  /\ parts[r].stage = "running" /\ parts[r].rows # <<>>
  /\ parts' = [parts EXCEPT ![r].stage = "failed"]
  /\ UNCHANGED <<partition, stored>>

\* The loop ends; with no lines nothing was sent on.
EndPartition(r) ==
  /\ parts[r].stage = "running" /\ parts[r].rows = <<>>
  /\ parts' = [parts EXCEPT ![r].stage = "done"]
  /\ UNCHANGED <<partition, stored>>

\* A bag of lines, for streams that differ in their order.
Times(lines) == [line \in Range(lines) |-> Cardinality({n \in DOMAIN lines : lines[n] = line})]

\* What was stored for a request and what is still to be stored is what the
\* request brought, line for line; a part has lines of one value only and is stored
\* under that value, and unless the sort was skipped a value is stored in one part
\* only, so that no part replaces another. (PartitionNode::StoreImpl)
PartsAreRight(r, stream) ==
  parts[r].stage \in {"running", "done"} =>
    LET mine == stored[r]
        taken == FlattenSeq([n \in DOMAIN mine |-> mine[n].lines])
        i == PartitionIndex(Head(stream))
    IN  /\ Times(taken \o parts[r].rows) = Times(Tail(stream))
        /\ parts[r].stage = "done" => Times(taken) = Times(Tail(stream))
        /\ \A n \in DOMAIN mine : \A line \in Range(mine[n].lines) : CellAt(line, i) = mine[n].key
        /\ ~ partition.skipSort =>
             \A n, k \in DOMAIN mine : mine[n].key = mine[k].key => n = k
=============================================================================
