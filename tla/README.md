# DataProxyLibrary in TLA+

Specifications of the Data Proxy Library (`src/DataProxy`), the TLC
configurations that check them, and proofs of what they are meant to
guarantee. Paths below are relative to `src/DataProxy`.

## The system

A program has one `DataProxyClient`. `Initialize` reads an XML file of named
nodes, and `Load`, `Store`, `Delete` and `Ping` name the node that is to serve
the request. A node serves it itself (a file, a database, a command, a REST
service) or passes it to other nodes through the client (`RequestForwarder`),
so one request is a tree of nested calls. Requests may be made inside a
transaction, which ends with `Commit` or `Rollback` of every node it reached.

| Component | State | Operations | What must be true |
|---|---|---|---|
| `DataProxyClient` | `m_Nodes`, `m_ConfigFileMD5`, `m_InsideTransaction`, the vectors of nodes to commit and to roll back, `m_ConfigMutex` | `Initialize`, requests, `BeginTransaction`, `Commit`, `Rollback`, destructor | every node that has registered work is decided once, the right way, and nothing leaks into the next transaction |
| `AbstractNode` | the configuration of a node; per request: attempt, stream positions, temporary streams | `Load`, `Store`, `Delete`, `Ping` around the node's own `*Impl` | a retry starts from the same data, a success is not repeated, a result is that of one attempt |
| `RouterNode` | lists of routes, `onCriticalError` | the same, over its routes | a success means what the critical routes were asked to do is done |
| `PartitionNode`, `JoinNode` | per request, but for the keys of a join, which a request with several keys rewrites | split a stream; join streams | every row reaches one partition; the result is the join by the names of the columns |
| `LocalFileProxy` | `m_PendingOps`: per file, what `Commit` is to do; pending files on disk | `Load`, `Store`, `Delete`, `Commit`, `Rollback` | data is written once, whole, in order, and only by `Commit` |
| `DatabaseProxy` | `m_PendingCommits`, `m_PendingDrops`, the staging tables | the same, in SQL | what a request executed is committed with its transaction, and no other |
| `DatabaseConnectionManager` | pools of connections, the shard tables; a watcher thread | `GetConnection`, `WatchPools`, `RefreshConnectionsByTable`, `ClearConnections` | pools stay between their bounds; a connection is not replaced under a transaction |
| `ExecutionProxy`, `RestDataProxy` | none between requests | run a command; make an HTTP request | - |
| `ParameterTranslator` | the parameters whose value waits for the data, shared by all requests of a node | `Translate`, `TranslateDelayedParameters` | every name gets what its own configuration says |
| stream transformers | none | functions of streams | the program that is generated reads the columns it means |
| Service, Shell | one client for all threads; one client | HTTP handlers; one request in one transaction | a re-initialization does not disturb a request |

They interact by nested calls (client - node - forwarder - client), by shared
state (one client and one set of nodes for all threads of the service, one
connection manager for all database nodes), and through the world (files,
databases). What is hard is listed in `PROJECT.json` under `hazards`, each at
its line: orders of failures inside a transaction, nested retries over one
stream, calls of several threads on one node, checks made outside the lock
that covers the change, crashes between two file operations, a watcher that
decides on a stale size.

## Modules

| Module | What it models | Proofs |
|---|---|---|
| `TransactionProtocol` | abstract: marks are set, carried out and dropped | |
| `DataProxyClient` | `DataProxyClient.cpp`: the transaction bookkeeping | `DataProxyClientProofs` |
| `LocalFileProxy` | `LocalFileProxy.cpp`: Store, Delete, Commit, Rollback | `LocalFileProxyProofs` |
| `ConnectionPool` | `DatabaseConnectionManager.cpp`: one dynamic pool and its watcher | `LockingProofs` |
| `StoreRequest` | `AbstractNode.cpp` and `RouterNode.cpp`: Store and Delete | `StoreRequestProofs` |
| `LoadRequest` | `AbstractNode.cpp` and `RouterNode.cpp`: Load | `LoadRequestProofs` |
| `DatabaseProxy` | `DatabaseProxy.cpp`: Load, Store, Delete, the staging tables, Commit, Rollback | `DatabaseProxyProofs` |
| `ConfigLock` | `DataProxyClient.cpp` with several threads: `m_ConfigMutex`, the digest, re-initialization, the shard tables of `DatabaseConnectionManager.cpp` | `LockingProofs` |
| `CsvStreams` | lines and cells, and `sort` and `join` as the nodes call them | |
| `NameOrder` | loops over a `std::map` | |
| `Positions` | the loops that take some elements of a list | |
| `JoinNode` | `JoinNode.cpp`: Load and Store | `JoinNodeProofs` (lemmas) |
| `PartitionNode` | `PartitionNode.cpp`: Store | |
| `NodePipeline` | a join whose write endpoint is a partition | |
| `ParameterTranslator` | `ParameterTranslator.cpp` | |
| `GroupingAggregate` | `GroupingAggregateStreamTransformer.cpp` | |
| `SortedAggregate` | `AggregateStreamTransformer.cpp` | |
| `StoreColumns` | `DatabaseProxy.cpp`: where a store finds its columns | |
| `ForwardCycles` | `DataProxyClient.cpp`: `CheckForCycles`, and the forwards nodes report | |
| `Nodes` | the modules from `CsvStreams` on as one specification | `NodesProofs` |

`MC...` modules give the constants values for TLC. In `Nodes` a behaviour is about one
of three things: requests through a join and a partition, requests through a
translator, or one computation (an aggregate, the columns of a store, the check for
cycles) from an input to its result.

### DataProxyClient

The variables are the members of the class. A request is a `stack` of visited
nodes: `Request` puts the node the client names on it, `Forward` one that the
node on top forwards to, and a visit ends with `VisitThrows` or with
`HandleResult`, which registers the visit's work and marks the node, in the
order of the code (a node is marked after the nodes it forwarded to). `Commit`
and `PrivateRollback` are loops over the vectors, one step per node
(`CommitNode`, `CommitRollbacks`, `RollbackCommitNode`, `RollbackNode`), and
each node may throw. `resume` is what follows a rollback: a return, the new
transaction of `BeginTransaction( true )`, the parsing of `Initialize`, or the
end of the destructor. What a node has registered and not decided is a set
of work items, `staged`; what it has committed, `durable`. A visit that throws may have
registered too: a MySQL load registers its connection (`DatabaseProxy.cpp:829`) before the
transformers and the tee of its node (`AbstractNode.cpp:274-310`), which may throw. No
vector then names the node, and it keeps the connection until it is decided for another
reason. So `RegisteredIsMarked` speaks of the work of visits that returned (`Returned`);
what such a load has registered is a read, and `durable` does not count it.

`TransactionProtocol` says what the client promises without vectors or
requests. `DataProxyClient` implements it under the refinement mapping at its
end (`ImplementsProtocol`, proved as well as checked): the phase is read off the
call in progress, the marks off the vectors.

### LocalFileProxy

Several threads are in `Store`, `Delete`, `Commit` and `Rollback` of one node.
`m_PendingOpsMutex` is `holder`; what the code does before it takes the lock
(writing the pending file, looking whether a file exists) are steps of their
own. `Commit` is one step per file operation that may fail: the deletion, the
opening of the commit file, each append, the move. `CommitThrows` leaves what
the exception leaves, in memory and on disk. `Stop` is the end of the process:
the disk stays. `damaged` says that a call failed halfway or the process
stopped; only `PendingFilesMatch` looks at it.

The code looks at no stream after it has copied into it: what the destination holds (398,
400), a pending file (424, 426) and the data still in the buffer at `close` (434) may get
into the commit file in part or not at all, and `Commit` goes on, removes the pending file
and moves the commit file. In the model every copy has these outcomes; `merge.broken` is a
stream that has failed, which takes nothing more, and `merge.cut` says that data was left
out. `CommitIsComplete` therefore says two things: what is moved is never more than the
destination and the listed Stores, and it is all of them, in their order, unless `cut`.
The pending file that a Store writes is closed without a look too (241), so the data of a
Store is, here, what its pending file holds.

### ConnectionPool

`GetConnection` of each caller runs through the phases of
`PrivateGetConnection`: the search under the shared lock (`Find`, `Miss`), the
search and growth under the unique lock (`FindLate`, `Grow`, `Share` and the
steps where a ping fails), and the reset of the timer when all connections are
in use. A handle is given back without any lock (`Release`). `TryReducePool`
decides, then takes the lock, then removes and renumbers one connection at a
time. Connections age and break at any time.

### StoreRequest

The calls of `AbstractNode::Store` and `Delete` that have not returned are a
stack of frames with their local variables (`inputPos`, the stream in use,
the attempt, the route). A leaf's `StoreImpl` reads as far as it likes and
returns or throws; a router's calls its routes. `streams` holds the position
of the client's stream and of the transformed ones, which are gone when the
call that made them returns. A stream is a position, where its data begins,
and whether it was made from all of its source's data.

### LoadRequest

The calls of `AbstractNode::Load` that have not returned are a stack of frames
again, here with what they write. `LoadImpl` writes to `output`, a
`filtering_ostream` that passes what it has kept to its sink when a buffer is
full (`Drain`), when it is flushed or reset (`FlushAs`), and when an exception
destroys it. The sink is the temporary stream if the call has a retry, a tee or
a transformer (`Buffers`), otherwise the stream of the caller: `data` is the
depth of the call whose `output` that is, or 0 for the client's stream. So a
router's `output` gets what the leaf below it pushes, and a node to which a
failure is forwarded writes where the failed call would have written. Data are
chunks that know which `LoadImpl` wrote them and which nodes have transformed
them since; the read position of the two temporary streams is kept, because the
transformer, the tee and the final copy read one after the other. `found`,
`got`, `teed` and `pushed` are history for the properties. The handler of
`BadStreamException` (350) is left out: nothing in `src` throws one.

### DatabaseProxy

Threads share one node. An attempt is one call of `LoadImpl`, `StoreImpl` or
`DeleteImpl`, one step per statement, each of which may throw. `open` is what
each connection has executed and nobody has decided; another request, or the
`Commit` of another thread, may use the same connection. `tables`, `content`
and `files` are the staging tables and data files; `temp[t]` is the
`ScopedTempTable` of the thread, which goes to `m_PendingDrops` (`drops`) when
its attempt ends. A dynamic table has the number of its attempt as its name, or
none when `maxTableNameLength` cuts it off (`cut`); a static one is shared and
protected by `m_TableMutex`. `Commit` and `Rollback` go through
`m_PendingCommits` a connection at a time, with the lock, and may throw. The
client around the node is reduced to `inside` and `marked`. The insert that a
Load makes without the lock (829) is two steps, `LoadReads` and `LoadInserts`;
`raced` records that something came between.

### ConfigLock

The threads of the service call `Initialize` before every request. The model
has its unlocked comparison of digests, the second one with the lock
(`Recheck`), and the steps of rebuilding the nodes; the file is edited between
any two of them. `m_ConfigMutex` is a `boost::shared_mutex`: a thread that waits
to write keeps new readers out (`blocked`). Inside a request, `readers[t]`
becomes 2 where the code locks it a second time: `BeginTransaction( true )`
through `Rollback`, and a request for an unknown table through the client's own
`Load`. The file has versions, and each version a content (`Contents`); a content may
come back in a later version. Digests are compared by content (`Same`), and a version is
what the nodes were built of, so the model tells apart nodes of a file and nodes of an
earlier file with the same digest. `built` is what the last thread that replaced the
nodes has made of them: all of the content whose digest it records (`whole`), of another
content because the file changed between the digest and the parsing (`crossed`), or what
a failure left under the digest of earlier nodes (`failed`). `DigestIsCurrent` is about
nodes that are `whole`; what the code does after a failure is a finding. `NewEnough`
leaves out a request that found a content which the file had had before (`CameBack`): its
unlocked comparison may know the digest while another thread replaces the nodes.

### JoinNode, PartitionNode, NodePipeline

A stream is a sequence of lines of cells. `JoinNode` builds the commands the way
the code does, by positions: where the keys are, the `-o` lists, which columns
are left out, the joined key of a request with several keys, and the files that
hold the other streams. Two requests run through one node, since such a request
rewrites the keys of the node, without a lock and in steps: whether the key is several
columns is seen once (632, `BeginJoin`), the key is read when a stream begins (202,
`TakeMainKey`, `TakeStreamKey`), and rewritten at its end (221, `LoadMain`, `JoinStream`).
The command is a pipeline of `sort`, one `join` for each stream and a `gawk` for several
keys, and the shell tells the status of its last part only (666, 711, 765, 778). So every
part before it (`Unseen`) may break off after some of its lines (`PassedOn`, `Cuts`), and
the answer is what the rest make of them; a temporary file may be short in the same way.
`cut` remembers that this has happened to a request, and `JoinIsRight` speaks of the
others; when the last part fails the request is refused. The property is stated by names: which
combinations of lines a join has, and what each column of each of them is
(`JoinIsRight`); of the behavior append it is one stream after the other
(`AppendIsRight`). A join by names is only defined for some streams, and `JoinIsRight`
is about those. A header has no name twice and no line has fewer cells than it
(`AreTables`). All streams have as many keys as the main one; several
keys are each one word, since the code puts them together into one cell and has `gawk`
take them apart by the word, and no column has the name this cell gets (`KeysAgree`).
No column has the name that another one gets when the name of its node is put in front
(`NamesApart`): `WriteHorizontalJoin` does that for a name the output already has, without
looking whether the new name is there too. The last condition, `KeepsAPrefix`, is about a
fault of the code, see below. None of them says how a request comes to its result.
`PartitionNode` sorts and stores part after part; `NodePipeline` puts it behind
the join.

### ParameterTranslator, GroupingAggregate, SortedAggregate, StoreColumns, ForwardCycles

`ParameterTranslator` has the elements its constructor refuses, the four loops of
`Translate` over maps in the order of their names, and the second call for values
that wait for the data; the property is a rule for one name by itself. What the loops make
of the parameters is the request's own and computed at once (`Translated`). The names
whose value waits are shared by all requests, without a lock: `Translate` clears them
(384), `TranslateOn` takes one name off or puts one down at a time, it may fail in
between (`TranslateFails`), and `FillDelayed` goes over them one by one. `crossed` says
that another request has changed them from the clear to the end of the filling; the property
is about requests to which this has not happened. The two
aggregate modules keep how the awk program finds its columns: which are moved,
where they are afterwards, and what each kind of program prints. Where columns are moved
the command is a pipeline again, of which only the second program's status is seen
(`GroupingAggregateStreamTransformer.cpp:660`, `AggregateStreamTransformer.cpp:578`):
`Reaching` is what the first passes on, all lines, the lines `passed`, or none where its
program is one that awk refuses (`CanOrder`). The property is about the lines that reach
the second program; where none do it prints what a program prints for no lines, a line
without aggregates (`PrintedForNothing`, `IsEmptyLine`). `StoreColumns`
follows the header of a store and the three policies for a name that is
both a column and a parameter. `ForwardCycles` follows paths as `CheckForCycles`
does; the property is that of the graph of actual calls. In that graph a request is a
node and what it is asked: a failure is forwarded as the same operation, a router passes
on the same, but a join loads the nodes it joins, also when it stores
(`JoinNode.cpp:380, 681`), and a tee stores what was loaded (`ActualForwards`). The
property has two halves. Where every such call goes to a node that is reported, an
accepted configuration has no request that comes back (`ReportsAll`). Where the calls of a
path are also of that path, a configuration is refused for such a request only
(`ReportsItsPath`); a storing join is checked as if it stored to the nodes it joins, so
that some configurations are refused without need.

## Runs

| Run | Question | Instance |
|---|---|---|
| `client` | marks and work in one transaction; refinement | 3 nodes (a transactional one forwards to a transactional and to a plain one), two contents of the file |
| `client_sequence` | does anything pass from one transaction to the next; do closings end | 2 nodes, 2 transactions |
| `file_append` | APPEND mode, with a header to skip | 2 threads, 1 file, 3 Stores |
| `file_overwrite` | OVERWRITE mode | 2 threads, 2 files, 3 Stores |
| `pool` | bounds, connections of a transaction; does the pool shrink | 3 callers, 3 databases, pool of 1 to 2 |
| `store` | rewinding, success, routes; does a request end | 4 nodes, see below |
| `load` | whole results, failures without trace, the tee | 3 nodes, see below |
| `database` | staging tables, undecided statements, locks; do requests end | 2 threads, 2 connections, 2 attempts, 7 configurations |
| `config` | one configuration per request, the digest; what hangs | 3 threads, 4 versions of the file (the second is refused, the fourth is the first again), 3 requests |
| `config_restored` | finding, see below | 1 thread, 3 versions (spoiled and restored), 2 requests |
| `config_deadlock` | finding, see below | as `config`, with plain requests too |
| `nodes` | joins, partitions, parameters, aggregates, columns, cycles | see below |

Why the bounds are enough. In `client`, three nodes are the least where a node
that forwards can fail before or after both kinds of node below it; two
contents are the least for a change of the file and back; two transactions
show what one leaves to the next. In the file runs, three Stores are the least
where a list has a first, a middle and a last element, with another thread's
calls in between. In `pool`, three callers compete for two connections, so a
caller has to share one, and a third database can come in for a lost one; of the
databases that are not open, which are all alike, a new connection is to the first
(`FirstUnopened`). In
`store` the router has two routes, each critical or not, under each
`onCriticalError`, with none or one retry, with the failures of a route or of
the router itself forwarded, with or without a transformer on either level,
and a client's stream that is at its beginning or not; `Nested` adds two
retries around a forward to a router around a forward to an ignored node; and
`Endless` the largest `RetryCount`. In `load` the router has one route, as in
the code; one of the two nodes has a retry, one of them a node for its failures,
and transformers and tees are on either, both or none, so a retry of the outer
call repeats an inner one that was retried, forwarded or teed; `Odd` adds the
routers that lead nowhere, the ignored node and the largest `RetryCount`. `Length` 2 makes "nothing read", "some" and
"all" different; `UintSize` 4 stands for 2^32, where only `RetryCount + 1`
depends on it. In
`database` two attempts are the least where one finds what another has left, on its
connection or in its staging table; the configurations are one for each kind of
staging table and database, and two that the constructor refuses. In `config` the
third thread is what can come in while two others wait, and the versions of the file are
the least with a content that is refused, one that is new after it and one that comes
back. Copies in the file runs may be cut off anywhere, and each part of a join's
pipeline after one line (`Cuts`) or not at all, which for streams of up to three lines
is the case in which lines are there and lines are missing; `passed` has all lines, one
and none. In `nodes` the streams have a key that
is repeated, one without a partner, and one that comes out of order; the sides have
every type of join, in the first place or after another, one key and several, columns
left out; two requests meet in one node. The translator has all configurations of
two and three out of twelve elements, the aggregates all of 2 headers, 7 lists
of keys and 4 of fields, the cycles all graphs of three nodes of ten kinds.
`MaxTxn`, `MaxStore`, `MaxAttempts` and `MaxRequests` bound histories, no behaviour of
the code. Deadlock is checked in the runs of the client, the files, the pool, `store`
and `load`; in `database`, the `config` runs and `nodes` behaviours end when
their attempts or requests are used up.

Every property of a passing run has a mutant in `PROJECT.json`: a change of one
definition, such as a plausible bug would make, under which the run fails.

### Fairness

Runs without a liveness property assume none. `client_sequence` assumes weak fairness of the steps of
`Commit` and rollbacks, `file_append` of those inside `Commit` and `Rollback`:
they are loops of one thread that wait for nothing but the calls they make.
`pool` assumes, for `ShrinksWhenQuiet`, that time passes and that `WatchPools`, which is a loop
over a sleep, takes its steps; nothing is assumed of callers. `store`,
`database` and `config` assume that the thread of a request goes on; in `config` this
is weak fairness of the single step, so a thread that waits for a lock need not get it
before others, and nothing is assumed of the editing of the file.

### Findings

* `config_deadlock`: a request for a table that is not known loads the connections
  through the client itself and waits for the lock it has, behind a thread that waits
  to initialize; neither goes on. `RequestForwarder.hpp` says that nothing inside a
  request locks again for this reason.
* `config_restored`: when a re-initialization fails, `m_ConfigFileMD5` is still that of the
  previous file (416). Putting the previous file back is then taken for no change, "skip
  re-initialization" (264), and the client has none or some of its nodes.

Seen with TLC, without a run of their own:

* `Initialize` of a changed file inside a transaction clears `m_Nodes` and then rolls
  back marked nodes it no longer knows (`DataProxyClient.cpp:282`), a branch of which
  the code says (798) that it should never happen.
* A load that registers its connection and then throws in a transformer or a tee leaves it
  registered at a node that no vector names (`DatabaseProxy.cpp:829`).
* `LocalFileProxy` looks at none of its streams (241, 398-400, 424-426, 434): on a full disk
  `Commit` removes the pending files, makes a truncated file the destination and succeeds.
* A `Commit` that throws after it has deleted a file (`LocalFileProxy.cpp:364`) leaves the
  file deleted and the data to be appended unwritten, until a later `Commit`; the
  comment at 351 asks for the two to be atomic.
* A failed attempt of a Load leaves in the buffer of its output stream what it had written
  last; the retry empties the temporary stream only (`AbstractNode.cpp:250`), so the client
  gets the end of the failed attempt and then the result of the next.
* `AggregateStreamTransformer` sorts by the positions the keys had before the columns were
  reordered (394): with a key that was not first, and a column to modify, a group may
  be printed in several parts (`SortsElsewhere`).
* `DatabaseProxy`: a Load by table always fails, since it asks for the type of a connection
  without a name (768); the Rollback of one thread undoes what another has stored and
  not yet committed; statements of a failed attempt are committed by the next request on
  the connection; a Commit between the merge of another thread's attempt and its
  registration (1322-1328) drops the staging table of a merge that is not committed.
* `JoinNode`: `columns` of the main stream that are not a prefix of it put values
  under wrong names (711, `KeepsAPrefix`); a request with several keys rewrites the
  keys of the node (690), and every later one is refused; a part of the command that
  fails before the last gives an answer with lines missing (778); a step that throws leaves
  the temporary files; a stream shorter than its `skipLines` in a store that appends
  breaks the streams after it (382).
* `PartitionNode`: a part that fails leaves the parts before it stored. `sort -k<n>`
  compares from the key to the end of the line; the model has the order of the C
  locale, in which lines of one key stay together.
* `ParameterTranslator`: the list of values that wait for the data is shared (384), so
  of two requests at once one loses its values or gets the other's; and a value
  that first waits and is then overridden from other parameters is replaced all the
  same (`Outdated`).
* `GroupingAggregateStreamTransformer`: without keys, a column to modify gives a
  first program that awk refuses, which nobody sees (660): the answer is a header and one line
  of empty aggregates; a last field without output prints a comma too
  many; fields with one variable name share it.
* `CheckForCycles` does not see tees and the read endpoint of a join, which
  no node reports: an accepted configuration may call itself for ever (`ReportsAll`). And
  it follows the write forwards of the nodes that a storing join loads (`JoinNode.cpp:380`),
  and refuses configurations in which no request comes back.

Also seen in the models, and left as they are. `Delete` of a file node looks for the file
without the lock and for its pending operations with it (`SkipDelete`): when
another thread commits between the two, it finds neither, and deletes nothing. A
Store that fails before there is a transformed stream is forwarded, with
`forwardTransformedStream`, from position 0 of the client's stream instead of from
where the client had it (`AbstractNode.cpp:538`), which is why `WholePayload` has a
premise. A Load without retries, tee and transformers writes to its caller's stream
as it goes, so a failure leaves what was written there and the forwarded result
comes after it; `ReturnsWholeResult` therefore speaks of the end of the stream.
And `SuccessIsBacked` has the premise `RetriesFit` because `RetryCount + 1`
is 0 for the largest `uint`, and the call then returns without an attempt.

## Proofs

Each theorem is `Spec => []P` or `Spec => [][A]_vars` for every value of the
constants that satisfies the `ASSUME` of its module, which says no more than
types and that the special values (`NoNode`, `NoThread`, `None`, ...) are none
of the others. Each proof module defines an inductive invariant (`IInv`, `ConfigInv`,
`PoolInv`, `NodesInv`), proves that the initial states have it and that every step keeps
it, and derives the theorems.

* `DataProxyClientProofs` (theorems on marks, registered and durable work, what
  only `Commit` does, what is kept). The properties are not inductive by
  themselves: `IInv` adds the shape of each phase (`Control`), that
  everything staged in the open transaction has a mark that fits it
  (`WorkIsMarked`) and that nothing is durable of the open transaction
  outside `Commit` unless a node failed (`PermanentOnlyInCommit`). The refinement
  `ImplementsProtocol` follows from the same invariant: the lemmas named `...Refines`
  say of each action which action of `TransactionProtocol` it is, or that neither the
  phase nor a mark changes.
* `LocalFileProxyProofs`. `WrittenOnce` holds because the data of a Store is in one
  place at a time (`InOnePlace`): in a pending file that is listed once, in the
  commit file, or in a destination. `CommitIsComplete` needs `MergeGoal`: what the
  commit file has, followed by what is left of the list, is what was to be written, as long as
  nothing was left out, and is never anything else.
  `PendingFilesMatch` needs that, while nothing is damaged, each pending file is
  listed once, in one list, by one Store (`Matched`).
* `LockingProofs` is about the two modules whose threads share a lock, `ConfigLock` and
  `ConnectionPool`; no theorem about one uses the other. In `ConfigLock` the nodes only ever
  become those of the file as it is, so the version they are of grows; `Known` and `Fresh`
  order everything that is remembered of the file by it, but for contents that came back;
  `Locked` says who has the lock in which phase, `Built` what `built` is while it is held,
  and `Current` that nodes which are `whole` are of the content whose digest is recorded or
  about to be. In `ConnectionPool` (`PoolInv`), `OpenBounded` needs that every handle in
  use is in the pool (`HeldIsPooled`), since a reduction lets go of unused ones only;
  `NumbersArePositions`, which no run lists, needs how far a reduction has come with the
  renumbering (`Numbering`).
* `DatabaseProxyProofs`. `PendingCovers` and `AcknowledgedIsDecided` need which attempt each
  statement is of and how far that attempt is (`Numbered`, `Owned`). For `MergesOwnRows`
  and `TempTablesAccounted` the invariant says which phases hold `m_TableMutex`,
  that a table in use is the thread's own or guarded by the lock (`Places`), and that
  it has exactly the attempt's rows from the truncation on (`Rows`).
* `StoreRequestProofs`. `IInv` speaks of one frame at a time (`FrameOK`): what the
  loop of a router has reached and called, that the positions it goes back to
  are the beginnings of its streams, and that a frame that returns normally is
  backed. A frame below another waits for it (`Waits`) and owns none of the streams
  that go when the other ends (`Outlives`). `StoredOncePerCall` counts over the stack:
  `Accounted` says that the successes of a node and its calls that may still
  succeed are together no more than the calls that were made of it. The lemmas `TopBecomes`, `CallIsMade`
  and `CallEnds` show once that the three ways in which a step changes the
  stack keep this, so that each action is left with the frame it writes.

* `LoadRequestProofs`. `TeeMatchesResult` needs only how the two streams of one frame
  relate in each phase (`TeeOK`). `FailureLeavesNoTrace` needs the shape of the
  stack: a call that has another above it waits for its `LoadImpl` or for the
  node its failure went to, and in the first case all calls above write to its
  `output` or higher (`Nested`), so none reaches the stream below it (`Clean`). `GoesOn`
  shows once that a step of the last call that has not ended keeps this,
  `CallKeeps` that a new call does, `DrainKeeps` that a flush anywhere in the stack does.
  `ReturnsWholeResult` needs where the data is in each phase. A *trail* gives each
  stream what it would be if all outputs were flushed; the invariant (`Traced`) says
  that there is one of which the innermost call says the truth (`Promise`: how much
  of its LoadImpl has come, or which stream ends with all of it) and that its caller
  will look for the data where the call has put it (`Linked`). A flush leaves the
  trail as it is, a write changes one stream of it (`TrailGoesOn`).

* `JoinNodeProofs` and `NodesProofs`, which extends it. The first has the lemmas about data
  and about joins, the second the steps of the requests, the other computations and all
  theorems. `NodesInv` says what holds of the requests of a join (`JoinInv`), of those
  that append (`AppendInv`), of those that join columns (`ColumnsInv`), of a partition
  (`PartsInv`) and of a translator (`TranslatorInv`), and that what was computed is the `Result` of its input.
  `JoinInv` has where a request is in its loop and that its files are those of the streams
  it has come past (`FilesOK`): no other request removes them, since each file has an
  owner. `AppendInv` gives the stream that a loop has put together as a function of how far
  it has come (`AddedUpto`). `PartsInv` is about one part at a time: what is
  stored and the rows that are left are together the lines that came, each part has the
  rows of one value, and the rows left are in an order in which no value comes
  back, which is so after the sort and, when it is skipped, claims nothing.
  `JoinsAreRight` takes the most. Its property is a set of combinations of lines, of any
  number of streams; what the code makes is a row of commands that each look at the lines
  printed by the one before. What connects them is `Lists`: a sequence of lines lists a set
  when each element of the set has one place in the sequence, at which its line is. It
  passes through what `sort` and `join` do (`ListsBecomes`, `ListsCrossed`, `ListsFlatten`),
  and `ListsJoined` says what a whole `join` lists: the pairs with one key, and the lines
  without a partner that its type keeps. A second part follows the columns. `IsPrepared` has
  what a stream is when its keys are one column; `Chain` says that after n streams each name
  in the header is that of one column of the result, and that the `-o` list of
  each command prints exactly the columns up to its stream (`ChainFirst`, `ChainNext`).
  In the third the rows after n commands list the combinations of n streams (`RowsFirst`,
  `RowsNext`), where the key that is printed is the one of the first stream that has a
  line in the combination (`KeyByFirst`); `OneKeyRows` and `SeveralKeysRows` come
  from there to the values under the names, and `JoinIsMade` is the result. The invariant,
  `ColumnsInv`, is that a request has met its streams so far (`IsMet`) or has been cut off, that
  the keys in the node are the configured ones or those put together into one (`KeysKept`),
  and which of them the request has seen and taken (`Saw`, `Took`). The last two
  are what makes requests with several keys at once safe: one that takes a key another
  request has rewritten does not find that column in its stream, and is refused; one that
  has taken it before goes on with what it has, and rewrites the key to the same name.
  For the translator, `TranslatedIs` shows that the four loops come to what the rule for
  each single name says: the state of each loop is given explicitly as a function of how
  far the loop has come in the order of the names (`WithDefaults`, `WithDerived`, ...),
  and a step goes from one to the next. What makes it true is that no derived value has a
  derived source, which the constructor sees to, so the third loop never reads what it
  has written (`DerivedHas`). The same is done for the two loops of a store over its
  columns and for the programs of the aggregates, in four parts. Where a line has its
  keys and values is followed through the reordering (`LineReads`): the value of a field is
  at its rank among the required ones (`Rank`, `SelectedIs`). A group is the set of the lines
  with one key, so that the state of a program after n lines is, for each group, the
  aggregate of its lines up to n (`GroupedIs`, `KeylessIs`), and for the program that keeps
  one group at a time, of a stream in which no key comes back, what it has printed is the
  groups that have ended (`Contiguous`, `GroupState`). For the sort, an order
  exists (`OrderExists`, by insertion), and in any such order no key comes back when
  what `sort` compares begins with the keys (`KeysFirst`, `SameBetween`). Sums and counts do
  not depend on the order (`SumReordered`, `ListedReordered`); the operation that takes the
  last value does, which is why the property leaves it out for sorted streams.
  `CheckForCycles` follows paths on which no node comes twice;
  the proof is that the nodes on such paths from a node are closed under forwards, so that
  a request comes to no others.
  All of this rests on recursion over numbers. `LeastNatural` (a set of numbers that is
  not empty has a least element) gives `Induction` over a set instead of over an operator,
  and with it `Recursion`, that a recursive function on the numbers is what its definition
  says; the library's own theorems on both take an operator as a parameter and cannot be used.

Proved without a run that lists them, to keep the runs to the questions that
cannot be answered otherwise: the type invariants, `OneMarkPerNode`,
`SuccessIsKept`, `DeletesLead`, `NumbersArePositions`, `EveryRouteIsTried`.

Of the assumptions, those of the nodes need a word. `JoinAssumption` says that streams
are sequences of lines of cells and that a join names nodes there are (to ask one that
is not there throws, which is the step `Fail`); `TranslatorAssumption` and
`NodesAssumption` that a configuration and a request have finitely many names, a
store a header and lines, and an aggregate lines with a number for each column of
the header, and keys and fields of the kinds that the module models.

Only model-checked: the liveness properties, which the prover cannot express.
Every invariant and action property of the passing runs is proved.

## Not modelled

`PROJECT.json` lists every component with its status. Left out for good: the
parsing of configuration elements, the formatting of names, SQL text and HTTP
requests, logging and monitoring counters (no property is about them);
`ExecutionProxy`, `RestDataProxy`, `NodeFactory` and the bindings, which keep no state
between calls; the transformers that rewrite one line at a time or call code that is
not in this repository. `Ping` changes no state. The name that
`DatabaseConnectionManager` reads through an iterator after its unlock (699) is
undefined when another thread reloads the tables; the model reads it before.

## Plan

Done, in this order: `DataProxyClient` with `TransactionProtocol`, `LocalFileProxy`,
`ConnectionPool`, `StoreRequest`, `LoadRequest`, `DatabaseProxy`, `ConfigLock`, the node
modules of `MCNodes`. What would add most to them:

1. `DatabaseProxy` composed with `ConnectionPool`: which connection a request gets
   decides whose statements share it.
2. In `ConfigLock`, shard tables of which one is known and another is not.
3. `MCNodes` with streams of more lines and transformers behind a join.
4. The transformers that rewrite one line at a time.
