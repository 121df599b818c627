------------------------------ MODULE ConfigLock ------------------------------
(***************************************************************************)
(* The configuration of a client that several threads share, as the web    *)
(* service uses it: every request first calls Initialize, which compares   *)
(* the digest of the configuration file with the one it knows and, when    *)
(* they differ, takes m_ConfigMutex exclusively and builds every node      *)
(* again.  The request itself runs with m_ConfigMutex shared.  A request   *)
(* for a table may have to load the table of connections first, and does   *)
(* so through the client; BeginTransaction may have to roll back.          *)
(***************************************************************************)
EXTENDS Naturals, FiniteSets

CONSTANTS
  Thread,
  NoThread,
  MaxVersion,    \* bound on the versions of the file: 1, 2, ... MaxVersion
  Contents,      \* what each version holds; contents come back
  Bad,           \* the contents that Initialize refuses
  Kinds,         \* what requests are made
  MaxRequests    \* bound on the requests

ASSUME ConfigAssumption ==
  /\ NoThread \notin Thread
  /\ MaxVersion \in Nat \ {0}
  /\ DOMAIN Contents = 1..MaxVersion
  /\ Kinds \subseteq {"plain", "byTable", "begin"}
  /\ MaxRequests \in Nat

VARIABLES
  file,        \* the version of the configuration file
  digest,      \* m_ConfigFileMD5, as a version it is the digest of
  nodes,       \* the version m_Nodes was built from, or Partial
  tables,      \* the same of the shard connections, m_ConnectionsByTableName
  inside,      \* m_InsideTransaction
  phase,
  md5,         \* the digest it has read
  readers,     \* how often each thread has m_ConfigMutex shared
  writer,      \* the thread that has it exclusively
  blocked,     \* no more shared locks, because a thread waits for the exclusive one
  shard,       \* the thread that has m_ShardVersion
  requests,    \* how many requests have been made
  on,          \* history: the nodes when each thread got its shared lock
  built        \* history: what the last thread to build the nodes has made of them

configMutex == <<readers, writer, blocked>>
client == <<digest, nodes, tables, inside>>
history == <<on, built>>
vars == <<file, client, phase, md5, configMutex, shard, requests, history>>

Version == 1..MaxVersion
Partial == 0     \* nothing, or what a failed Initialize has left
Origin == Version \cup {Partial}

\* Digests are compared, and so contents.  (A file that cannot be parsed has the
\* digest "bad-md5": all such files are one content, which is in Bad.)
Same(v, w) == v # Partial /\ w # Partial /\ Contents[v] = Contents[w]

\* Whether the file had held before what it holds in version v.
CameBack(v) == \E u \in 1..v - 1 : Same(u, v)

\* Whether the nodes are cleared; of the content whose digest goes with them; of
\* another, because the file was edited between its digest and its parsing; or
\* what a failure has left, with the digest of earlier nodes.
Building == {"cleared", "whole", "crossed", "failed"}

Init ==
  /\ file = 1
  /\ digest = Partial
  /\ nodes = Partial
  /\ tables = Partial
  /\ inside = FALSE
  /\ phase = [t \in Thread |-> "idle"]
  /\ md5 = [t \in Thread |-> Partial]
  /\ readers = [t \in Thread |-> 0]
  /\ writer = NoThread
  /\ blocked = FALSE
  /\ shard = NoThread
  /\ requests = 0
  /\ on = [t \in Thread |-> Partial]
  /\ built = "cleared"
-----------------------------------------------------------------------------
request == <<md5, on>>

Go(t, p) ==
  /\ phase' = [phase EXCEPT ![t] = p]
  /\ UNCHANGED request

\* The handler has answered, and the thread waits for the next request.
Answer(t) ==
  /\ phase' = [phase EXCEPT ![t] = "idle"]
  /\ md5' = [md5 EXCEPT ![t] = Partial]
  /\ on' = [on EXCEPT ![t] = Partial]

(* boost::shared_mutex: a thread that waits to write keeps new readers out. *)

Nobody == writer = NoThread /\ \A t \in Thread : readers[t] = 0

LockShared(t) ==
  /\ writer = NoThread
  /\ ~blocked
  /\ readers' = [readers EXCEPT ![t] = @ + 1]
  /\ UNCHANGED <<writer, blocked>>

\* n locks of t are released; the last reader lets the waiting threads try again.
UnlockShared(t, n) ==
  /\ readers' = [readers EXCEPT ![t] = @ - n]
  /\ blocked' = (blocked /\ \E u \in Thread : readers'[u] # 0)
  /\ UNCHANGED writer

UnlockExclusive ==
  /\ writer' = NoThread
  /\ blocked' = FALSE
  /\ UNCHANGED readers
-----------------------------------------------------------------------------
\* The operator of the service writes the file anew, or restores an old one.
EditFile ==
  /\ file < MaxVersion
  /\ file' = file + 1
  /\ UNCHANGED <<client, phase, md5, configMutex, shard, requests, history>>

(* Initialize, called by CheckConfig. *)

\* The file is there, and its digest is read without the lock.
CheckConfig(t) ==
  /\ phase[t] = "idle"
  /\ requests < MaxRequests
  /\ requests' = requests + 1
  /\ md5' = [md5 EXCEPT ![t] = file]
  /\ phase' = [phase EXCEPT ![t] = "compare"]
  /\ UNCHANGED <<file, client, configMutex, shard, history>>

\* MUTANT: a digest that differs counts as the same while nobody initializes.
CompareLoosely(t) ==
  /\ phase[t] = "compare"
  /\ Go(t, IF digest # Partial THEN "ready" ELSE "exclusive")
  /\ UNCHANGED <<file, client, configMutex, shard, requests, built>>

CompareUnlocked(t) ==
  /\ phase[t] = "compare"
  /\ Go(t, IF Same(digest, md5[t]) THEN "ready" ELSE "exclusive")
  /\ UNCHANGED <<file, client, configMutex, shard, requests, built>>

WaitExclusive(t) ==
  /\ phase[t] = "exclusive"
  /\ ~Nobody /\ ~blocked
  /\ blocked' = TRUE
  /\ UNCHANGED <<file, client, phase, md5, readers, writer, shard, requests, history>>

LockExclusive(t) ==
  /\ phase[t] = "exclusive"
  /\ Nobody
  /\ writer' = t
  /\ Go(t, "recheck")
  /\ UNCHANGED <<file, client, readers, blocked, shard, requests, built>>

\* Another thread has built the same nodes while this one waited.
Recheck(t) ==
  /\ phase[t] = "recheck"
  /\ Same(digest, md5[t])
  /\ Go(t, "ready")
  /\ UnlockExclusive
  /\ UNCHANGED <<file, client, shard, requests, built>>

\* MUTANT: the connections of the old configuration stay.
ClearNodes(t) ==
  /\ phase[t] = "recheck"
  /\ ~Same(digest, md5[t])
  /\ nodes' = Partial
  /\ inside' = FALSE
  /\ built' = "cleared"
  /\ Go(t, "parse")
  /\ UNCHANGED <<file, digest, tables, configMutex, shard, requests>>

\* The rollback of an open transaction throws if the transaction has marked a
\* node, for the nodes are gone by then.
Clear(t) ==
  /\ phase[t] = "recheck"
  /\ ~Same(digest, md5[t])
  /\ nodes' = Partial
  /\ tables' = Partial
  /\ \/ /\ inside' = FALSE
        /\ Go(t, "parse")
        /\ built' = "cleared"
        /\ UNCHANGED configMutex
     \/ /\ inside
        /\ Answer(t)
        /\ UnlockExclusive
        /\ built' = "failed"
        /\ UNCHANGED inside
  /\ UNCHANGED <<file, digest, shard, requests>>

Outcome(t) == IF Same(file, md5[t]) THEN "whole" ELSE "crossed"

\* MUTANT: the lock is released by hand, and not when the parser throws.
ParseKeepsLock(t) ==
  /\ phase[t] = "parse"
  /\ IF Contents[file] \in Bad
     THEN Answer(t) /\ built' = "failed" /\ UNCHANGED nodes
     ELSE nodes' = file /\ Go(t, "record") /\ built' = Outcome(t)
  /\ UNCHANGED <<file, digest, tables, inside, configMutex, shard, requests>>

\* The file is parsed as it is now.  What is refused, by the parser, by a node's
\* constructor or by the check for cycles, leaves the digest as it was.
Parse(t) ==
  /\ phase[t] = "parse"
  /\ IF Contents[file] \in Bad
     THEN /\ Answer(t)
          /\ UnlockExclusive
          /\ built' = "failed"
          /\ UNCHANGED nodes
     ELSE /\ nodes' = file
          /\ Go(t, "record")
          /\ built' = Outcome(t)
          /\ UNCHANGED configMutex
  /\ UNCHANGED <<file, digest, tables, inside, shard, requests>>

\* MUTANT: the digest is read once more when the nodes are built.
RecordAgain(t) ==
  /\ phase[t] = "record"
  /\ digest' = file
  /\ UnlockExclusive
  /\ Go(t, "ready")
  /\ UNCHANGED <<file, nodes, tables, inside, shard, requests, built>>

RecordDigest(t) ==
  /\ phase[t] = "record"
  /\ digest' = md5[t]
  /\ UnlockExclusive
  /\ Go(t, "ready")
  /\ UNCHANGED <<file, nodes, tables, inside, shard, requests, built>>
-----------------------------------------------------------------------------
(* The request. *)

FirstPhase(k) ==
  CASE k = "plain" -> "run" [] k = "byTable" -> "shard" [] k = "begin" -> "begin"

Enter(t) ==
  /\ phase[t] = "ready"
  /\ LockShared(t)
  /\ on' = [on EXCEPT ![t] = nodes]
  /\ \E k \in Kinds : phase' = [phase EXCEPT ![t] = FirstPhase(k)]
  /\ UNCHANGED <<file, client, md5, shard, requests, built>>

\* A request ends well or by an exception, and releases what it has.
Run(t) ==
  /\ phase[t] = "run"
  /\ UnlockShared(t, readers[t])
  /\ Answer(t)
  /\ UNCHANGED <<file, client, shard, requests, built>>

LockShard(t) ==
  /\ phase[t] = "shard"
  /\ shard = NoThread
  /\ shard' = t
  /\ Go(t, "lookUp")
  /\ UNCHANGED <<file, client, configMutex, requests, built>>

\* The table is known, or everything known is forgotten and loaded again.
LookUp(t) ==
  /\ phase[t] = "lookUp"
  /\ \/ /\ tables # Partial
        /\ shard' = NoThread
        /\ Go(t, "run")
        /\ UNCHANGED tables
     \/ /\ tables' = Partial
        /\ Go(t, "connections")
        /\ UNCHANGED shard
  /\ UNCHANGED <<file, digest, nodes, inside, configMutex, requests, built>>

Fetching == {"connections", "tables"}

\* The client's own Load, and not a forwarder's: m_ConfigMutex is locked again.
LoadAgain(t) ==
  /\ phase[t] \in Fetching
  /\ readers[t] = 1
  /\ LockShared(t)
  /\ UNCHANGED <<file, client, phase, md5, shard, requests, history>>

Loaded(t) ==
  /\ phase[t] \in Fetching
  /\ readers[t] = 2
  /\ UnlockShared(t, 1)
  /\ IF phase[t] = "connections"
     THEN Go(t, "tables") /\ UNCHANGED <<tables, shard>>
     ELSE Go(t, "run") /\ tables' = nodes /\ shard' = NoThread
  /\ UNCHANGED <<file, digest, nodes, inside, requests, built>>

LoadFails(t) ==
  /\ phase[t] \in Fetching
  /\ readers[t] = 2
  /\ UnlockShared(t, 2)
  /\ shard' = NoThread
  /\ Answer(t)
  /\ UNCHANGED <<file, client, requests, built>>

\* BeginTransaction( true ): Rollback() locks m_ConfigMutex again.  A transaction
\* that another thread has begun by then is an error.
BeginTransaction(t) ==
  /\ phase[t] \in {"begin", "again"}
  /\ IF inside
     THEN Go(t, IF phase[t] = "begin" THEN "rollback" ELSE "run") /\ UNCHANGED inside
     ELSE Go(t, "run") /\ inside' = TRUE
  /\ UNCHANGED <<file, digest, nodes, tables, configMutex, shard, requests, built>>

RollbackLocks(t) ==
  /\ phase[t] = "rollback"
  /\ readers[t] = 1
  /\ LockShared(t)
  /\ UNCHANGED <<file, client, phase, md5, shard, requests, history>>

\* It ends the transaction or throws; then BeginTransaction goes on, or throws.
RollbackEnds(t) ==
  /\ phase[t] = "rollback"
  /\ readers[t] = 2
  /\ \/ inside' = FALSE /\ Go(t, "again") /\ UnlockShared(t, 1)
     \/ Go(t, "run") /\ UNCHANGED <<inside, configMutex>>
  /\ UNCHANGED <<file, digest, nodes, tables, shard, requests, built>>
-----------------------------------------------------------------------------
Initialize(t) ==
  \/ CompareUnlocked(t) \/ WaitExclusive(t) \/ LockExclusive(t)
  \/ Recheck(t) \/ Clear(t) \/ Parse(t) \/ RecordDigest(t)

GetConnectionByTable(t) ==
  LockShard(t) \/ LookUp(t) \/ LoadAgain(t) \/ Loaded(t) \/ LoadFails(t)

Request(t) ==
  \/ Enter(t) \/ Run(t) \/ GetConnectionByTable(t)
  \/ BeginTransaction(t) \/ RollbackLocks(t) \/ RollbackEnds(t)

Step(t) == Initialize(t) \/ Request(t)

Next == EditFile \/ \E t \in Thread : CheckConfig(t) \/ Step(t)

Spec == Init /\ [][Next]_vars
LiveSpec == Spec /\ \A t \in Thread : WF_vars(Step(t))
-----------------------------------------------------------------------------
Phases ==
  {"idle", "compare", "exclusive", "recheck", "parse", "record", "ready", "run",
   "shard", "lookUp", "begin", "again", "rollback"} \cup Fetching

\* The types of the configuration, of its locks and of the threads.
TypeOK ==
  /\ file \in Version
  /\ digest \in Origin
  /\ nodes \in Origin
  /\ tables \in Origin
  /\ inside \in BOOLEAN
  /\ phase \in [Thread -> Phases]
  /\ md5 \in [Thread -> Origin]
  /\ readers \in [Thread -> 0..2]
  /\ writer \in Thread \cup {NoThread}
  /\ blocked \in BOOLEAN
  /\ shard \in Thread \cup {NoThread}
  /\ requests \in 0..MaxRequests
  /\ on \in [Thread -> Origin]
  /\ built \in Building

\* A request sees one configuration from its lock to its end, also across the
\* loads it makes itself, and the shard connections are none or are those of
\* this configuration (DataProxyClient.cpp:278-285, 516-520).
OneConfiguration ==
  \A t \in Thread :
    readers[t] > 0 => nodes = on[t] /\ tables \in {Partial, on[t]}

\* A request runs with a version that is not older than the one it found in the
\* file, unless the nodes are what a failed Initialize has left, or the request
\* found a content that the file had had before: the digest of that is still known
\* while another thread replaces the nodes (261).
NewEnough ==
  \A t \in Thread : readers[t] > 0 =>
    \/ nodes = Partial
    \/ md5[t] <= nodes
    \/ CameBack(md5[t])

\* While nobody replaces them, the nodes are of the content that the digest is of,
\* if Initialize has built them (416): the digest is read before and outside the
\* lock.  Not so when the file has changed between the digest and the parsing, nor
\* when the building has failed: then the digest is of nodes that are gone.
DigestIsCurrent ==
  built = "whole" /\ writer = NoThread => Same(digest, nodes)

\* "MD5 has changed since previous initialization; re-initializing", and otherwise
\* "did not change, skip re-initialization" (DataProxyClient.cpp:264, 281): if the
\* file's digest is taken for known, there are nodes.
KnownFileHasNodes ==
  Same(digest, file) /\ writer = NoThread => nodes # Partial

\* A thread that has m_ConfigMutex waits for it, while another waits to write.
WaitsForItself(t) ==
  /\ phase[t] \in Fetching \cup {"rollback"}
  /\ readers[t] = 1
  /\ blocked

\* RequestForwarder.hpp:7-12: nothing inside a request locks m_ConfigMutex again,
\* so that no request waits for a thread that waits for this request.
NoNestedWait == \A t \in Thread : ~WaitsForItself(t)

\* Every request comes to an end, unless a thread that has the lock waits for it.
OnlyNestedWaitHangs ==
  \A t \in Thread : phase[t] # "idle" ~> phase[t] = "idle" \/ ~NoNestedWait
=============================================================================
