-------------------------- MODULE DataProxyClient --------------------------
(***************************************************************************)
(* The transaction bookkeeping of DataProxyClient: Initialize,             *)
(* Load/Store/Delete (one action family, "a request"), BeginTransaction,   *)
(* Commit, Rollback and the destructor, with the vectors                   *)
(* m_PendingCommitNodes, m_PendingRollbackNodes and m_AutoCommittedNodes   *)
(* that HandleResult fills and Commit and PrivateRollback drain.           *)
(*                                                                         *)
(* One caller issues one call at a time, as the shell does: the vectors    *)
(* are not protected against two callers inside a transaction (ConfigLock  *)
(* models the callers of the service, which use no transactions).  A call  *)
(* is several steps: a request descends through the nodes it forwards to,  *)
(* a commit or a rollback drains its vectors node by node, and every node  *)
(* call may throw.                                                         *)
(*                                                                         *)
(* A node is seen through what the client calls on it.  What it has        *)
(* registered and not yet decided (m_PendingCommits of DatabaseProxy,      *)
(* m_PendingOps of LocalFileProxy) is a set of work items, one per         *)
(* transaction, node and kind of visit.                                    *)
(***************************************************************************)
EXTENDS Naturals, Sequences, SequencesExt

CONSTANTS
  Node,           \* node names
  Transactional,  \* the nodes whose SupportsTransactions() is true
  Forwards,       \* Forwards[n]: the nodes a request on n may be forwarded to
  Config,         \* contents the configuration file may have
  NodesOf,        \* NodesOf[c]: the nodes that content c configures
  Digest,         \* Digest[c]: the MD5 of content c
  NoDigest,       \* m_ConfigFileMD5 before the first successful Initialize
  MaxTxn          \* bound on the number of transactions

ASSUME ConstantsAssumption ==
  /\ Transactional \subseteq Node
  /\ Forwards \in [Node -> SUBSET Node]
  /\ NodesOf \in [Config -> SUBSET Node]
  /\ \A c \in Config : Digest[c] # NoDigest
  /\ Config \cap {"return", "begin", "destroy"} = {}
  /\ MaxTxn \in Nat

VARIABLES
  initialized,           \* m_Initialized
  nodes,                 \* the keys of m_Nodes
  configFileMD5,         \* m_ConfigFileMD5
  insideTransaction,     \* m_InsideTransaction
  pendingCommitNodes,    \* m_PendingCommitNodes
  pendingRollbackNodes,  \* m_PendingRollbackNodes
  autoCommittedNodes,    \* m_AutoCommittedNodes
  call,                  \* the phase of the call in progress, or "none"
  resume,                \* what follows the rollback in progress
  stack,                 \* the nodes visited by the request in progress
  errors,                \* a node has thrown during the commit in progress
  staged,                \* work registered at nodes, not yet decided
  durable,               \* work of transactions committed by nodes
  txn,                   \* history: number of transactions begun
  aborted,               \* history: transactions that Rollback completed
  conflicted,            \* history: transactions where HandleResult threw
  faulted                \* history: transactions a node failed to decide

client == <<initialized, nodes, configFileMD5>>
lists == <<pendingCommitNodes, pendingRollbackNodes, autoCommittedNodes>>
control == <<call, resume, stack, errors>>
world == <<staged, durable>>
history == <<txn, aborted, conflicted, faulted>>
vars == <<client, insideTransaction, lists, control, world, history>>

CurrentTxn == IF insideTransaction THEN txn ELSE 0

Top == Last(stack)

\* One item of work: what a visit to node, in transaction txn, has registered
\* at the node.  Work outside transactions has txn 0.  The visit has succeeded,
\* has failed and been forwarded to another node, or has thrown.
Work == [txn : 0 .. MaxTxn, node : Node,
         visit : {"succeeded", "forwarded", "threw"}]

WorkOf(visit) == [txn |-> CurrentTxn, node |-> Top, visit |-> visit]

Loops == {"commit", "commitRollbacks", "rollbackCommits", "rollback"}

WorkAt(n, work) == {w \in work : w.node = n}

AddIfAbsent(n, s) == IF n \in ToSet(s) THEN s ELSE Append(s, n)

Init ==
  /\ initialized = FALSE
  /\ nodes = {}
  /\ configFileMD5 = NoDigest
  /\ insideTransaction = FALSE
  /\ pendingCommitNodes = <<>>
  /\ pendingRollbackNodes = <<>>
  /\ autoCommittedNodes = <<>>
  /\ call = "none"
  /\ resume = "return"
  /\ stack = <<>>
  /\ errors = FALSE
  /\ staged = {}
  /\ durable = {}
  /\ txn = 0
  /\ aborted = {}
  /\ conflicted = {}
  /\ faulted = {}
-----------------------------------------------------------------------------
(* What the client asks of a node.  work is what the node has registered.  *)

\* The work of visits that returned.  That of the others, which are loads, has
\* nothing to make permanent.
Returned(work) == {w \in work : w.visit # "threw"}

\* Commit() of node n returns.
NodeCommits(n, work) ==
  /\ staged' = work \ WorkAt(n, work)
  /\ durable' = durable \cup {w \in Returned(WorkAt(n, work)) : w.txn > 0}
  /\ UNCHANGED faulted

\* Rollback() of node n returns.
NodeRollsBack(n, work) ==
  /\ staged' = work \ WorkAt(n, work)
  /\ UNCHANGED <<durable, faulted>>

\* Commit() or Rollback() of node n throws: its work stays registered.
NodeThrows(n, work) ==
  /\ staged' = work
  /\ faulted' = faulted \cup {w.txn : w \in Returned(WorkAt(n, work))}
             \cup {CurrentTxn}
  /\ UNCHANGED durable
-----------------------------------------------------------------------------
(* Initialize *)

\* The file's digest is the one of the last successful initialization.
InitializeUnchanged(c) ==
  /\ call = "none"
  /\ Digest[c] = configFileMD5
  /\ initialized' = TRUE
  /\ UNCHANGED <<nodes, configFileMD5, insideTransaction, lists, control,
                 world, history>>

InitializeFirst(c) ==
  /\ call = "none"
  /\ Digest[c] # configFileMD5
  /\ ~initialized
  /\ initialized' = TRUE
  /\ call' = "parse"
  /\ resume' = c
  /\ UNCHANGED <<nodes, configFileMD5, insideTransaction, lists, stack,
                 errors, world, history>>

\* The nodes and the connections are dropped, with all they have registered,
\* before the transaction is rolled back by PrivateRollback( false ).
Reinitialize(c) ==
  /\ call = "none"
  /\ Digest[c] # configFileMD5
  /\ initialized
  /\ nodes' = {}
  /\ staged' = {}
  /\ call' = IF insideTransaction THEN "rollbackCommits" ELSE "parse"
  /\ resume' = c
  /\ UNCHANGED <<initialized, configFileMD5, insideTransaction, lists, stack,
                 errors, durable, history>>

EndInitialize ==
  /\ call' = "none"
  /\ resume' = "return"
  /\ UNCHANGED <<initialized, insideTransaction, lists, stack, errors, world,
                 history>>

\* Every node is created, no cycle is found, the connections are parsed.
ParseSucceeds ==
  /\ call = "parse"
  /\ nodes' = NodesOf[resume]
  /\ configFileMD5' = Digest[resume]
  /\ EndInitialize

\* An element, a node, a forward or a connection is refused: what m_Nodes
\* holds by then stays, and the digest is not updated.
ParseFails ==
  /\ call = "parse"
  /\ nodes' \in SUBSET NodesOf[resume]
  /\ UNCHANGED configFileMD5
  /\ EndInitialize
-----------------------------------------------------------------------------
(* Load, Store and Delete, with the requests that nodes forward.  A request *)
(* on an unknown node, or before Initialize, throws and changes nothing.    *)

\* The visit on top of the stack is over, by a return or by an exception that
\* the visit below may absorb.
LeaveVisit ==
  /\ stack' = Front(stack)
  /\ call' = IF stack' = <<>> THEN "none" ELSE "request"
  /\ UNCHANGED <<resume, errors>>

Request(n) ==
  /\ call = "none"
  /\ initialized
  /\ n \in nodes
  /\ call' = "request"
  /\ stack' = <<n>>
  /\ UNCHANGED <<client, insideTransaction, lists, resume, errors, world,
                 history>>

\* A node forwards its request, to serve it or because it has failed.
Forward(m) ==
  /\ call = "request"
  /\ m \in Forwards[Top] \cap nodes
  /\ stack' = Append(stack, m)
  /\ UNCHANGED <<client, insideTransaction, lists, call, resume, errors,
                 world, history>>

\* The node's operation throws: HandleResult is not reached.  Stores and deletes
\* register their work as their last step, but a load of a MySQL node registers
\* its connection before transformers and a tee, which may throw.
VisitThrows ==
  /\ call = "request"
  /\ LeaveVisit
  /\ \/ UNCHANGED staged
     \/ /\ Top \in Transactional
        /\ staged' = staged \cup {WorkOf("threw")}
  /\ UNCHANGED <<client, insideTransaction, lists, durable, history>>

\* What may be registered after a visit that returns ok.
VisitWork(ok) ==
  {staged, staged \cup {WorkOf(IF ok THEN "succeeded" ELSE "forwarded")}}

\* The node's operation returns ok: TRUE for a success of its own, FALSE for
\* a failure that was forwarded.  It leaves work registered.
VisitReturns(ok, work) ==
  /\ call = "request"
  /\ ok \/ Forwards[Top] # {}
  /\ LeaveVisit
  /\ UNCHANGED <<client, insideTransaction, txn, aborted>>

\* MUTANT: the transaction that is open is not considered.
DecideAlways(ok, work) ==
  /\ Top \in Transactional
  /\ VisitReturns(ok, work)
  /\ \/ ok /\ NodeCommits(Top, work)
     \/ ~ok /\ NodeRollsBack(Top, work)
     \/ NodeThrows(Top, work)
  /\ UNCHANGED <<lists, conflicted>>

\* HandleResult outside a transaction, for a node that supports them.
DecideAtOnce(ok, work) ==
  /\ Top \in Transactional
  /\ ~insideTransaction
  /\ VisitReturns(ok, work)
  /\ \/ ok /\ NodeCommits(Top, work)
     \/ ~ok /\ NodeRollsBack(Top, work)
     \/ NodeThrows(Top, work)
  /\ UNCHANGED <<lists, conflicted>>

\* HandleResult inside a transaction, for a node that supports them: the node
\* is marked, unless it carries the opposite mark, and then it throws.
MarkForCommit(work) ==
  /\ Top \in Transactional
  /\ insideTransaction
  /\ Top \notin ToSet(pendingRollbackNodes)
  /\ VisitReturns(TRUE, work)
  /\ staged' = work
  /\ pendingCommitNodes' = AddIfAbsent(Top, pendingCommitNodes)
  /\ UNCHANGED <<pendingRollbackNodes, autoCommittedNodes, durable, conflicted,
                 faulted>>

\* MUTANT: a failure is marked for commit.
MarkFailureForCommit(work) ==
  /\ Top \in Transactional
  /\ insideTransaction
  /\ Top \notin ToSet(pendingRollbackNodes)
  /\ VisitReturns(FALSE, work)
  /\ staged' = work
  /\ pendingCommitNodes' = AddIfAbsent(Top, pendingCommitNodes)
  /\ UNCHANGED <<pendingRollbackNodes, autoCommittedNodes, durable, conflicted,
                 faulted>>

\* MUTANT: a failure that was forwarded is not remembered.
ForgetFailure(work) ==
  /\ Top \in Transactional
  /\ insideTransaction
  /\ VisitReturns(FALSE, work)
  /\ staged' = work
  /\ UNCHANGED <<lists, durable, conflicted, faulted>>

MarkForRollback(work) ==
  /\ Top \in Transactional
  /\ insideTransaction
  /\ Top \notin ToSet(pendingCommitNodes)
  /\ VisitReturns(FALSE, work)
  /\ staged' = work
  /\ pendingRollbackNodes' = AddIfAbsent(Top, pendingRollbackNodes)
  /\ UNCHANGED <<pendingCommitNodes, autoCommittedNodes, durable, conflicted,
                 faulted>>

MarkConflicts(ok, work) ==
  /\ Top \in Transactional
  /\ insideTransaction
  /\ Top \in ToSet(IF ok THEN pendingRollbackNodes ELSE pendingCommitNodes)
  /\ VisitReturns(ok, work)
  /\ staged' = work
  /\ conflicted' = conflicted \cup {txn}
  /\ UNCHANGED <<lists, durable, faulted>>

\* HandleResult for a node that does not support transactions: its work is
\* already permanent; inside a transaction it is only remembered.
AutoCommit(ok) ==
  /\ Top \notin Transactional
  /\ VisitReturns(ok, staged)
  /\ autoCommittedNodes' = IF insideTransaction
                             THEN AddIfAbsent(Top, autoCommittedNodes)
                             ELSE autoCommittedNodes
  /\ UNCHANGED <<pendingCommitNodes, pendingRollbackNodes, world, conflicted,
                 faulted>>

HandleResult ==
  /\ call = "request"
  /\ \E ok \in BOOLEAN :
       \/ AutoCommit(ok)
       \/ \E work \in VisitWork(ok) :
            \/ DecideAtOnce(ok, work)
            \/ ok /\ MarkForCommit(work)
            \/ ~ok /\ MarkForRollback(work)
            \/ MarkConflicts(ok, work)
-----------------------------------------------------------------------------
(* BeginTransaction, Commit, Rollback and the destructor.  Before Initialize *)
(* the first three throw, and outside a transaction the last three return,   *)
(* changing nothing.                                                         *)

StartTransaction ==
  /\ insideTransaction' = TRUE
  /\ txn' = txn + 1

BeginTransaction ==
  /\ call = "none"
  /\ initialized
  /\ ~insideTransaction
  /\ txn < MaxTxn
  /\ StartTransaction
  /\ UNCHANGED <<client, lists, control, world, aborted,
                 conflicted, faulted>>

Commit ==
  /\ call = "none"
  /\ insideTransaction
  /\ call' = "commit"
  /\ UNCHANGED <<client, insideTransaction, lists, resume, stack, errors,
                 world, history>>

\* Rollback(), BeginTransaction( true ) inside a transaction, and the
\* destructor inside one: PrivateRollback( true ), then what follows it.
Rollback(next) ==
  /\ call = "none"
  /\ insideTransaction
  /\ next = "begin" => txn < MaxTxn
  /\ call' = "rollbackCommits"
  /\ resume' = next
  /\ UNCHANGED <<client, insideTransaction, lists, stack, errors, world,
                 history>>

\* The client is destroyed, and a new one starts in its place.
NewClient ==
  /\ initialized' = FALSE
  /\ nodes' = {}
  /\ configFileMD5' = NoDigest
  /\ insideTransaction' = FALSE
  /\ pendingCommitNodes' = <<>>
  /\ pendingRollbackNodes' = <<>>
  /\ autoCommittedNodes' = <<>>
  /\ staged' = {}

Destroy ==
  /\ call = "none"
  /\ initialized
  /\ ~insideTransaction
  /\ NewClient
  /\ UNCHANGED <<control, durable, history>>

\* A loop of Commit or PrivateRollback reaches a node that m_Nodes no longer
\* holds, and throws; out of the destructor, this ends the program.
UnknownNode ==
  /\ \/ /\ call \in {"commit", "rollbackCommits"}
        /\ pendingCommitNodes # <<>>
        /\ Head(pendingCommitNodes) \notin nodes
     \/ /\ call \in {"commitRollbacks", "rollback"}
        /\ pendingRollbackNodes # <<>>
        /\ Head(pendingRollbackNodes) \notin nodes
  /\ call' = "none"
  /\ resume' = "return"
  /\ errors' = FALSE
  /\ IF resume = "destroy"
       THEN NewClient
       ELSE UNCHANGED <<client, insideTransaction, lists, staged>>
  /\ UNCHANGED <<stack, durable, history>>

\* The first loop of Commit: the node is erased whether or not it throws.
CommitNode ==
  /\ call = "commit"
  /\ pendingCommitNodes # <<>>
  /\ LET n == Head(pendingCommitNodes) IN
       /\ n \in nodes
       /\ \/ NodeCommits(n, staged) /\ UNCHANGED errors
          \/ NodeThrows(n, staged) /\ errors' = TRUE
  /\ pendingCommitNodes' = Tail(pendingCommitNodes)
  /\ UNCHANGED <<client, insideTransaction, pendingRollbackNodes,
                 autoCommittedNodes, call, resume, stack, txn, aborted,
                 conflicted>>

\* PartialCommitException: the transaction stays open, with its other marks.
CommitPartial ==
  /\ call = "commit"
  /\ pendingCommitNodes = <<>>
  /\ errors
  /\ call' = "none"
  /\ errors' = FALSE
  /\ UNCHANGED <<client, insideTransaction, lists, resume, stack, world,
                 history>>

\* MUTANT: the rollbacks do not wait for the commits.
CommitRollbacksFirst ==
  /\ call = "commit"
  /\ ~errors
  /\ call' = "commitRollbacks"
  /\ UNCHANGED <<client, insideTransaction, lists, resume, stack, errors,
                 world, history>>

CommitRollbacks ==
  /\ call = "commit"
  /\ pendingCommitNodes = <<>>
  /\ ~errors
  /\ call' = "commitRollbacks"
  /\ UNCHANGED <<client, insideTransaction, lists, resume, stack, errors,
                 world, history>>

\* The first loop of PrivateRollback.
RollbackCommitNode ==
  /\ call = "rollbackCommits"
  /\ pendingCommitNodes # <<>>
  /\ LET n == Head(pendingCommitNodes) IN
       /\ n \in nodes
       /\ NodeRollsBack(n, staged) \/ NodeThrows(n, staged)
  /\ pendingCommitNodes' = Tail(pendingCommitNodes)
  /\ UNCHANGED <<client, insideTransaction, pendingRollbackNodes,
                 autoCommittedNodes, control, txn, aborted, conflicted>>

\* MUTANT: the nodes marked for commit are forgotten.
RollbackOnlyRollbacks ==
  /\ call = "rollbackCommits"
  /\ call' = "rollback"
  /\ UNCHANGED <<client, insideTransaction, lists, resume, stack, errors,
                 world, history>>

RollbackRollbacks ==
  /\ call = "rollbackCommits"
  /\ pendingCommitNodes = <<>>
  /\ call' = "rollback"
  /\ UNCHANGED <<client, insideTransaction, lists, resume, stack, errors,
                 world, history>>

\* MUTANT: when a node throws, the rollback is tried again.
RollbackNodeAgain ==
  /\ call \in {"commitRollbacks", "rollback"}
  /\ pendingRollbackNodes # <<>>
  /\ LET n == Head(pendingRollbackNodes) IN
       /\ n \in nodes
       /\ \/ /\ NodeRollsBack(n, staged)
             /\ pendingRollbackNodes' = Tail(pendingRollbackNodes)
             /\ UNCHANGED call
          \/ /\ NodeThrows(n, staged)
             /\ call' = "rollbackCommits"
             /\ UNCHANGED pendingRollbackNodes
  /\ UNCHANGED <<client, insideTransaction, pendingCommitNodes,
                 autoCommittedNodes, resume, stack, errors, txn, aborted,
                 conflicted>>

\* The second loop of Commit and of PrivateRollback: errors are only logged.
RollbackNode ==
  /\ call \in {"commitRollbacks", "rollback"}
  /\ pendingRollbackNodes # <<>>
  /\ LET n == Head(pendingRollbackNodes) IN
       /\ n \in nodes
       /\ NodeRollsBack(n, staged) \/ NodeThrows(n, staged)
  /\ pendingRollbackNodes' = Tail(pendingRollbackNodes)
  /\ UNCHANGED <<client, insideTransaction, pendingCommitNodes,
                 autoCommittedNodes, control, txn, aborted, conflicted>>

\* MUTANT: m_AutoCommittedNodes is not cleared.
CommitKeepsAutoCommitted ==
  /\ call = "commitRollbacks"
  /\ pendingRollbackNodes = <<>>
  /\ insideTransaction' = FALSE
  /\ call' = "none"
  /\ UNCHANGED <<client, lists, resume, stack, errors, world, history>>

CommitComplete ==
  /\ call = "commitRollbacks"
  /\ pendingRollbackNodes = <<>>
  /\ autoCommittedNodes' = <<>>
  /\ insideTransaction' = FALSE
  /\ call' = "none"
  /\ UNCHANGED <<client, pendingCommitNodes, pendingRollbackNodes, resume,
                 stack, errors, world, history>>

\* The transaction is closed, and the call that asked for it goes on.
RollbackCloses ==
  /\ call = "rollback"
  /\ pendingRollbackNodes = <<>>
  /\ aborted' = aborted \cup {txn}
  /\ UNCHANGED <<stack, errors, durable, conflicted, faulted>>

RollbackComplete ==
  /\ RollbackCloses
  /\ resume # "destroy"
  /\ autoCommittedNodes' = <<>>
  /\ IF resume = "begin"
       THEN StartTransaction
       ELSE insideTransaction' = FALSE /\ UNCHANGED txn
  /\ IF resume \in Config
       THEN call' = "parse" /\ UNCHANGED resume
       ELSE call' = "none" /\ resume' = "return"
  /\ UNCHANGED <<client, pendingCommitNodes, pendingRollbackNodes, staged>>

DestroyComplete ==
  /\ RollbackCloses
  /\ resume = "destroy"
  /\ NewClient
  /\ call' = "none"
  /\ resume' = "return"
  /\ UNCHANGED txn
-----------------------------------------------------------------------------
ClosingStep ==
  \/ UnknownNode
  \/ CommitNode
  \/ CommitPartial
  \/ CommitRollbacks
  \/ RollbackCommitNode
  \/ RollbackRollbacks
  \/ RollbackNode
  \/ CommitComplete
  \/ RollbackComplete
  \/ DestroyComplete

Next ==
  \/ \E c \in Config : \/ InitializeUnchanged(c)
                       \/ InitializeFirst(c)
                       \/ Reinitialize(c)
  \/ ParseSucceeds
  \/ ParseFails
  \/ \E n \in Node : Request(n) \/ Forward(n)
  \/ VisitThrows
  \/ HandleResult
  \/ BeginTransaction
  \/ Commit
  \/ \E next \in {"return", "begin", "destroy"} : Rollback(next)
  \/ Destroy
  \/ ClosingStep

Spec == Init /\ [][Next]_vars

\* The caller's thread does not stop in the middle of Commit or Rollback.
FairSpec == Spec /\ WF_vars(ClosingStep)
-----------------------------------------------------------------------------
TypeOK ==
  /\ initialized \in BOOLEAN
  /\ nodes \subseteq Node
  /\ configFileMD5 \in {NoDigest} \cup {Digest[c] : c \in Config}
  /\ insideTransaction \in BOOLEAN
  /\ pendingCommitNodes \in Seq(Node)
  /\ pendingRollbackNodes \in Seq(Node)
  /\ autoCommittedNodes \in Seq(Node)
  /\ call \in Loops \cup {"none", "parse", "request"}
  /\ resume \in {"return", "begin", "destroy"} \cup Config
  /\ stack \in Seq(Node)
  /\ errors \in BOOLEAN
  /\ staged \subseteq Work
  /\ durable \subseteq Work
  /\ txn \in 0 .. MaxTxn
  /\ aborted \subseteq 0 .. MaxTxn
  /\ conflicted \subseteq 0 .. MaxTxn
  /\ faulted \subseteq 0 .. MaxTxn

\* Of one node, a transaction never holds work to commit and work to roll
\* back (the exceptions of HandleResult), and no node is to be decided twice.
OneMarkPerNode ==
  /\ ToSet(pendingCommitNodes) \cap ToSet(pendingRollbackNodes) = {}
  /\ IsInjective(pendingCommitNodes)
  /\ IsInjective(pendingRollbackNodes)

\* Marks do not outlive their transaction: however Commit, Rollback and
\* Initialize end, a transaction that begins finds the three vectors empty.
ClosedMeansUnmarked ==
  ~insideTransaction =>
    /\ pendingCommitNodes = <<>>
    /\ pendingRollbackNodes = <<>>
    /\ autoCommittedNodes = <<>>

\* Of what visits that returned have registered nothing is forgotten: the node
\* is marked in the open transaction, or has itself failed to commit or to roll
\* it back.  A load that registered and then threw is forgotten: no vector names
\* its node, and the node keeps the connection until it is next decided.
RegisteredIsMarked ==
  \A w \in Returned(staged) :
    \/ w.txn \in faulted
    \/ /\ insideTransaction
       /\ w.txn = txn
       /\ w.node \in ToSet(pendingCommitNodes) \cup ToSet(pendingRollbackNodes)

\* Rollback undoes: no work of a transaction closed by Rollback, Begin-
\* Transaction( true ), Initialize or the destructor is ever committed by a
\* node, then or later, unless a node threw while its work was decided.
RolledBackStaysUndone ==
  \A w \in durable : w.txn \in aborted => w.txn \in faulted

\* The work of a visit that failed, and that was forwarded to another node, is
\* never committed, unless a node threw or a mark conflicted.
SupersededStaysUndone ==
  \A w \in durable :
    w.visit = "succeeded" \/ w.txn \in faulted \cup conflicted

\* The work of a visit that succeeded is never dropped by Commit: only a
\* rollback, a new configuration or the end of the client drops it, and then
\* all of it (RolledBackStaysUndone).
DropsNoSuccess ==
  \A w \in staged \ staged' :
    w.visit = "succeeded" /\ w \notin durable' /\ w.txn \notin faulted \cup conflicted =>
      w.txn = 0 \/ call = "rollbackCommits" \/ nodes' = {}

SuccessIsKept == [][DropsNoSuccess]_vars

\* Only a Commit makes the work of a transaction permanent: no request, no
\* Rollback and no later transaction does.
CommitsOnlyInCommit ==
  \A w \in durable' \ durable :
    w.txn \in {0} \cup faulted \/ (call = "commit" /\ w.txn = txn)

OnlyCommitCommits == [][CommitsOnlyInCommit]_vars

\* Every Commit and Rollback ends, by completing or by an exception.
ClosingEnds == call \in Loops ~> call \notin Loops

\* The client implements TransactionProtocol: the vectors are its marks, and
\* the call in progress says how far the transaction is.
Protocol == INSTANCE TransactionProtocol WITH
  phase <- IF ~insideTransaction THEN "closed"
           ELSE IF call \in {"commit", "commitRollbacks"} THEN "committing"
           ELSE IF call \in {"rollbackCommits", "rollback"} THEN "rollingBack"
           ELSE "open",
  mark <- [n \in Node |-> IF n \in ToSet(pendingCommitNodes) THEN "commit"
                         ELSE IF n \in ToSet(pendingRollbackNodes) THEN "rollback"
                         ELSE "none"]

\* Every step of Initialize, of a request, of BeginTransaction, Commit, Rollback
\* and the destructor is one the transaction protocol allows, or none of it.
ImplementsProtocol == Protocol!Spec
=============================================================================
