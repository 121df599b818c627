---------------------------- MODULE DatabaseProxy ----------------------------
(***************************************************************************)
(* One database node: the statements its Load, Store and Delete execute on *)
(* the connections they get, the staging tables of bulk loads, and the     *)
(* Commit and Rollback that decide what has been executed.                 *)
(*                                                                         *)
(* Threads share the node.  An attempt is one call of LoadImpl, StoreImpl  *)
(* or DeleteImpl; any statement in it may throw.  What a connection has    *)
(* executed stays open on it until somebody commits or rolls it back.      *)
(***************************************************************************)
EXTENDS Naturals, FiniteSets

CONSTANTS
  Thread,
  NoThread,
  Conn,         \* connections to the database
  Schema,       \* where tables are that belong to no connection
  NoTable,
  Configs,      \* node configurations
  MaxAttempts   \* bound on the attempts of all threads

Attribute == {"connection", "connectionByTable", "table"}

ConfigType ==
  [type : {"oracle", "mysql", "vertica"},
   read : SUBSET Attribute,      \* the attributes of Read, or {} without it
   write : SUBSET Attribute,
   delete : SUBSET Attribute,
   staging : {"none", "static", "dynamic"},
   cut : BOOLEAN,                \* maxTableNameLength cuts the unique id off
   pre : BOOLEAN,                \* m_PreStatement
   post : BOOLEAN,
   noCleanUp : BOOLEAN]

ASSUME DatabaseAssumption ==
  /\ NoThread \notin Thread
  /\ Schema \notin Conn
  /\ NoTable \notin (Conn \cup {Schema}) \X Nat
  /\ MaxAttempts \in Nat
  /\ Configs \subseteq ConfigType

VARIABLES
  config,
  phase,       \* how far each thread is
  op,          \* what it does
  mine,        \* the number of its attempt
  conn,        \* pTransactionDatabase, or Schema before there is one
  temp,        \* its ScopedTempTable, or NoTable
  snapshot,    \* m_PendingCommits as an unlocked insert has read it
  attempts,    \* how many attempts have begun
  open,        \* what each connection has executed and nobody has decided
  tables,      \* the temporary staging tables that exist
  content,     \* the attempts whose rows are in each staging table
  files,       \* the attempts whose data files exist
  tableMutex,    \* m_TableMutex
  commitsMutex,  \* m_PendingCommitsMutex
  pending,     \* m_PendingCommits
  drops,       \* m_PendingDrops
  inside,      \* DataProxyClient::m_InsideTransaction
  marked,      \* how the client has marked this node
  answered,    \* history: attempts that returned
  acked,       \* history: attempts the client has told its caller about
  raced,       \* history: an unlocked insert overlapped another change
  leaked       \* history: tables whose DROP failed

calls == <<op, mine, conn, temp, snapshot, attempts>>
tableData == <<tables, content, files>>
locks == <<tableMutex, commitsMutex>>
lists == <<pending, drops>>
client == <<inside, marked>>
history == <<answered, acked, raced, leaked>>
vars == <<config, phase, calls, open, tableData, locks, lists, client, history>>

Number == 0..MaxAttempts     \* of an attempt; 0 is none
Table == (Conn \cup {Schema}) \X Number
Static == <<Schema, 0>>     \* the table m_WriteStagingTable itself
Work == [of : Number, what : {"read", "pre", "rows", "merge", "post", "delete"}]
-----------------------------------------------------------------------------
(* The constructor. *)

\* A section names its connection in one of two ways.
OneConnection(section) ==
  Cardinality(section \cap {"connection", "connectionByTable"}) = 1

ReadAccepted(c) == c.read # {} => OneConnection(c.read)

\* By table, the table is the name of the connection; otherwise it is given.
WriteAccepted(c) ==
  c.write # {} =>
    OneConnection(c.write) /\ ("table" \in c.write <=> "connection" \in c.write)

DeleteAccepted(c) ==
  /\ c.delete # {} => OneConnection(c.delete)
  /\ c.read # {} \/ c.write # {} \/ c.delete # {}

Init ==
  /\ config \in {c \in Configs : ReadAccepted(c) /\ WriteAccepted(c) /\ DeleteAccepted(c)}
  /\ phase = [t \in Thread |-> "idle"]
  /\ op = [t \in Thread |-> "load"]
  /\ mine = [t \in Thread |-> 0]
  /\ conn = [t \in Thread |-> Schema]
  /\ temp = [t \in Thread |-> NoTable]
  /\ snapshot = [t \in Thread |-> {}]
  /\ attempts = 0
  /\ open = [c \in Conn |-> {}]
  /\ tables = {}
  /\ content = [s \in Table |-> {}]
  /\ files = {}
  /\ tableMutex = NoThread
  /\ commitsMutex = NoThread
  /\ pending = {}
  /\ drops = {}
  /\ inside \in BOOLEAN
  /\ marked = "nothing"
  /\ answered = {}
  /\ acked = {}
  /\ raced = FALSE
  /\ leaked = {}
-----------------------------------------------------------------------------
Go(t, p) == phase' = [phase EXCEPT ![t] = p]

\* Something is executed on the connection of t, and stays undecided.
Execute(t, what) ==
  open' = [open EXCEPT ![conn[t]] = @ \cup {[of |-> mine[t], what |-> what]}]

\* t comes back from its request.
Forget(t) ==
  /\ Go(t, "idle")
  /\ op' = [op EXCEPT ![t] = "load"]
  /\ mine' = [mine EXCEPT ![t] = 0]
  /\ conn' = [conn EXCEPT ![t] = Schema]
  /\ UNCHANGED <<temp, snapshot, attempts>>

Enabled(o) ==
  CASE o = "load" -> config.read # {}
    [] o = "store" -> config.write # {}
    [] o = "delete" -> config.delete # {}

Bulk == config.staging # "none"
MySql == config.type = "mysql"
Holds(t) == tableMutex = t

\* An attempt of o gets a connection: a load asks for the type of the database
\* with the name of the section, which a load by table does not have, and rows
\* are not stored in Vertica one by one.
StartAttempt(t, o, c) ==
  /\ attempts < MaxAttempts
  /\ attempts' = attempts + 1
  /\ op' = [op EXCEPT ![t] = o]
  /\ mine' = [mine EXCEPT ![t] = attempts + 1]
  /\ conn' = [conn EXCEPT ![t] = c]
  /\ Go(t, IF \/ ~Enabled(o)
              \/ o = "load" /\ "connectionByTable" \in config.read
              \/ o = "store" /\ ~Bulk /\ config.type = "vertica"
           THEN "failed"
           ELSE CASE o = "load" -> "read"
                  [] o = "delete" -> "delete"
                  [] o = "store" /\ Bulk -> "write"
                  [] OTHER -> "pre")
  /\ UNCHANGED <<config, temp, snapshot, open, tableData, locks, lists, client, history>>

Begin(t) ==
  /\ phase[t] = "idle"
  /\ \E o \in {"load", "store", "delete"}, c \in Conn : StartAttempt(t, o, c)
-----------------------------------------------------------------------------
(* Load and Delete. *)

LoadReads(t) ==
  /\ phase[t] = "read"
  /\ IF MySql
     THEN /\ Execute(t, "read")
          /\ snapshot' = [snapshot EXCEPT ![t] = pending]
          /\ Go(t, "insert")
          /\ UNCHANGED answered
     ELSE /\ Go(t, "done")
          /\ answered' = answered \cup {mine[t]}
          /\ UNCHANGED <<open, snapshot>>
  /\ UNCHANGED <<config, op, mine, conn, temp, attempts, tableData, locks, lists, client,
                 acked, raced, leaked>>

\* The insert takes no lock: what changed since the read may be lost.
LoadInserts(t) ==
  /\ phase[t] = "insert"
  /\ Go(t, "done")
  /\ pending' = snapshot[t] \cup {conn[t]}
  /\ raced' = (raced \/ pending # snapshot[t] \/ commitsMutex # NoThread)
  /\ snapshot' = [snapshot EXCEPT ![t] = {}]
  /\ answered' = answered \cup {mine[t]}
  /\ UNCHANGED <<config, op, mine, conn, temp, attempts, open, tableData, locks, drops,
                 client, acked, leaked>>

DeleteImpl(t) ==
  /\ phase[t] = "delete"
  /\ Execute(t, "delete")
  /\ Go(t, "register")
  /\ UNCHANGED <<config, calls, tableData, locks, lists, client, history>>
-----------------------------------------------------------------------------
(* Store. *)

\* WriteDataFile: without a row there is nothing to upload.
WriteDataFile(t) ==
  /\ phase[t] = "write"
  /\ files' = files \cup {mine[t]}
  /\ \E p \in {"pre", "create"} : Go(t, p)
  /\ UNCHANGED <<config, calls, open, tables, content, locks, lists, client, history>>

\* Without its unique id a name is the same for every attempt.
NewTable(t) ==
  << IF MySql THEN conn[t] ELSE Schema, IF config.cut THEN 0 ELSE mine[t] >>

\* MUTANT: the table is handed to the next Commit when it is created.
CreateAndDrop(t) ==
  /\ phase[t] = "create"
  /\ NewTable(t) \notin tables
  /\ tables' = tables \cup {NewTable(t)}
  /\ content' = [content EXCEPT ![NewTable(t)] = {}]
  /\ temp' = [temp EXCEPT ![t] = NewTable(t)]
  /\ drops' = drops \cup {NewTable(t)}
  /\ Go(t, "lock")
  /\ UNCHANGED <<config, op, mine, conn, snapshot, attempts, open, files, locks, pending,
                 client, history>>

\* MySQL always uploads to a temporary table of the connection.
CreateTempTable(t) ==
  /\ phase[t] = "create"
  /\ IF config.staging = "dynamic" \/ MySql
     THEN /\ NewTable(t) \notin tables
          /\ tables' = tables \cup {NewTable(t)}
          /\ content' = [content EXCEPT ![NewTable(t)] = {}]
          /\ temp' = [temp EXCEPT ![t] = NewTable(t)]
     ELSE UNCHANGED <<tables, content, temp>>
  /\ Go(t, "lock")
  /\ UNCHANGED <<config, op, mine, conn, snapshot, attempts, open, files, locks, lists,
                 client, history>>

Lock(t) ==
  /\ phase[t] = "lock"
  /\ tableMutex = NoThread
  /\ tableMutex' = t
  /\ Go(t, "truncate")
  /\ UNCHANGED <<config, calls, open, tableData, commitsMutex, lists, client, history>>

StagingTable(t) == IF temp[t] = NoTable THEN Static ELSE temp[t]

\* MUTANT: the rows that a failed attempt has left stay.
TruncateNothing(t) ==
  /\ phase[t] = "truncate"
  /\ Go(t, "upload")
  /\ UNCHANGED <<config, calls, open, tableData, locks, lists, client, history>>

\* A static table still has the rows of the attempt before.
Truncate(t) ==
  /\ phase[t] = "truncate"
  /\ IF temp[t] = NoTable
     THEN content' = [content EXCEPT ![Static] = {}]
     ELSE UNCHANGED content
  /\ Go(t, "upload")
  /\ UNCHANGED <<config, calls, open, tables, files, locks, lists, client, history>>

Upload(t) ==
  /\ phase[t] = "upload"
  /\ content' = [content EXCEPT ![StagingTable(t)] = @ \cup {mine[t]}]
  /\ Go(t, "pre")
  /\ UNCHANGED <<config, calls, open, tables, files, locks, lists, client, history>>

PreStatement(t) ==
  /\ phase[t] = "pre"
  /\ IF config.pre THEN Execute(t, "pre") ELSE UNCHANGED open
  /\ Go(t, CASE Holds(t) -> "merge" [] ~Holds(t) /\ Bulk -> "remove" [] OTHER -> "rows")
  /\ UNCHANGED <<config, calls, tableData, locks, lists, client, history>>

\* Per-row mode: the statement for one row, or the end of the rows.
ExecuteRow(t) ==
  /\ phase[t] = "rows"
  /\ Execute(t, "rows")
  /\ UNCHANGED <<config, phase, calls, tableData, locks, lists, client, history>>

EndRows(t) ==
  /\ phase[t] = "rows"
  /\ Go(t, "post")
  /\ UNCHANGED <<config, calls, open, tableData, locks, lists, client, history>>

Merge(t) ==
  /\ phase[t] = "merge"
  /\ Execute(t, "merge")
  /\ Go(t, "post")
  /\ UNCHANGED <<config, calls, tableData, locks, lists, client, history>>

PostStatement(t) ==
  /\ phase[t] = "post"
  /\ IF config.post THEN Execute(t, "post") ELSE UNCHANGED open
  /\ Go(t, IF Holds(t) THEN "remove" ELSE "register")
  /\ UNCHANGED <<config, calls, tableData, locks, lists, client, history>>

\* What leaving the scope of the staging table does, on every path: the lock is
\* released, and ~PendingDropInserter hands the table to the next Commit.
LeaveStaging(t) ==
  /\ tableMutex' = IF Holds(t) THEN NoThread ELSE tableMutex
  /\ drops' = drops \cup ({temp[t]} \ {NoTable})
  /\ temp' = [temp EXCEPT ![t] = NoTable]

RemoveFiles(t) ==
  /\ phase[t] = "remove"
  /\ files' = IF config.noCleanUp THEN files ELSE files \ {mine[t]}
  /\ Go(t, IF Holds(t) THEN "register" ELSE "post")
  /\ LeaveStaging(t)
  /\ UNCHANGED <<config, op, mine, conn, snapshot, attempts, open, tables, content,
                 commitsMutex, pending, client, history>>

Register(t) ==
  /\ phase[t] = "register"
  /\ commitsMutex = NoThread
  /\ pending' = pending \cup {conn[t]}
  /\ answered' = answered \cup {mine[t]}
  /\ Go(t, "done")
  /\ UNCHANGED <<config, calls, open, tableData, locks, drops, client, acked, raced, leaked>>

Working == {"read", "delete", "write", "create", "lock", "truncate", "upload", "pre",
            "rows", "merge", "post", "remove"}

\* Any statement, file or connection may fail and unwind the attempt.
Fail(t) ==
  /\ phase[t] \in Working
  /\ Go(t, "failed")
  /\ LeaveStaging(t)
  /\ UNCHANGED <<config, op, mine, conn, snapshot, attempts, open, tableData,
                 commitsMutex, pending, client, history>>
-----------------------------------------------------------------------------
(* AbstractNode and DataProxyClient around the attempt. *)

Retry(t) ==
  /\ phase[t] = "failed"
  /\ \E c \in Conn : StartAttempt(t, op[t], c)

\* The exception leaves the client, which does nothing for the node.
Throw(t) ==
  /\ phase[t] = "failed"
  /\ Forget(t)
  /\ UNCHANGED <<config, open, tableData, locks, lists, client, history>>

\* HandleResult: the result of a request that another node did not take over,
\* or that a failure node took over.
HandleResult(t) ==
  /\ phase[t] \in {"done", "failed"}
  /\ LET mark == IF phase[t] = "done" THEN "commit" ELSE "rollback" IN
     IF inside
     THEN /\ Forget(t)
          /\ marked' = IF marked = "nothing" THEN mark ELSE marked
     ELSE /\ Go(t, mark)
          /\ UNCHANGED <<calls, marked>>
  /\ UNCHANGED <<config, open, tableData, locks, lists, inside, history>>

\* The client's Commit or Rollback; a node is unmarked when it has been called.
Close(t) ==
  /\ inside
  /\ phase[t] = "idle"
  /\ \E d \in {"commit", "rollback"} :
       IF marked = "nothing"
       THEN inside' = FALSE /\ UNCHANGED <<phase, op, marked>>
       ELSE /\ Go(t, IF marked = "rollback" THEN "rollback" ELSE d)
            /\ op' = [op EXCEPT ![t] = "close"]
            /\ UNCHANGED client
  /\ UNCHANGED <<config, mine, conn, temp, snapshot, attempts, open, tableData, locks,
                 lists, history>>
-----------------------------------------------------------------------------
(* Commit and Rollback of the node. *)

Deciding(t) == phase[t] \in {"commit", "rollback"} /\ commitsMutex = t

StartDecision(t) ==
  /\ phase[t] \in {"commit", "rollback"}
  /\ commitsMutex = NoThread
  /\ commitsMutex' = t
  /\ UNCHANGED <<config, phase, calls, open, tableData, tableMutex, lists, client, history>>

\* MUTANT: one connection is decided and the whole set is cleared.
DecideOne(t) ==
  /\ Deciding(t)
  /\ \E c \in pending : open' = [open EXCEPT ![c] = {}]
  /\ pending' = {}
  /\ UNCHANGED <<config, phase, calls, tableData, locks, drops, client, history>>

\* MUTANT: the connections are forgotten and not decided.
DecideNothing(t) ==
  /\ Deciding(t)
  /\ \E c \in pending : pending' = pending \ {c}
  /\ UNCHANGED <<config, phase, calls, open, tableData, locks, drops, client, history>>

Decide(t) ==
  /\ Deciding(t)
  /\ \E c \in pending :
       /\ open' = [open EXCEPT ![c] = {}]
       /\ pending' = pending \ {c}
  /\ UNCHANGED <<config, phase, calls, tableData, locks, drops, client, history>>

\* MUTANT: the lock is released by hand, and not when a connection throws.
DecisionFailsLocked(t) ==
  /\ Deciding(t)
  /\ pending # {}
  /\ IF op[t] = "close"
     THEN inside' = (phase[t] = "commit") /\ marked' = "nothing"
     ELSE UNCHANGED client
  /\ Forget(t)
  /\ UNCHANGED <<config, open, tableData, locks, lists, history>>

\* A connection throws: it and the rest stay pending, the drops stay too.
DecisionFails(t) ==
  /\ Deciding(t)
  /\ pending # {}
  /\ commitsMutex' = NoThread
  /\ IF op[t] = "close"
     THEN inside' = (phase[t] = "commit") /\ marked' = "nothing"
     ELSE UNCHANGED client
  /\ Forget(t)
  /\ UNCHANGED <<config, open, tableData, tableMutex, lists, history>>

\* m_PendingDrops.clear(): a DROP that fails is only logged.
EndDecision(t) ==
  /\ Deciding(t)
  /\ pending = {}
  /\ \E failed \in SUBSET drops :
       /\ tables' = tables \ (drops \ failed)
       /\ leaked' = leaked \cup failed
  /\ drops' = {}
  /\ commitsMutex' = NoThread
  /\ IF op[t] = "close"
     THEN inside' = FALSE /\ marked' = "nothing" /\ acked' = acked \cup answered
     ELSE acked' = acked \cup ({mine[t]} \cap answered) /\ UNCHANGED client
  /\ Forget(t)
  /\ UNCHANGED <<config, open, content, files, tableMutex, pending, answered, raced>>
-----------------------------------------------------------------------------
\* What is done to the staging table under m_TableMutex.
Manipulate(t) == Lock(t) \/ Truncate(t) \/ Upload(t) \/ Merge(t) \/ RemoveFiles(t)

StoreImpl(t) ==
  \/ WriteDataFile(t) \/ CreateTempTable(t) \/ Manipulate(t)
  \/ PreStatement(t) \/ ExecuteRow(t) \/ EndRows(t) \/ PostStatement(t) \/ Register(t)

Decision(t) == StartDecision(t) \/ Decide(t) \/ DecisionFails(t) \/ EndDecision(t)

\* What a thread does once it has begun.
Step(t) ==
  \/ LoadReads(t) \/ LoadInserts(t) \/ DeleteImpl(t) \/ StoreImpl(t) \/ Fail(t)
  \/ Retry(t) \/ Throw(t) \/ HandleResult(t) \/ Decision(t)

Next == \E t \in Thread : Begin(t) \/ Close(t) \/ Step(t)

Spec == Init /\ [][Next]_vars
LiveSpec == Spec /\ \A t \in Thread : WF_vars(Step(t))
-----------------------------------------------------------------------------
Phases == Working \cup {"idle", "insert", "register", "done", "failed", "commit", "rollback"}

\* The types of the node, its threads and its database.
TypeOK ==
  /\ config \in Configs
  /\ phase \in [Thread -> Phases]
  /\ op \in [Thread -> {"load", "store", "delete", "close"}]
  /\ mine \in [Thread -> Number]
  /\ conn \in [Thread -> Conn \cup {Schema}]
  /\ temp \in [Thread -> Table \cup {NoTable}]
  /\ snapshot \in [Thread -> SUBSET Conn]
  /\ attempts \in Number
  /\ open \in [Conn -> SUBSET Work]
  /\ tables \subseteq Table
  /\ content \in [Table -> SUBSET Number]
  /\ files \subseteq Number
  /\ tableMutex \in Thread \cup {NoThread}
  /\ commitsMutex \in Thread \cup {NoThread}
  /\ pending \subseteq Conn
  /\ drops \subseteq Table
  /\ inside \in BOOLEAN
  /\ marked \in {"nothing", "commit", "rollback"}
  /\ answered \subseteq Number
  /\ acked \subseteq answered
  /\ raced \in BOOLEAN
  /\ leaked \subseteq Table

\* What an answered attempt has left undecided on a connection will be decided
\* by the next Commit or Rollback, because the connection is in m_PendingCommits
\* (DatabaseProxy.cpp:1328-1331, 1350-1352), unless the insert of a load, which
\* takes no lock (829), has overlapped another change of the set.
PendingCovers ==
  raced \/ \A c \in Conn : \A w \in open[c] : w.of \in answered => c \in pending

\* A merge reads the rows of its own attempt and no others, whatever an attempt
\* that failed before has left in the staging table (1136-1315).
MergesOwnRows ==
  \A t \in Thread : phase[t] = "merge" => content[StagingTable(t)] = {mine[t]}

\* Every temporary staging table is in use by one thread, or waits for the next
\* Commit or Rollback, or could not be dropped; none that is in use waits to be
\* dropped (387-455, 1373-1377).
TempTablesAccounted ==
  /\ \A s \in Table :
       s \in tables <=> s \in drops \cup leaked \/ \E t \in Thread : temp[t] = s
  /\ \A t \in Thread : temp[t] \notin drops \cup leaked
  /\ drops \cap leaked = {}
  /\ \A t, u \in Thread : temp[t] = temp[u] /\ temp[t] # NoTable => t = u

\* What the client has reported as done, a store outside a transaction or a
\* transaction that was closed, does not stay undecided on a connection.
AcknowledgedIsDecided ==
  raced \/ \A c \in Conn : \A w \in open[c] : w.of \notin acked

\* A request comes to an end: neither the table lock nor the lock of the pending
\* commits is kept, however an attempt ends.
RequestsEnd == \A t \in Thread : phase[t] # "idle" ~> phase[t] = "idle"
=============================================================================
