------------------------ MODULE DatabaseProxyProofs ------------------------
(***************************************************************************)
(* Proofs about DatabaseProxy, for any threads, connections, configurations *)
(* and number of attempts.                                                 *)
(***************************************************************************)
EXTENDS DatabaseProxy, TLAPS

Attempting == Working \cup {"insert", "register"}

Requests == {"load", "store", "delete"}

\* A thread in an attempt has a connection, and its operation is a request.
Connected ==
  \A t \in Thread :
    /\ phase[t] \in Attempting => conn[t] \in Conn
    /\ phase[t] \in Attempting \cup {"failed"} => op[t] \in Requests

Typed == TypeOK /\ Connected

LEMMA NumberFacts ==
  /\ 0 \in Number
  /\ attempts \in Number /\ attempts < MaxAttempts => attempts + 1 \in Number
  BY DatabaseAssumption DEF Number

LEMMA ExecuteType ==
  ASSUME TypeOK, NEW t \in Thread, NEW what, Execute(t, what),
         what \in {"read", "pre", "rows", "merge", "post", "delete"}
  PROVE  open' \in [Conn -> SUBSET Work]
<1>1. [of |-> mine[t], what |-> what] \in Work
  BY DEF TypeOK, Work
<1>. QED
  BY <1>1 DEF TypeOK, Execute

LEMMA StartType ==
  ASSUME Typed, NEW t \in Thread, NEW o \in {"load", "store", "delete"}, NEW c \in Conn,
         StartAttempt(t, o, c)
  PROVE  Typed'
<1>1. PICK p \in {"failed", "read", "delete", "write", "pre"} : Go(t, p)
  BY DEF StartAttempt
<1>2. phase' \in [Thread -> Phases]
  BY <1>1 DEF Typed, TypeOK, Go, Phases, Working
<1>3. /\ op' \in [Thread -> {"load", "store", "delete", "close"}]
      /\ mine' \in [Thread -> Number]
      /\ conn' \in [Thread -> Conn \cup {Schema}]
      /\ attempts' \in Number
  BY NumberFacts DEF StartAttempt, Typed, TypeOK
<1>4. Connected'
  BY <1>1 DEF StartAttempt, Typed, TypeOK, Connected, Go, Requests
<1>. QED
  BY <1>2, <1>3, <1>4
  DEF StartAttempt, Typed, TypeOK, tableData, locks, lists, client, history

LEMMA InitTypes == Init => Typed
<1>. SUFFICES ASSUME Init PROVE Typed
  OBVIOUS
<1>1. "idle" \in Phases /\ "idle" \notin Attempting \cup {"failed"}
  BY DEF Phases, Attempting, Working
<1>2. TypeOK
  <2>1. /\ config \in Configs
        /\ phase \in [Thread -> Phases]
        /\ op \in [Thread -> {"load", "store", "delete", "close"}]
        /\ marked \in {"nothing", "commit", "rollback"}
        /\ inside \in BOOLEAN /\ raced \in BOOLEAN
    BY <1>1 DEF Init
  <2>2. /\ mine \in [Thread -> Number]
        /\ conn \in [Thread -> Conn \cup {Schema}]
        /\ temp \in [Thread -> Table \cup {NoTable}]
        /\ snapshot \in [Thread -> SUBSET Conn]
        /\ attempts \in Number
    BY NumberFacts DEF Init
  <2>3. /\ open \in [Conn -> SUBSET Work]
        /\ tables \subseteq Table
        /\ content \in [Table -> SUBSET Number]
        /\ files \subseteq Number
        /\ tableMutex \in Thread \cup {NoThread}
        /\ commitsMutex \in Thread \cup {NoThread}
        /\ pending \subseteq Conn
        /\ drops \subseteq Table
        /\ answered \subseteq Number
        /\ acked \subseteq answered
        /\ leaked \subseteq Table
    BY DEF Init
  <2>. QED
    BY <2>1, <2>2, <2>3 DEF TypeOK
<1>. QED
  BY <1>1, <1>2 DEF Init, Typed, Connected

LEMMA TypeStep ==
  ASSUME Typed, [Next]_vars
  PROVE  Typed'
<1>. USE DatabaseAssumption DEF Typed, Connected
<1>1. CASE UNCHANGED vars
  BY <1>1 DEF TypeOK, vars, calls, tableData, locks, lists, client, history
<1>2. ASSUME NEW t \in Thread, Begin(t) PROVE Typed'
  BY <1>2, StartType DEF Begin
<1>3. ASSUME NEW t \in Thread, Retry(t) PROVE Typed'
  <2>1. op[t] \in {"load", "store", "delete"}
    BY <1>3 DEF Retry, TypeOK, Requests
  <2>. QED
    BY <1>3, <2>1, StartType DEF Retry
<1>4. ASSUME NEW t \in Thread, LoadReads(t) PROVE Typed'
  <2>1. open' \in [Conn -> SUBSET Work]
    BY <1>4, ExecuteType DEF LoadReads, TypeOK
  <2>. QED
    BY <1>4, <2>1 DEF LoadReads, MySql, TypeOK, Requests, Phases, Attempting, Working, Go,
      calls, tableData, locks, lists, client, history
<1>5. ASSUME NEW t \in Thread, LoadInserts(t) PROVE Typed'
  BY <1>5
  DEF LoadInserts, TypeOK, Requests, Phases, Attempting, Working, Go,
      calls, tableData, locks, lists, client, history
<1>6. ASSUME NEW t \in Thread, DeleteImpl(t) PROVE Typed'
  <2>1. open' \in [Conn -> SUBSET Work]
    BY <1>6, ExecuteType DEF DeleteImpl, TypeOK
  <2>. QED
    BY <1>6, <2>1 DEF DeleteImpl, TypeOK, Requests, Phases, Attempting, Working, Go,
      calls, tableData, locks, lists, client, history
<1>7. ASSUME NEW t \in Thread, WriteDataFile(t) PROVE Typed'
  BY <1>7
  DEF WriteDataFile, TypeOK, Requests, Phases, Attempting, Working, Go,
      calls, tableData, locks, lists, client, history
<1>8. ASSUME NEW t \in Thread, CreateTempTable(t) PROVE Typed'
  <2>1. NewTable(t) \in Table
    <3>1. conn[t] \in Conn \cup {Schema} /\ mine[t] \in Number
      BY DEF TypeOK
    <3>. QED
      BY <3>1, NumberFacts DEF NewTable, Table
  <2>2. temp' \in [Thread -> Table \cup {NoTable}]
    BY <1>8, <2>1 DEF CreateTempTable, TypeOK
  <2>3. tables' \subseteq Table /\ content' \in [Table -> SUBSET Number]
    BY <1>8, <2>1 DEF CreateTempTable, TypeOK
  <2>. QED
    BY <1>8, <2>2, <2>3 DEF CreateTempTable, TypeOK, Requests, Phases, Attempting, Working, Go, calls, tableData, locks, lists, client, history
<1>9. ASSUME NEW t \in Thread, Lock(t) PROVE Typed'
  BY <1>9
  DEF Lock, TypeOK, Requests, Phases, Attempting, Working, Go,
      calls, tableData, locks, lists, client, history
<1>10. ASSUME NEW t \in Thread, Truncate(t) PROVE Typed'
  BY <1>10
  DEF Truncate, TypeOK, Requests, Phases, Attempting, Working, Go,
      calls, tableData, locks, lists, client, history
<1>11. ASSUME NEW t \in Thread, Upload(t) PROVE Typed'
  <2>1. StagingTable(t) \in Table
    BY NumberFacts DEF TypeOK, StagingTable, Static, Table
  <2>2. content' \in [Table -> SUBSET Number]
    BY <1>11, <2>1 DEF Upload, TypeOK
  <2>. QED
    BY <1>11, <2>2 DEF Upload, TypeOK, Requests, Phases, Attempting, Working, Go, calls, tableData, locks, lists, client, history
<1>12. ASSUME NEW t \in Thread, PreStatement(t) PROVE Typed'
  <2>1. open' \in [Conn -> SUBSET Work]
    BY <1>12, ExecuteType DEF PreStatement, TypeOK
  <2>. QED
    BY <1>12, <2>1 DEF PreStatement, Holds, Bulk, TypeOK, Requests, Phases, Attempting, Working, Go,
      calls, tableData, locks, lists, client, history
<1>13. ASSUME NEW t \in Thread, ExecuteRow(t) PROVE Typed'
  <2>1. open' \in [Conn -> SUBSET Work]
    BY <1>13, ExecuteType DEF ExecuteRow, TypeOK
  <2>. QED
    BY <1>13, <2>1 DEF ExecuteRow, TypeOK, Requests, Phases, Attempting, Working, Go,
      calls, tableData, locks, lists, client, history
<1>14. ASSUME NEW t \in Thread, EndRows(t) PROVE Typed'
  BY <1>14
  DEF EndRows, TypeOK, Requests, Phases, Attempting, Working, Go,
      calls, tableData, locks, lists, client, history
<1>15. ASSUME NEW t \in Thread, Merge(t) PROVE Typed'
  <2>1. open' \in [Conn -> SUBSET Work]
    BY <1>15, ExecuteType DEF Merge, TypeOK
  <2>. QED
    BY <1>15, <2>1 DEF Merge, TypeOK, Requests, Phases, Attempting, Working, Go,
      calls, tableData, locks, lists, client, history
<1>16. ASSUME NEW t \in Thread, PostStatement(t) PROVE Typed'
  <2>1. open' \in [Conn -> SUBSET Work]
    BY <1>16, ExecuteType DEF PostStatement, TypeOK
  <2>. QED
    BY <1>16, <2>1 DEF PostStatement, Holds, TypeOK, Requests, Phases, Attempting, Working, Go,
      calls, tableData, locks, lists, client, history
<1>17. ASSUME NEW t \in Thread, RemoveFiles(t) PROVE Typed'
  BY <1>17
  DEF RemoveFiles, LeaveStaging, Holds, TypeOK, Requests, Phases, Attempting, Working, Go,
      calls, tableData, locks, lists, client, history
<1>18. ASSUME NEW t \in Thread, Register(t) PROVE Typed'
  BY <1>18
  DEF Register, TypeOK, Requests, Phases, Attempting, Working, Go,
      calls, tableData, locks, lists, client, history
<1>19. ASSUME NEW t \in Thread, Fail(t) PROVE Typed'
  BY <1>19
  DEF Fail, LeaveStaging, Holds, Working, TypeOK, Requests, Phases, Attempting, Working, Go,
      calls, tableData, locks, lists, client, history
<1>20. ASSUME NEW t \in Thread, Throw(t) PROVE Typed'
  BY <1>20, NumberFacts
  DEF Throw, Forget, TypeOK, Requests, Phases, Attempting, Working, Go,
      calls, tableData, locks, lists, client, history
<1>21. ASSUME NEW t \in Thread, HandleResult(t) PROVE Typed'
  BY <1>21, NumberFacts
  DEF HandleResult, Forget, TypeOK, Requests, Phases, Attempting, Working, Go,
      calls, tableData, locks, lists, client, history
<1>22. ASSUME NEW t \in Thread, Close(t) PROVE Typed'
  BY <1>22
  DEF Close, TypeOK, Requests, Phases, Attempting, Working, Go,
      calls, tableData, locks, lists, client, history
<1>23. ASSUME NEW t \in Thread, StartDecision(t) PROVE Typed'
  BY <1>23
  DEF StartDecision, TypeOK, Requests, Phases, Attempting, Working, Go,
      calls, tableData, locks, lists, client, history
<1>24. ASSUME NEW t \in Thread, Decide(t) PROVE Typed'
  BY <1>24
  DEF Decide, Deciding, TypeOK, Requests, Phases, Attempting, Working, Go,
      calls, tableData, locks, lists, client, history
<1>25. ASSUME NEW t \in Thread, DecisionFails(t) PROVE Typed'
  <2>1. inside' \in BOOLEAN /\ marked' \in {"nothing", "commit", "rollback"}
    BY <1>25 DEF DecisionFails, TypeOK, client
  <2>. QED
    BY <1>25, <2>1, NumberFacts
    DEF DecisionFails, Forget, Deciding, TypeOK, Requests, Phases, Attempting, Working, Go, calls, tableData, locks, lists, client, history
<1>26. ASSUME NEW t \in Thread, EndDecision(t) PROVE Typed'
  <2>1. acked' \subseteq answered'
    BY <1>26 DEF EndDecision, TypeOK
  <2>2. inside' \in BOOLEAN /\ marked' \in {"nothing", "commit", "rollback"}
    BY <1>26 DEF EndDecision, TypeOK, client
  <2>3. tables' \subseteq Table /\ leaked' \subseteq Table /\ drops' \subseteq Table
    BY <1>26 DEF EndDecision, TypeOK
  <2>. QED
    BY <1>26, <2>1, <2>2, <2>3, NumberFacts
    DEF EndDecision, Forget, Deciding, TypeOK, Requests, Phases, Attempting, Working, Go
<1>. QED
  BY <1>1, <1>2, <1>3, <1>4, <1>5, <1>6, <1>7, <1>8, <1>9, <1>10, <1>11, <1>12, <1>13, <1>14, <1>15, <1>16, <1>17, <1>18, <1>19, <1>20, <1>21, <1>22, <1>23, <1>24, <1>25, <1>26
  DEF Next, Step, StoreImpl, Manipulate, Decision

\* For any number of attempts the node, its threads and its database keep their
\* types.
THEOREM TypeCorrect == Spec => []TypeOK
<1>1. Typed /\ [Next]_vars => Typed'
  BY TypeStep
<1>2. Typed => TypeOK
  BY DEF Typed
<1>. QED
  BY InitTypes, <1>1, <1>2, PTL DEF Spec
-----------------------------------------------------------------------------
(* What is executed and who will decide it. *)

\* No number is above the last one given.
Numbered ==
  /\ \A t \in Thread : mine[t] <= attempts
  /\ \A c \in Conn : \A w \in open[c] : w.of <= attempts
  /\ \A a \in answered : a <= attempts

\* An attempt has a number of its own, has not answered, and has executed on its
\* own connection only; before a load has read, it has executed nothing.
Owned ==
  \A t \in Thread :
    /\ phase[t] \in Attempting =>
         /\ mine[t] # 0 /\ mine[t] \notin answered
         /\ \A u \in Thread : u # t => mine[u] # mine[t]
         /\ \A c \in Conn : \A w \in open[c] : w.of = mine[t] => c = conn[t]
    /\ phase[t] = "read" => \A c \in Conn : \A w \in open[c] : w.of # mine[t]

Covered == Numbered /\ Owned /\ PendingCovers /\ AcknowledgedIsDecided

LEMMA InitCovered == Init => Covered
<1>. SUFFICES ASSUME Init PROVE Covered
  OBVIOUS
<1>1. "idle" \notin Attempting
  BY DEF Attempting, Working
<1>. QED
  BY <1>1, NumberFacts, DatabaseAssumption
  DEF Init, Covered, Numbered, Owned, PendingCovers, AcknowledgedIsDecided

\* An attempt that starts has a number nothing else has.
LEMMA Started ==
  ASSUME Typed, Covered, NEW t \in Thread, NEW o, NEW c \in Conn, StartAttempt(t, o, c)
  PROVE  Covered'
<1>. USE DEF StartAttempt, history, lists
<1>1. attempts \in Nat /\ attempts' = attempts + 1
  BY DatabaseAssumption DEF Typed, TypeOK, Number
<1>2. \A u \in Thread : mine[u] \in Nat
  BY DatabaseAssumption DEF Typed, TypeOK, Number
<1>3. \A d \in Conn : \A w \in open[d] : w.of \in Nat
  BY DatabaseAssumption DEF Typed, TypeOK, Number, Work
<1>4. \A a \in answered : a \in Nat
  BY DatabaseAssumption DEF Typed, TypeOK, Number
<1>5. /\ mine'[t] = attempts + 1
      /\ \A u \in Thread : u # t => mine'[u] = mine[u]
      /\ conn'[t] = c
      /\ \A u \in Thread : u # t => conn'[u] = conn[u]
      /\ \A u \in Thread : u # t => phase'[u] = phase[u]
      /\ open' = open /\ answered' = answered /\ acked' = acked
      /\ pending' = pending /\ raced' = raced
  BY DEF Typed, TypeOK, Go
<1>6. Numbered'
  BY <1>1, <1>2, <1>3, <1>4, <1>5 DEF Covered, Numbered
<1>7. ASSUME NEW u \in Thread, u # t
      PROVE  /\ phase[u] \in Attempting => mine'[u] # mine'[t]
             /\ mine'[u] # mine'[t]
  BY <1>1, <1>2, <1>5, <1>7 DEF Covered, Numbered
<1>8. /\ mine'[t] # 0 /\ mine'[t] \notin answered
      /\ \A d \in Conn : \A w \in open[d] : w.of # mine'[t]
  BY <1>1, <1>3, <1>4, <1>5 DEF Covered, Numbered
<1>9. Owned'
  BY <1>5, <1>7, <1>8 DEF Covered, Owned
<1>. QED
  BY <1>5, <1>6, <1>9 DEF Covered, PendingCovers, AcknowledgedIsDecided

\* A step of an attempt that may execute something on its connection.
LEMMA Executed ==
  ASSUME Typed, Covered, NEW t \in Thread, phase[t] \in Attempting,
         NEW p, p # "read", Go(t, p),
         open' = open \/ \E what : Execute(t, what),
         UNCHANGED <<mine, conn, attempts, pending, answered, acked, raced>>
  PROVE  Covered'
<1>1. /\ phase'[t] = p
      /\ \A u \in Thread : u # t => phase'[u] = phase[u]
  BY DEF Go, Typed, TypeOK
<1>2. conn[t] \in Conn
  BY DEF Typed, Connected
<1>3. \A c \in Conn : \A w \in open'[c] :
        w \in open[c] \/ (c = conn[t] /\ w.of = mine[t])
  BY <1>2 DEF Typed, TypeOK, Execute
<1>4. Numbered'
  BY <1>3 DEF Covered, Numbered
<1>5. mine[t] \notin answered
  BY DEF Covered, Owned
<1>6. Owned'
  <2>1. ASSUME NEW u \in Thread, phase'[u] \in Attempting
        PROVE  /\ phase[u] \in Attempting
               /\ \A c \in Conn : \A w \in open'[c] : w.of = mine[u] => c = conn[u]
    BY <1>1, <1>3, <2>1 DEF Covered, Owned
  <2>2. ASSUME NEW u \in Thread, phase'[u] = "read"
        PROVE  \A c \in Conn : \A w \in open'[c] : w.of # mine[u]
    <3>1. u # t /\ phase[u] = "read" /\ phase[u] \in Attempting
      BY <1>1, <2>2 DEF Attempting, Working
    <3>. QED
      BY <1>3, <3>1 DEF Covered, Owned
  <2>. QED
    BY <2>1, <2>2 DEF Covered, Owned
<1>7. acked \subseteq answered
  BY DEF Typed, TypeOK
<1>. QED
  BY <1>3, <1>4, <1>5, <1>6, <1>7 DEF Covered, PendingCovers, AcknowledgedIsDecided

\* A step of a thread that is not in an attempt: its request comes back, or it
\* takes or gives the lock of the pending commits; what it acknowledges has been
\* answered, and nothing is pending then.
LEMMA Rested ==
  ASSUME Typed, Covered, NEW t \in Thread, phase'[t] \notin Attempting,
         \A u \in Thread : u # t =>
           phase'[u] = phase[u] /\ mine'[u] = mine[u] /\ conn'[u] = conn[u],
         mine'[t] \in {0, mine[t]},
         acked' \subseteq answered,
         acked' = acked \/ pending = {},
         UNCHANGED <<open, attempts, pending, answered, raced>>
  PROVE  Covered'
<1>1. 0 <= attempts
  BY DatabaseAssumption DEF Typed, TypeOK, Number
<1>2. Numbered'
  BY <1>1 DEF Covered, Numbered
<1>3. "read" \in Attempting
  BY DEF Attempting, Working
<1>4. Owned'
  BY <1>3 DEF Covered, Owned
<1>5. AcknowledgedIsDecided'
  BY DEF Covered, PendingCovers, AcknowledgedIsDecided
<1>. QED
  BY <1>2, <1>4, <1>5 DEF Covered, PendingCovers

\* An attempt answers: its connection is pending, or it has executed nothing.
LEMMA Answers ==
  ASSUME Typed, Covered, NEW t \in Thread, phase[t] \in Attempting, Go(t, "done"),
         answered' = answered \cup {mine[t]},
         raced' \/ pending \subseteq pending',
         \/ conn[t] \in pending'
         \/ \A c \in Conn : \A w \in open[c] : w.of # mine[t],
         raced => raced',
         UNCHANGED <<open, mine, conn, attempts, acked>>
  PROVE  Covered'
<1>1. /\ phase'[t] = "done" /\ "done" \notin Attempting /\ "read" \in Attempting
      /\ \A u \in Thread : u # t => phase'[u] = phase[u]
  BY DEF Go, Typed, TypeOK, Attempting, Working
<1>2. Numbered'
  BY DEF Covered, Numbered
<1>3. Owned'
  BY <1>1 DEF Covered, Owned
<1>4. PendingCovers'
  BY DEF Covered, Owned, PendingCovers
<1>. QED
  BY <1>2, <1>3, <1>4 DEF Covered, AcknowledgedIsDecided

LEMMA CoveredStep ==
  ASSUME Typed, Covered, [Next]_vars
  PROVE  Covered'
<1>. USE DEF Typed
<1>1. CASE UNCHANGED vars
  BY <1>1 DEF vars, calls, tableData, locks, lists, client, history,
    Covered, Numbered, Owned, PendingCovers, AcknowledgedIsDecided
<1>2. ASSUME NEW t \in Thread, Begin(t) PROVE Covered'
  BY <1>2, Started DEF Begin
<1>3. ASSUME NEW t \in Thread, Retry(t) PROVE Covered'
  BY <1>3, Started DEF Retry
<1>4. ASSUME NEW t \in Thread, LoadReads(t) PROVE Covered'
  <2>1. phase[t] \in Attempting
    BY <1>4 DEF LoadReads, Attempting, Working
  <2>2. CASE MySql
    <3>1. Go(t, "insert") /\ Execute(t, "read")
      BY <1>4, <2>2 DEF LoadReads
    <3>2. UNCHANGED <<mine, conn, attempts, pending, answered, acked, raced>>
      BY <1>4, <2>2 DEF LoadReads, lists
    <3>. QED
      BY <2>1, <3>1, <3>2, Executed
  <2>3. CASE ~MySql
    <3>1. /\ Go(t, "done") /\ answered' = answered \cup {mine[t]}
          /\ UNCHANGED <<open, mine, conn, attempts, pending, acked, raced>>
      BY <1>4, <2>3 DEF LoadReads, lists
    <3>2. \A c \in Conn : \A w \in open[c] : w.of # mine[t]
      BY <1>4 DEF LoadReads, Covered, Owned
    <3>. QED
      BY <2>1, <3>1, <3>2, Answers
  <2>. QED
    BY <2>2, <2>3
<1>5. ASSUME NEW t \in Thread, LoadInserts(t) PROVE Covered'
  <2>1. phase[t] \in Attempting
    BY <1>5 DEF LoadInserts, Attempting, Working
  <2>2. /\ Go(t, "done") /\ answered' = answered \cup {mine[t]}
        /\ conn[t] \in pending'
        /\ raced' \/ pending \subseteq pending'
        /\ raced => raced'
        /\ UNCHANGED <<open, mine, conn, attempts, acked>>
    BY <1>5 DEF LoadInserts, calls
  <2>. QED
    BY <2>1, <2>2, Answers
<1>6. ASSUME NEW t \in Thread, DeleteImpl(t) PROVE Covered'
  <2>1. PICK p \in {"register"} : Go(t, p)
    BY <1>6 DEF DeleteImpl, Go, TypeOK
  <2>2. phase[t] \in Attempting
    BY <1>6 DEF DeleteImpl, Attempting, Working
  <2>3. open' = open \/ \E what : Execute(t, what)
    BY <1>6 DEF DeleteImpl
  <2>4. UNCHANGED <<mine, conn, attempts, pending, answered, acked, raced>>
    BY <1>6 DEF DeleteImpl, calls, lists, history
  <2>. QED
    BY <2>1, <2>2, <2>3, <2>4, Executed
<1>7. ASSUME NEW t \in Thread, WriteDataFile(t) PROVE Covered'
  <2>1. PICK p \in {"pre", "create"} : Go(t, p)
    BY <1>7 DEF WriteDataFile, Go, TypeOK
  <2>2. phase[t] \in Attempting
    BY <1>7 DEF WriteDataFile, Attempting, Working
  <2>3. open' = open \/ \E what : Execute(t, what)
    BY <1>7 DEF WriteDataFile
  <2>4. UNCHANGED <<mine, conn, attempts, pending, answered, acked, raced>>
    BY <1>7 DEF WriteDataFile, calls, lists, history
  <2>. QED
    BY <2>1, <2>2, <2>3, <2>4, Executed
<1>8. ASSUME NEW t \in Thread, CreateTempTable(t) PROVE Covered'
  <2>1. PICK p \in {"lock"} : Go(t, p)
    BY <1>8 DEF CreateTempTable, Go, TypeOK
  <2>2. phase[t] \in Attempting
    BY <1>8 DEF CreateTempTable, Attempting, Working
  <2>3. open' = open \/ \E what : Execute(t, what)
    BY <1>8 DEF CreateTempTable
  <2>4. UNCHANGED <<mine, conn, attempts, pending, answered, acked, raced>>
    BY <1>8 DEF CreateTempTable, calls, lists, history
  <2>. QED
    BY <2>1, <2>2, <2>3, <2>4, Executed
<1>9. ASSUME NEW t \in Thread, Lock(t) PROVE Covered'
  <2>1. PICK p \in {"truncate"} : Go(t, p)
    BY <1>9 DEF Lock, Go, TypeOK
  <2>2. phase[t] \in Attempting
    BY <1>9 DEF Lock, Attempting, Working
  <2>3. open' = open \/ \E what : Execute(t, what)
    BY <1>9 DEF Lock
  <2>4. UNCHANGED <<mine, conn, attempts, pending, answered, acked, raced>>
    BY <1>9 DEF Lock, calls, lists, history
  <2>. QED
    BY <2>1, <2>2, <2>3, <2>4, Executed
<1>10. ASSUME NEW t \in Thread, Truncate(t) PROVE Covered'
  <2>1. PICK p \in {"upload"} : Go(t, p)
    BY <1>10 DEF Truncate, Go, TypeOK
  <2>2. phase[t] \in Attempting
    BY <1>10 DEF Truncate, Attempting, Working
  <2>3. open' = open \/ \E what : Execute(t, what)
    BY <1>10 DEF Truncate
  <2>4. UNCHANGED <<mine, conn, attempts, pending, answered, acked, raced>>
    BY <1>10 DEF Truncate, calls, lists, history
  <2>. QED
    BY <2>1, <2>2, <2>3, <2>4, Executed
<1>11. ASSUME NEW t \in Thread, Upload(t) PROVE Covered'
  <2>1. PICK p \in {"pre"} : Go(t, p)
    BY <1>11 DEF Upload, Go, TypeOK
  <2>2. phase[t] \in Attempting
    BY <1>11 DEF Upload, Attempting, Working
  <2>3. open' = open \/ \E what : Execute(t, what)
    BY <1>11 DEF Upload
  <2>4. UNCHANGED <<mine, conn, attempts, pending, answered, acked, raced>>
    BY <1>11 DEF Upload, calls, lists, history
  <2>. QED
    BY <2>1, <2>2, <2>3, <2>4, Executed
<1>12. ASSUME NEW t \in Thread, PreStatement(t) PROVE Covered'
  <2>1. PICK p \in {"merge", "remove", "rows"} : Go(t, p)
    BY <1>12 DEF PreStatement, Go, TypeOK
  <2>2. phase[t] \in Attempting
    BY <1>12 DEF PreStatement, Attempting, Working
  <2>3. open' = open \/ \E what : Execute(t, what)
    BY <1>12 DEF PreStatement
  <2>4. UNCHANGED <<mine, conn, attempts, pending, answered, acked, raced>>
    BY <1>12 DEF PreStatement, calls, lists, history
  <2>. QED
    BY <2>1, <2>2, <2>3, <2>4, Executed
<1>13. ASSUME NEW t \in Thread, ExecuteRow(t) PROVE Covered'
  <2>1. PICK p \in {"rows"} : Go(t, p)
    BY <1>13 DEF ExecuteRow, Go, TypeOK
  <2>2. phase[t] \in Attempting
    BY <1>13 DEF ExecuteRow, Attempting, Working
  <2>3. open' = open \/ \E what : Execute(t, what)
    BY <1>13 DEF ExecuteRow
  <2>4. UNCHANGED <<mine, conn, attempts, pending, answered, acked, raced>>
    BY <1>13 DEF ExecuteRow, calls, lists, history
  <2>. QED
    BY <2>1, <2>2, <2>3, <2>4, Executed
<1>14. ASSUME NEW t \in Thread, EndRows(t) PROVE Covered'
  <2>1. PICK p \in {"post"} : Go(t, p)
    BY <1>14 DEF EndRows, Go, TypeOK
  <2>2. phase[t] \in Attempting
    BY <1>14 DEF EndRows, Attempting, Working
  <2>3. open' = open \/ \E what : Execute(t, what)
    BY <1>14 DEF EndRows
  <2>4. UNCHANGED <<mine, conn, attempts, pending, answered, acked, raced>>
    BY <1>14 DEF EndRows, calls, lists, history
  <2>. QED
    BY <2>1, <2>2, <2>3, <2>4, Executed
<1>15. ASSUME NEW t \in Thread, Merge(t) PROVE Covered'
  <2>1. PICK p \in {"post"} : Go(t, p)
    BY <1>15 DEF Merge, Go, TypeOK
  <2>2. phase[t] \in Attempting
    BY <1>15 DEF Merge, Attempting, Working
  <2>3. open' = open \/ \E what : Execute(t, what)
    BY <1>15 DEF Merge
  <2>4. UNCHANGED <<mine, conn, attempts, pending, answered, acked, raced>>
    BY <1>15 DEF Merge, calls, lists, history
  <2>. QED
    BY <2>1, <2>2, <2>3, <2>4, Executed
<1>16. ASSUME NEW t \in Thread, PostStatement(t) PROVE Covered'
  <2>1. PICK p \in {"remove", "register"} : Go(t, p)
    BY <1>16 DEF PostStatement, Go, TypeOK
  <2>2. phase[t] \in Attempting
    BY <1>16 DEF PostStatement, Attempting, Working
  <2>3. open' = open \/ \E what : Execute(t, what)
    BY <1>16 DEF PostStatement
  <2>4. UNCHANGED <<mine, conn, attempts, pending, answered, acked, raced>>
    BY <1>16 DEF PostStatement, calls, lists, history
  <2>. QED
    BY <2>1, <2>2, <2>3, <2>4, Executed
<1>17. ASSUME NEW t \in Thread, RemoveFiles(t) PROVE Covered'
  <2>1. PICK p \in {"register", "post"} : Go(t, p)
    BY <1>17 DEF RemoveFiles, Go, TypeOK
  <2>2. phase[t] \in Attempting
    BY <1>17 DEF RemoveFiles, Attempting, Working
  <2>3. open' = open \/ \E what : Execute(t, what)
    BY <1>17 DEF RemoveFiles
  <2>4. UNCHANGED <<mine, conn, attempts, pending, answered, acked, raced>>
    BY <1>17 DEF RemoveFiles, LeaveStaging, calls, lists, history
  <2>. QED
    BY <2>1, <2>2, <2>3, <2>4, Executed
<1>18. ASSUME NEW t \in Thread, Register(t) PROVE Covered'
  <2>1. phase[t] \in Attempting
    BY <1>18 DEF Register, Attempting, Working
  <2>2. /\ Go(t, "done") /\ answered' = answered \cup {mine[t]}
        /\ conn[t] \in pending'
        /\ raced' \/ pending \subseteq pending'
        /\ raced => raced'
        /\ UNCHANGED <<open, mine, conn, attempts, acked>>
    BY <1>18 DEF Register, calls
  <2>. QED
    BY <2>1, <2>2, Answers
<1>19. ASSUME NEW t \in Thread, Fail(t) PROVE Covered'
  <2>1. PICK p \in {"failed"} : Go(t, p)
    BY <1>19 DEF Fail, Go, TypeOK
  <2>2. phase[t] \in Attempting
    BY <1>19 DEF Fail, Attempting, Working
  <2>3. open' = open \/ \E what : Execute(t, what)
    BY <1>19 DEF Fail
  <2>4. UNCHANGED <<mine, conn, attempts, pending, answered, acked, raced>>
    BY <1>19 DEF Fail, LeaveStaging, calls, lists, history
  <2>. QED
    BY <2>1, <2>2, <2>3, <2>4, Executed
<1>20. ASSUME NEW t \in Thread, Throw(t) PROVE Covered'
  <2>1. phase'[t] \notin Attempting
    BY <1>20 DEF Throw, Forget, Go, TypeOK, Attempting, Working
  <2>2. \A u \in Thread : u # t =>
          phase'[u] = phase[u] /\ mine'[u] = mine[u] /\ conn'[u] = conn[u]
    BY <1>20 DEF Throw, Forget, Go, TypeOK, calls
  <2>3. mine'[t] \in {0, mine[t]}
    BY <1>20 DEF Throw, Forget, TypeOK, calls
  <2>4. acked' \subseteq answered /\ (acked' = acked \/ pending = {})
    BY <1>20 DEF Throw, history, TypeOK
  <2>5. UNCHANGED <<open, attempts, pending, answered, raced>>
    BY <1>20 DEF Throw, Forget, calls, lists, history
  <2>. QED
    BY <2>1, <2>2, <2>3, <2>4, <2>5, Rested
<1>21. ASSUME NEW t \in Thread, HandleResult(t) PROVE Covered'
  <2>1. phase'[t] \notin Attempting
    BY <1>21 DEF HandleResult, Forget, Go, TypeOK, Attempting, Working
  <2>2. \A u \in Thread : u # t =>
          phase'[u] = phase[u] /\ mine'[u] = mine[u] /\ conn'[u] = conn[u]
    BY <1>21 DEF HandleResult, Forget, Go, TypeOK, calls
  <2>3. mine'[t] \in {0, mine[t]}
    BY <1>21 DEF HandleResult, Forget, TypeOK, calls
  <2>4. acked' \subseteq answered /\ (acked' = acked \/ pending = {})
    BY <1>21 DEF HandleResult, history, TypeOK
  <2>5. UNCHANGED <<open, attempts, pending, answered, raced>>
    BY <1>21 DEF HandleResult, Forget, calls, lists, history
  <2>. QED
    BY <2>1, <2>2, <2>3, <2>4, <2>5, Rested
<1>22. ASSUME NEW t \in Thread, Close(t) PROVE Covered'
  <2>1. phase'[t] \notin Attempting
    BY <1>22 DEF Close, Go, TypeOK, Attempting, Working
  <2>2. \A u \in Thread : u # t =>
          phase'[u] = phase[u] /\ mine'[u] = mine[u] /\ conn'[u] = conn[u]
    BY <1>22 DEF Close, Go, TypeOK, calls
  <2>3. mine'[t] \in {0, mine[t]}
    BY <1>22 DEF Close, TypeOK, calls
  <2>4. acked' \subseteq answered /\ (acked' = acked \/ pending = {})
    BY <1>22 DEF Close, history, TypeOK
  <2>5. UNCHANGED <<open, attempts, pending, answered, raced>>
    BY <1>22 DEF Close, calls, lists, history
  <2>. QED
    BY <2>1, <2>2, <2>3, <2>4, <2>5, Rested
<1>23. ASSUME NEW t \in Thread, StartDecision(t) PROVE Covered'
  <2>1. phase'[t] \notin Attempting
    BY <1>23 DEF StartDecision, Go, TypeOK, Attempting, Working
  <2>2. \A u \in Thread : u # t =>
          phase'[u] = phase[u] /\ mine'[u] = mine[u] /\ conn'[u] = conn[u]
    BY <1>23 DEF StartDecision, Go, TypeOK, calls
  <2>3. mine'[t] \in {0, mine[t]}
    BY <1>23 DEF StartDecision, TypeOK, calls
  <2>4. acked' \subseteq answered /\ (acked' = acked \/ pending = {})
    BY <1>23 DEF StartDecision, history, TypeOK
  <2>5. UNCHANGED <<open, attempts, pending, answered, raced>>
    BY <1>23 DEF StartDecision, calls, lists, history
  <2>. QED
    BY <2>1, <2>2, <2>3, <2>4, <2>5, Rested
<1>24. ASSUME NEW t \in Thread, Decide(t) PROVE Covered'
  <2>. PICK d \in pending : open' = [open EXCEPT ![d] = {}] /\ pending' = pending \ {d}
    BY <1>24 DEF Decide
  <2>1. /\ open'[d] = {}
        /\ \A c \in Conn : c # d => open'[c] = open[c]
        /\ UNCHANGED <<phase, mine, conn, attempts, answered, acked, raced>>
    BY <1>24 DEF Decide, TypeOK, calls, history
  <2>2. \A c \in Conn : open'[c] \subseteq open[c]
    BY <2>1
  <2>3. Numbered'
    BY <2>1, <2>2 DEF Covered, Numbered
  <2>4. Owned'
    BY <2>1, <2>2 DEF Covered, Owned
  <2>5. PendingCovers'
    BY <2>1, <2>2 DEF Covered, PendingCovers
  <2>6. AcknowledgedIsDecided'
    BY <2>1, <2>2 DEF Covered, AcknowledgedIsDecided
  <2>. QED
    BY <2>3, <2>4, <2>5, <2>6 DEF Covered
<1>25. ASSUME NEW t \in Thread, DecisionFails(t) PROVE Covered'
  <2>1. phase'[t] \notin Attempting
    BY <1>25 DEF DecisionFails, Forget, Deciding, Go, TypeOK, Attempting, Working
  <2>2. \A u \in Thread : u # t =>
          phase'[u] = phase[u] /\ mine'[u] = mine[u] /\ conn'[u] = conn[u]
    BY <1>25 DEF DecisionFails, Forget, Deciding, Go, TypeOK, calls
  <2>3. mine'[t] \in {0, mine[t]}
    BY <1>25 DEF DecisionFails, Forget, Deciding, TypeOK, calls
  <2>4. acked' \subseteq answered /\ (acked' = acked \/ pending = {})
    BY <1>25 DEF DecisionFails, history, TypeOK
  <2>5. UNCHANGED <<open, attempts, pending, answered, raced>>
    BY <1>25 DEF DecisionFails, Forget, Deciding, calls, lists, history
  <2>. QED
    BY <2>1, <2>2, <2>3, <2>4, <2>5, Rested
<1>26. ASSUME NEW t \in Thread, EndDecision(t) PROVE Covered'
  <2>1. phase'[t] \notin Attempting
    BY <1>26 DEF EndDecision, Forget, Deciding, Go, TypeOK, Attempting, Working
  <2>2. \A u \in Thread : u # t =>
          phase'[u] = phase[u] /\ mine'[u] = mine[u] /\ conn'[u] = conn[u]
    BY <1>26 DEF EndDecision, Forget, Deciding, Go, TypeOK, calls
  <2>3. mine'[t] \in {0, mine[t]}
    BY <1>26 DEF EndDecision, Forget, Deciding, TypeOK, calls
  <2>4. acked' \subseteq answered /\ (acked' = acked \/ pending = {})
    BY <1>26 DEF EndDecision, Deciding, TypeOK
  <2>5. UNCHANGED <<open, attempts, pending, answered, raced>>
    BY <1>26 DEF EndDecision, Forget, Deciding, calls, lists, history
  <2>. QED
    BY <2>1, <2>2, <2>3, <2>4, <2>5, Rested
<1>. QED
  BY <1>1, <1>2, <1>3, <1>4, <1>5, <1>6, <1>7, <1>8, <1>9, <1>10, <1>11, <1>12, <1>13, <1>14, <1>15, <1>16, <1>17, <1>18, <1>19, <1>20, <1>21, <1>22, <1>23, <1>24, <1>25, <1>26
  DEF Next, Step, StoreImpl, Manipulate, Decision

LEMMA CoveredHolds == Spec => [](Typed /\ Covered)
<1>1. Init => Typed /\ Covered
  BY InitTypes, InitCovered
<1>2. (Typed /\ Covered) /\ [Next]_vars => (Typed /\ Covered)'
  BY TypeStep, CoveredStep
<1>. QED
  BY <1>1, <1>2, PTL DEF Spec

\* For any number of attempts, what an answered attempt has left undecided is on
\* a pending connection, unless an unlocked insert overlapped another change.
THEOREM PendingCoversHolds == Spec => []PendingCovers
<1>1. Typed /\ Covered => PendingCovers
  BY DEF Covered
<1>. QED
  BY <1>1, CoveredHolds, PTL

\* What the client has acknowledged does not stay undecided, under the same
\* condition.
THEOREM AcknowledgedIsDecidedHolds == Spec => []AcknowledgedIsDecided
<1>1. Typed /\ Covered => AcknowledgedIsDecided
  BY DEF Covered
<1>. QED
  BY <1>1, CoveredHolds, PTL
-----------------------------------------------------------------------------
(* The staging tables. *)

OwnTable == config.staging = "dynamic" \/ MySql

\* The phases in which a thread holds the table lock for certain, and those in
\* which it may hold it.
Locked == {"truncate", "upload", "merge"}
MayHold == Locked \cup {"pre", "post", "remove"}

\* A thread has a table of its own from its creation to the end of the lock, and
\* then nobody uploads to the static one.
Places ==
  \A t \in Thread :
    /\ temp[t] # NoTable => OwnTable /\ (phase[t] = "lock" \/ Holds(t))
    /\ (phase[t] = "lock" \/ Holds(t)) /\ temp[t] = NoTable => ~OwnTable
    /\ phase[t] \in Locked => Holds(t)
    /\ Holds(t) => phase[t] \in MayHold

\* What is in the table a thread is about to use.
Rows ==
  \A t \in Thread :
    /\ phase[t] \in {"lock", "truncate"} /\ temp[t] # NoTable => content[temp[t]] = {}
    /\ phase[t] = "upload" => content[StagingTable(t)] = {}
    /\ phase[t] = "merge" \/ (phase[t] = "pre" /\ Holds(t)) =>
         content[StagingTable(t)] = {mine[t]}

Staged == Places /\ Rows /\ TempTablesAccounted

LEMMA NoTableIsNone == NoTable \notin Table
  BY DatabaseAssumption DEF Table, Number

LEMMA InitStaged == Init => Staged
<1>. SUFFICES ASSUME Init PROVE Staged
  OBVIOUS
<1>1. \A t \in Thread : ~Holds(t)
  BY DatabaseAssumption DEF Init, Holds
<1>. QED
  BY <1>1, NoTableIsNone DEF Init, Staged, Places, Rows, TempTablesAccounted, Locked

Others(t) ==
  \A u \in Thread : u # t =>
    phase'[u] = phase[u] /\ mine'[u] = mine[u] /\ temp'[u] = temp[u]

\* A step away from the staging tables.
LEMMA Aside ==
  ASSUME Typed, Staged, NEW t \in Thread, Others(t),
         ~Holds(t), phase[t] # "lock", phase'[t] \notin Locked \cup {"lock"},
         UNCHANGED <<config, temp, tableMutex, content, tables, drops, leaked>>
  PROVE  Staged'
<1>. USE DEF Holds
<1>1. temp[t] = NoTable
  BY DEF Staged, Places
<1>2. Places'
  BY <1>1 DEF Staged, Places, Others, OwnTable, MySql
<1>3. Rows'
  BY <1>1 DEF Staged, Rows, Others, StagingTable, Locked
<1>. QED
  BY <1>2, <1>3 DEF Staged, TempTablesAccounted

\* A thread that leaves gives up its lock and its table.
LEMMA Leaves ==
  ASSUME Typed, Staged, NEW t \in Thread, Others(t), LeaveStaging(t),
         phase'[t] \notin Locked \cup {"lock"},
         UNCHANGED <<config, content, tables, leaked>>
  PROVE  Staged'
<1>1. ~Holds(t)' /\ \A u \in Thread : u # t => (Holds(u)' <=> Holds(u))
  BY DatabaseAssumption DEF LeaveStaging, Holds
<1>2. temp'[t] = NoTable
  BY DEF LeaveStaging, Typed, TypeOK
<1>3. Places'
  BY <1>1, <1>2 DEF Staged, Places, Others, OwnTable, MySql
<1>4. Rows'
  <2>. SUFFICES ASSUME NEW u \in Thread, u # t
       PROVE  /\ phase'[u] \in {"lock", "truncate"} /\ temp'[u] # NoTable => content'[temp'[u]] = {}
              /\ phase'[u] = "upload" => content'[StagingTable(u)'] = {}
              /\ phase'[u] = "merge" \/ (phase'[u] = "pre" /\ Holds(u)') =>
                   content'[StagingTable(u)'] = {mine'[u]}
    BY <1>1, <1>2 DEF Rows, Locked
  <2>. QED
    BY <1>1 DEF Staged, Rows, Others, StagingTable
<1>5. TempTablesAccounted'
  <2>1. CASE temp[t] = NoTable
    <3>1. drops' = drops /\ \A u \in Thread : temp'[u] = temp[u]
      BY <1>2, <2>1 DEF LeaveStaging, Others
    <3>. QED
      BY <3>1 DEF Staged, TempTablesAccounted
  <2>2. CASE temp[t] # NoTable
    <3>1. drops' = drops \cup {temp[t]} /\ \A u \in Thread : u # t => temp'[u] = temp[u]
      BY <2>2 DEF LeaveStaging, Others
    <3>2. temp[t] \in Table
      BY <2>2 DEF Typed, TypeOK
    <3>3. NoTable \notin drops \cup leaked
      BY NoTableIsNone DEF Typed, TypeOK
    <3>4. \A s \in Table :
            s \in tables <=> s \in drops' \cup leaked \/ \E u \in Thread : temp'[u] = s
      BY <1>2, <2>2, <3>1, <3>2, NoTableIsNone DEF Staged, TempTablesAccounted
    <3>5. \A u \in Thread : temp'[u] \notin drops' \cup leaked
      <4>1. ASSUME NEW u \in Thread, u # t PROVE temp[u] # temp[t]
        BY <2>2, <4>1 DEF Staged, TempTablesAccounted
      <4>. QED
        BY <1>2, <2>2, <3>1, <3>3, <4>1 DEF Staged, TempTablesAccounted
    <3>6. \A u, v \in Thread : temp'[u] = temp'[v] /\ temp'[u] # NoTable => u = v
      BY <1>2, <3>1 DEF Staged, TempTablesAccounted
    <3>7. drops' \cap leaked = {}
      BY <3>1 DEF Staged, TempTablesAccounted
    <3>. QED
      BY <3>4, <3>5, <3>6, <3>7 DEF TempTablesAccounted
  <2>. QED
    BY <2>1, <2>2
<1>. QED
  BY <1>3, <1>4, <1>5 DEF Staged

\* A step of the thread that holds the lock, which changes at most what is in its
\* own table.
LEMMA Holding ==
  ASSUME Typed, Staged, NEW t \in Thread, Others(t), Holds(t),
         phase'[t] \in MayHold, mine'[t] = mine[t],
         \A s \in Table : s # StagingTable(t) => content'[s] = content[s],
         phase'[t] = "truncate" => content' = content /\ phase[t] \in {"lock", "truncate"},
         phase'[t] = "upload" => content'[StagingTable(t)] = {},
         phase'[t] \in {"pre", "merge"} => content'[StagingTable(t)] = {mine[t]},
         UNCHANGED <<config, temp, tableMutex, tables, drops, leaked>>
  PROVE  Staged'
<1>1. \A u \in Thread : Holds(u)' <=> u = t
  BY DEF Holds
<1>2. Places'
  BY <1>1 DEF Staged, Places, Others, OwnTable, MySql, MayHold, Locked, Holds
<1>3. StagingTable(t)' = StagingTable(t)
  BY DEF StagingTable
<1>4. Rows'
  <2>1. ASSUME NEW u \in Thread, u # t, temp[u] # NoTable
        PROVE  content'[temp[u]] = content[temp[u]]
    <3>1. temp[u] \in Table
      BY <2>1 DEF Typed, TypeOK
    <3>2. OwnTable
      BY <2>1 DEF Staged, Places
    <3>3. StagingTable(t) = temp[t]
      BY <3>2 DEF Staged, Places, StagingTable
    <3>4. temp[u] # temp[t]
      BY <2>1 DEF Staged, TempTablesAccounted
    <3>. QED
      BY <3>1, <3>3, <3>4
  <2>2. \A u \in Thread : u # t => phase[u] \notin Locked
    BY <1>1 DEF Staged, Places, Holds
  <2>3. ASSUME NEW u \in Thread, u # t
        PROVE  /\ phase'[u] \in {"lock", "truncate"} /\ temp'[u] # NoTable => content'[temp'[u]] = {}
               /\ phase'[u] \notin {"upload", "merge"}
               /\ ~Holds(u)'
    BY <1>1, <2>1, <2>2, <2>3 DEF Others, Locked, Staged, Rows
  <2>4. /\ phase'[t] \in {"lock", "truncate"} /\ temp'[t] # NoTable => content'[temp'[t]] = {}
        /\ phase'[t] = "upload" => content'[StagingTable(t)'] = {}
        /\ phase'[t] = "merge" \/ phase'[t] = "pre" =>
             content'[StagingTable(t)'] = {mine'[t]}
    BY <1>3 DEF Staged, Rows, MayHold, Locked
  <2>. QED
    BY <2>3, <2>4 DEF Rows
<1>. QED
  BY <1>2, <1>4 DEF Staged, TempTablesAccounted

LEMMA StagedStep ==
  ASSUME Typed, Staged, [Next]_vars
  PROVE  Staged'
<1>. USE DEF Typed
<1>1. CASE UNCHANGED vars
  BY <1>1 DEF vars, calls, tableData, locks, lists, history, Staged, Places, Rows,
    TempTablesAccounted, OwnTable, MySql, StagingTable, Holds
<1>2. ASSUME NEW t \in Thread, Begin(t) PROVE Staged'
  <2>1. ~Holds(t) /\ phase[t] # "lock"
    BY <1>2 DEF Begin, Staged, Places, MayHold, Locked
  <2>2. Others(t) /\ phase'[t] \notin Locked \cup {"lock"}
    BY <1>2 DEF Begin, StartAttempt, Enabled, Bulk, Go, Others, TypeOK, Locked, calls
  <2>3. UNCHANGED <<config, temp, tableMutex, content, tables, drops, leaked>>
    BY <1>2 DEF Begin, StartAttempt, Enabled, Bulk, calls, tableData, locks, lists, history
  <2>. QED
    BY <2>1, <2>2, <2>3, Aside
<1>3. ASSUME NEW t \in Thread, Retry(t) PROVE Staged'
  <2>1. ~Holds(t) /\ phase[t] # "lock"
    BY <1>3 DEF Retry, Staged, Places, MayHold, Locked
  <2>2. Others(t) /\ phase'[t] \notin Locked \cup {"lock"}
    BY <1>3 DEF Retry, StartAttempt, Enabled, Bulk, Go, Others, TypeOK, Locked, calls
  <2>3. UNCHANGED <<config, temp, tableMutex, content, tables, drops, leaked>>
    BY <1>3 DEF Retry, StartAttempt, Enabled, Bulk, calls, tableData, locks, lists, history
  <2>. QED
    BY <2>1, <2>2, <2>3, Aside
<1>4. ASSUME NEW t \in Thread, LoadReads(t) PROVE Staged'
  <2>1. ~Holds(t) /\ phase[t] # "lock"
    BY <1>4 DEF LoadReads, Staged, Places, MayHold, Locked
  <2>2. Others(t) /\ phase'[t] \notin Locked \cup {"lock"}
    BY <1>4 DEF LoadReads, Execute, MySql, Go, Others, TypeOK, Locked, calls
  <2>3. UNCHANGED <<config, temp, tableMutex, content, tables, drops, leaked>>
    BY <1>4 DEF LoadReads, Execute, MySql, calls, tableData, locks, lists, history
  <2>. QED
    BY <2>1, <2>2, <2>3, Aside
<1>5. ASSUME NEW t \in Thread, LoadInserts(t) PROVE Staged'
  <2>1. ~Holds(t) /\ phase[t] # "lock"
    BY <1>5 DEF LoadInserts, Staged, Places, MayHold, Locked
  <2>2. Others(t) /\ phase'[t] \notin Locked \cup {"lock"}
    BY <1>5 DEF LoadInserts, Go, Others, TypeOK, Locked, calls
  <2>3. UNCHANGED <<config, temp, tableMutex, content, tables, drops, leaked>>
    BY <1>5 DEF LoadInserts, calls, tableData, locks, lists, history
  <2>. QED
    BY <2>1, <2>2, <2>3, Aside
<1>6. ASSUME NEW t \in Thread, DeleteImpl(t) PROVE Staged'
  <2>1. ~Holds(t) /\ phase[t] # "lock"
    BY <1>6 DEF DeleteImpl, Staged, Places, MayHold, Locked
  <2>2. Others(t) /\ phase'[t] \notin Locked \cup {"lock"}
    BY <1>6 DEF DeleteImpl, Execute, Go, Others, TypeOK, Locked, calls
  <2>3. UNCHANGED <<config, temp, tableMutex, content, tables, drops, leaked>>
    BY <1>6 DEF DeleteImpl, Execute, calls, tableData, locks, lists, history
  <2>. QED
    BY <2>1, <2>2, <2>3, Aside
<1>7. ASSUME NEW t \in Thread, WriteDataFile(t) PROVE Staged'
  <2>1. ~Holds(t) /\ phase[t] # "lock"
    BY <1>7 DEF WriteDataFile, Staged, Places, MayHold, Locked
  <2>2. Others(t) /\ phase'[t] \notin Locked \cup {"lock"}
    BY <1>7 DEF WriteDataFile, Go, Others, TypeOK, Locked, calls
  <2>3. UNCHANGED <<config, temp, tableMutex, content, tables, drops, leaked>>
    BY <1>7 DEF WriteDataFile, calls, tableData, locks, lists, history
  <2>. QED
    BY <2>1, <2>2, <2>3, Aside
<1>8. ASSUME NEW t \in Thread, CreateTempTable(t) PROVE Staged'
  <2>1. /\ phase[t] = "create" /\ phase'[t] = "lock"
        /\ \A u \in Thread : (u # t => phase'[u] = phase[u]) /\ (Holds(u)' <=> Holds(u))
        /\ UNCHANGED <<config, mine, drops, leaked>>
    BY <1>8 DEF CreateTempTable, Go, TypeOK, Holds, locks, lists, history
  <2>2. ~Holds(t) /\ temp[t] = NoTable
    BY <2>1 DEF Staged, Places, MayHold, Locked
  <2>3. CASE ~OwnTable
    <3>1. UNCHANGED <<temp, tables, content>>
      BY <1>8, <2>3 DEF CreateTempTable, OwnTable
    <3>2. Places'
      BY <2>1, <2>2, <2>3, <3>1 DEF Staged, Places, OwnTable, MySql, Locked
    <3>3. Rows'
      BY <2>1, <2>2, <3>1 DEF Staged, Rows, StagingTable
    <3>. QED
      BY <2>1, <3>1, <3>2, <3>3 DEF Staged, TempTablesAccounted
  <2>4. CASE OwnTable
    <3>. DEFINE new == NewTable(t)
    <3>1. new \in Table
      <4>1. conn[t] \in Conn \cup {Schema} /\ mine[t] \in Number
        BY DEF TypeOK
      <4>. QED
        BY <4>1, NumberFacts DEF NewTable, Table
    <3>2. /\ new \notin tables /\ tables' = tables \cup {new}
          /\ content' = [content EXCEPT ![new] = {}]
          /\ temp' = [temp EXCEPT ![t] = new]
      BY <1>8, <2>4 DEF CreateTempTable, OwnTable
    <3>. HIDE DEF new
    <3>3. /\ temp'[t] = new /\ new # NoTable /\ content'[new] = {}
          /\ \A u \in Thread : u # t => temp'[u] = temp[u]
          /\ \A s \in Table : s # new => content'[s] = content[s]
      BY <3>1, <3>2, NoTableIsNone DEF TypeOK
    <3>4. \A u \in Thread : temp[u] # new
      BY <3>1, <3>2 DEF Staged, TempTablesAccounted
    <3>5. Places'
      BY <2>1, <2>2, <2>4, <3>3 DEF Staged, Places, OwnTable, MySql, Locked
    <3>6. Rows'
      <4>1. ASSUME NEW u \in Thread, u # t, temp[u] # NoTable
            PROVE  content'[temp[u]] = content[temp[u]]
        BY <3>3, <3>4, <4>1 DEF TypeOK
      <4>2. ASSUME NEW u \in Thread, u # t, phase[u] \in {"upload", "merge"} \/ Holds(u)
            PROVE  temp[u] # NoTable /\ StagingTable(u)' = temp[u] /\ StagingTable(u) = temp[u]
        BY <2>4, <3>3, <4>2 DEF Staged, Places, Locked, StagingTable
      <4>. QED
        BY <2>1, <2>2, <3>3, <4>1, <4>2 DEF Staged, Rows
    <3>7. TempTablesAccounted'
      BY <2>1, <2>2, <3>1, <3>2, <3>3, <3>4, NoTableIsNone DEF Staged, TempTablesAccounted
    <3>. QED
      BY <3>5, <3>6, <3>7 DEF Staged
  <2>. QED
    BY <2>3, <2>4
<1>9. ASSUME NEW t \in Thread, Lock(t) PROVE Staged'
  <2>1. /\ phase'[t] = "truncate" /\ phase[t] = "lock" /\ Holds(t)'
        /\ \A u \in Thread : ~Holds(u) /\ (u # t => ~Holds(u)' /\ phase'[u] = phase[u])
        /\ UNCHANGED <<config, temp, mine, content, tables, drops, leaked>>
    BY <1>9, DatabaseAssumption DEF Lock, Go, TypeOK, Holds, calls, tableData, locks, lists, history
  <2>2. Places'
    BY <2>1 DEF Staged, Places, OwnTable, MySql, MayHold, Locked
  <2>3. Rows'
    BY <2>1 DEF Staged, Rows, StagingTable
  <2>. QED
    BY <2>1, <2>2, <2>3 DEF Staged, TempTablesAccounted
<1>10. ASSUME NEW t \in Thread, Truncate(t) PROVE Staged'
  <2>1. Holds(t)
    BY <1>10 DEF Truncate, Staged, Places, Locked
  <2>2. Static \in Table
    BY NumberFacts DEF Static, Table
  <2>3. Others(t) /\ phase'[t] = "upload" /\ mine'[t] = mine[t] /\ "upload" \in MayHold
    BY <1>10 DEF Truncate, Go, Others, TypeOK, MayHold, Locked, calls
  <2>4. /\ content'[StagingTable(t)] = {}
        /\ \A s \in Table : s # StagingTable(t) => content'[s] = content[s]
    BY <1>10, <2>2 DEF Truncate, TypeOK, Staged, Rows, StagingTable
  <2>5. UNCHANGED <<config, temp, tableMutex, tables, drops, leaked>>
    BY <1>10 DEF Truncate, calls, tableData, locks, lists, history
  <2>. QED
    BY <2>1, <2>3, <2>4, <2>5, Holding
<1>11. ASSUME NEW t \in Thread, Upload(t) PROVE Staged'
  <2>1. Holds(t)
    BY <1>11 DEF Upload, Staged, Places, Locked
  <2>2. StagingTable(t) \in Table
    BY NumberFacts DEF TypeOK, StagingTable, Static, Table
  <2>3. Others(t) /\ phase'[t] = "pre" /\ mine'[t] = mine[t] /\ "pre" \in MayHold
    BY <1>11 DEF Upload, Go, Others, TypeOK, MayHold, calls
  <2>4. /\ content'[StagingTable(t)] = {mine[t]}
        /\ \A s \in Table : s # StagingTable(t) => content'[s] = content[s]
    BY <1>11, <2>2 DEF Upload, TypeOK, Staged, Rows
  <2>5. UNCHANGED <<config, temp, tableMutex, tables, drops, leaked>>
    BY <1>11 DEF Upload, calls, tableData, locks, lists, history
  <2>. QED
    BY <2>1, <2>3, <2>4, <2>5, Holding
<1>12. ASSUME NEW t \in Thread, PreStatement(t) PROVE Staged'
  <2>1. CASE ~Holds(t)
    <3>1. ~Holds(t) /\ phase[t] # "lock"
      BY <1>12, <2>1 DEF PreStatement, Staged, Places, MayHold, Locked
    <3>2. Others(t) /\ phase'[t] \notin Locked \cup {"lock"}
      BY <1>12, <2>1 DEF PreStatement, Execute, Holds, Bulk, Go, Others, TypeOK, Locked, calls
    <3>3. UNCHANGED <<config, temp, tableMutex, content, tables, drops, leaked>>
      BY <1>12, <2>1 DEF PreStatement, Execute, Holds, Bulk, calls, tableData, locks, lists, history
    <3>. QED
      BY <3>1, <3>2, <3>3, Aside
  <2>2. CASE Holds(t)
    <3>1. Holds(t)
      BY <1>12, <2>2 DEF PreStatement, Staged, Places, Locked
    <3>2. Others(t) /\ phase'[t] \in MayHold /\ mine'[t] = mine[t]
      BY <1>12, <3>1 DEF PreStatement, Holds, Go, Others, TypeOK, MayHold, Locked, calls
    <3>3. /\ \A s \in Table : s # StagingTable(t) => content'[s] = content[s]
          /\ phase'[t] \notin {"truncate", "upload"}
      BY <1>12, <3>1 DEF PreStatement, Holds, Go, TypeOK, tableData
    <3>4. phase'[t] \in {"pre", "merge"} => content'[StagingTable(t)] = {mine[t]}
      BY <1>12, <3>1 DEF PreStatement, Holds, Go, TypeOK, tableData, Staged, Rows
    <3>5. UNCHANGED <<config, temp, tableMutex, tables, drops, leaked>>
      BY <1>12 DEF PreStatement, calls, tableData, locks, lists, history
    <3>. QED
      BY <3>1, <3>2, <3>3, <3>4, <3>5, Holding
  <2>. QED
    BY <2>1, <2>2
<1>13. ASSUME NEW t \in Thread, ExecuteRow(t) PROVE Staged'
  <2>1. ~Holds(t) /\ phase[t] # "lock"
    BY <1>13 DEF ExecuteRow, Staged, Places, MayHold, Locked
  <2>2. Others(t) /\ phase'[t] \notin Locked \cup {"lock"}
    BY <1>13 DEF ExecuteRow, Execute, Go, Others, TypeOK, Locked, calls
  <2>3. UNCHANGED <<config, temp, tableMutex, content, tables, drops, leaked>>
    BY <1>13 DEF ExecuteRow, Execute, calls, tableData, locks, lists, history
  <2>. QED
    BY <2>1, <2>2, <2>3, Aside
<1>14. ASSUME NEW t \in Thread, EndRows(t) PROVE Staged'
  <2>1. ~Holds(t) /\ phase[t] # "lock"
    BY <1>14 DEF EndRows, Staged, Places, MayHold, Locked
  <2>2. Others(t) /\ phase'[t] \notin Locked \cup {"lock"}
    BY <1>14 DEF EndRows, Go, Others, TypeOK, Locked, calls
  <2>3. UNCHANGED <<config, temp, tableMutex, content, tables, drops, leaked>>
    BY <1>14 DEF EndRows, calls, tableData, locks, lists, history
  <2>. QED
    BY <2>1, <2>2, <2>3, Aside
<1>15. ASSUME NEW t \in Thread, Merge(t) PROVE Staged'
  <2>1. Holds(t)
    BY <1>15 DEF Merge, Staged, Places, Locked
  <2>2. Others(t) /\ phase'[t] \in MayHold /\ mine'[t] = mine[t]
    BY <1>15, <2>1 DEF Merge, Holds, Go, Others, TypeOK, MayHold, Locked, calls
  <2>3. /\ \A s \in Table : s # StagingTable(t) => content'[s] = content[s]
        /\ phase'[t] \notin {"truncate", "upload"}
    BY <1>15, <2>1 DEF Merge, Holds, Go, TypeOK, tableData
  <2>4. phase'[t] \in {"pre", "merge"} => content'[StagingTable(t)] = {mine[t]}
    BY <1>15, <2>1 DEF Merge, Holds, Go, TypeOK, tableData, Staged, Rows
  <2>5. UNCHANGED <<config, temp, tableMutex, tables, drops, leaked>>
    BY <1>15 DEF Merge, calls, tableData, locks, lists, history
  <2>. QED
    BY <2>1, <2>2, <2>3, <2>4, <2>5, Holding
<1>16. ASSUME NEW t \in Thread, PostStatement(t) PROVE Staged'
  <2>1. CASE ~Holds(t)
    <3>1. ~Holds(t) /\ phase[t] # "lock"
      BY <1>16, <2>1 DEF PostStatement, Staged, Places, MayHold, Locked
    <3>2. Others(t) /\ phase'[t] \notin Locked \cup {"lock"}
      BY <1>16, <2>1 DEF PostStatement, Execute, Holds, Go, Others, TypeOK, Locked, calls
    <3>3. UNCHANGED <<config, temp, tableMutex, content, tables, drops, leaked>>
      BY <1>16, <2>1 DEF PostStatement, Execute, Holds, calls, tableData, locks, lists, history
    <3>. QED
      BY <3>1, <3>2, <3>3, Aside
  <2>2. CASE Holds(t)
    <3>1. Holds(t)
      BY <1>16, <2>2 DEF PostStatement, Staged, Places, Locked
    <3>2. Others(t) /\ phase'[t] \in MayHold /\ mine'[t] = mine[t]
      BY <1>16, <3>1 DEF PostStatement, Holds, Go, Others, TypeOK, MayHold, Locked, calls
    <3>3. /\ \A s \in Table : s # StagingTable(t) => content'[s] = content[s]
          /\ phase'[t] \notin {"truncate", "upload"}
      BY <1>16, <3>1 DEF PostStatement, Holds, Go, TypeOK, tableData
    <3>4. phase'[t] \in {"pre", "merge"} => content'[StagingTable(t)] = {mine[t]}
      BY <1>16, <3>1 DEF PostStatement, Holds, Go, TypeOK, tableData, Staged, Rows
    <3>5. UNCHANGED <<config, temp, tableMutex, tables, drops, leaked>>
      BY <1>16 DEF PostStatement, calls, tableData, locks, lists, history
    <3>. QED
      BY <3>1, <3>2, <3>3, <3>4, <3>5, Holding
  <2>. QED
    BY <2>1, <2>2
<1>17. ASSUME NEW t \in Thread, RemoveFiles(t) PROVE Staged'
  <2>1. Others(t) /\ phase'[t] \notin Locked \cup {"lock"}
    BY <1>17 DEF RemoveFiles, LeaveStaging, Go, Others, TypeOK, Locked
  <2>2. LeaveStaging(t) /\ UNCHANGED <<config, content, tables, leaked>>
    BY <1>17 DEF RemoveFiles, tableData, history
  <2>. QED
    BY <2>1, <2>2, Leaves
<1>18. ASSUME NEW t \in Thread, Register(t) PROVE Staged'
  <2>1. ~Holds(t) /\ phase[t] # "lock"
    BY <1>18 DEF Register, Staged, Places, MayHold, Locked
  <2>2. Others(t) /\ phase'[t] \notin Locked \cup {"lock"}
    BY <1>18 DEF Register, Go, Others, TypeOK, Locked, calls
  <2>3. UNCHANGED <<config, temp, tableMutex, content, tables, drops, leaked>>
    BY <1>18 DEF Register, calls, tableData, locks, lists, history
  <2>. QED
    BY <2>1, <2>2, <2>3, Aside
<1>19. ASSUME NEW t \in Thread, Fail(t) PROVE Staged'
  <2>1. Others(t) /\ phase'[t] \notin Locked \cup {"lock"}
    BY <1>19 DEF Fail, LeaveStaging, Go, Others, TypeOK, Locked
  <2>2. LeaveStaging(t) /\ UNCHANGED <<config, content, tables, leaked>>
    BY <1>19 DEF Fail, tableData, history
  <2>. QED
    BY <2>1, <2>2, Leaves
<1>20. ASSUME NEW t \in Thread, Throw(t) PROVE Staged'
  <2>1. ~Holds(t) /\ phase[t] # "lock"
    BY <1>20 DEF Throw, Staged, Places, MayHold, Locked
  <2>2. Others(t) /\ phase'[t] \notin Locked \cup {"lock"}
    BY <1>20 DEF Throw, Forget, Go, Others, TypeOK, Locked, calls
  <2>3. UNCHANGED <<config, temp, tableMutex, content, tables, drops, leaked>>
    BY <1>20 DEF Throw, Forget, calls, tableData, locks, lists, history
  <2>. QED
    BY <2>1, <2>2, <2>3, Aside
<1>21. ASSUME NEW t \in Thread, HandleResult(t) PROVE Staged'
  <2>1. ~Holds(t) /\ phase[t] # "lock"
    BY <1>21 DEF HandleResult, Staged, Places, MayHold, Locked
  <2>2. Others(t) /\ phase'[t] \notin Locked \cup {"lock"}
    BY <1>21 DEF HandleResult, Forget, Go, Others, TypeOK, Locked, calls
  <2>3. UNCHANGED <<config, temp, tableMutex, content, tables, drops, leaked>>
    BY <1>21 DEF HandleResult, Forget, calls, tableData, locks, lists, history
  <2>. QED
    BY <2>1, <2>2, <2>3, Aside
<1>22. ASSUME NEW t \in Thread, Close(t) PROVE Staged'
  <2>1. ~Holds(t) /\ phase[t] # "lock"
    BY <1>22 DEF Close, Staged, Places, MayHold, Locked
  <2>2. Others(t) /\ phase'[t] \notin Locked \cup {"lock"}
    BY <1>22 DEF Close, Go, Others, TypeOK, Locked, calls
  <2>3. UNCHANGED <<config, temp, tableMutex, content, tables, drops, leaked>>
    BY <1>22 DEF Close, calls, tableData, locks, lists, history
  <2>. QED
    BY <2>1, <2>2, <2>3, Aside
<1>23. ASSUME NEW t \in Thread, StartDecision(t) PROVE Staged'
  <2>1. ~Holds(t) /\ phase[t] # "lock"
    BY <1>23 DEF StartDecision, Staged, Places, MayHold, Locked
  <2>2. Others(t) /\ phase'[t] \notin Locked \cup {"lock"}
    BY <1>23 DEF StartDecision, Go, Others, TypeOK, Locked, calls
  <2>3. UNCHANGED <<config, temp, tableMutex, content, tables, drops, leaked>>
    BY <1>23 DEF StartDecision, calls, tableData, locks, lists, history
  <2>. QED
    BY <2>1, <2>2, <2>3, Aside
<1>24. ASSUME NEW t \in Thread, Decide(t) PROVE Staged'
  <2>1. ~Holds(t) /\ phase[t] # "lock"
    BY <1>24 DEF Decide, Deciding, Staged, Places, MayHold, Locked
  <2>2. Others(t) /\ phase'[t] \notin Locked \cup {"lock"}
    BY <1>24 DEF Decide, Deciding, Go, Others, TypeOK, Locked, calls
  <2>3. UNCHANGED <<config, temp, tableMutex, content, tables, drops, leaked>>
    BY <1>24 DEF Decide, Deciding, calls, tableData, locks, lists, history
  <2>. QED
    BY <2>1, <2>2, <2>3, Aside
<1>25. ASSUME NEW t \in Thread, DecisionFails(t) PROVE Staged'
  <2>1. ~Holds(t) /\ phase[t] # "lock"
    BY <1>25 DEF DecisionFails, Deciding, Staged, Places, MayHold, Locked
  <2>2. Others(t) /\ phase'[t] \notin Locked \cup {"lock"}
    BY <1>25 DEF DecisionFails, Forget, Deciding, Go, Others, TypeOK, Locked, calls
  <2>3. UNCHANGED <<config, temp, tableMutex, content, tables, drops, leaked>>
    BY <1>25 DEF DecisionFails, Forget, Deciding, calls, tableData, locks, lists, history
  <2>. QED
    BY <2>1, <2>2, <2>3, Aside
<1>26. ASSUME NEW t \in Thread, EndDecision(t) PROVE Staged'
  <2>1. ~Holds(t) /\ phase[t] # "lock" /\ phase[t] \notin Locked
    BY <1>26 DEF EndDecision, Deciding, Staged, Places, MayHold, Locked
  <2>2. /\ Others(t) /\ phase'[t] = "idle" /\ UNCHANGED <<config, temp, content, tableMutex>>
    BY <1>26 DEF EndDecision, Forget, Deciding, Go, Others, TypeOK
  <2>3. Places'
    BY <2>1, <2>2 DEF Staged, Places, Others, OwnTable, MySql, Locked, Holds
  <2>4. Rows'
    BY <2>1, <2>2 DEF Staged, Rows, Others, StagingTable, Holds
  <2>5. PICK failed \in SUBSET drops :
          tables' = tables \ (drops \ failed) /\ leaked' = leaked \cup failed /\ drops' = {}
    BY <1>26 DEF EndDecision
  <2>6. \A s \in Table :
          s \in tables' <=> s \in drops' \cup leaked' \/ \E u \in Thread : temp[u] = s
    <3>1. ASSUME NEW s \in Table
          PROVE  s \in tables' <=> s \in leaked' \/ \E u \in Thread : temp[u] = s
      <4>1. CASE s \in failed
        BY <2>5, <4>1 DEF Staged, TempTablesAccounted
      <4>2. CASE s \in drops \ failed
        <5>1. \A u \in Thread : temp[u] # s
          BY <4>2 DEF Staged, TempTablesAccounted
        <5>2. s \notin tables'
          BY <2>5, <4>2
        <5>3. s \notin leaked
          BY <4>2 DEF Staged, TempTablesAccounted
        <5>. QED
          BY <2>5, <4>2, <5>1, <5>2, <5>3
      <4>3. CASE s \notin drops
        BY <2>5, <4>3 DEF Staged, TempTablesAccounted
      <4>. QED
        BY <4>1, <4>2, <4>3
    <3>. QED
      BY <2>5, <3>1
  <2>7. TempTablesAccounted'
    BY <2>2, <2>5, <2>6 DEF Staged, TempTablesAccounted
  <2>. QED
    BY <2>3, <2>4, <2>7 DEF Staged
<1>. QED
  BY <1>1, <1>2, <1>3, <1>4, <1>5, <1>6, <1>7, <1>8, <1>9, <1>10, <1>11, <1>12, <1>13, <1>14, <1>15, <1>16, <1>17, <1>18, <1>19, <1>20, <1>21, <1>22, <1>23, <1>24, <1>25, <1>26
  DEF Next, Step, StoreImpl, Manipulate, Decision

LEMMA StagedHolds == Spec => []Staged
<1>1. Typed /\ Staged /\ [Next]_vars => (Typed /\ Staged)'
  BY TypeStep, StagedStep
<1>. QED
  BY InitTypes, InitStaged, <1>1, PTL DEF Spec

\* For any number of attempts, and whatever failed attempts leave behind, a merge
\* reads the rows of its own attempt and no others.
THEOREM MergesOwnRowsHolds == Spec => []MergesOwnRows
<1>1. Staged => MergesOwnRows
  BY DEF Staged, Rows, MergesOwnRows
<1>. QED
  BY <1>1, StagedHolds, PTL

\* For any number of attempts, a temporary table is in use, waits for the next
\* decision or could not be dropped, and no table in use waits to be dropped.
THEOREM TempTablesAccountedHolds == Spec => []TempTablesAccounted
<1>1. Staged => TempTablesAccounted
  BY DEF Staged
<1>. QED
  BY <1>1, StagedHolds, PTL
=============================================================================
