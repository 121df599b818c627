----------------------- MODULE DataProxyClientProofs -----------------------
(***************************************************************************)
(* What DataProxyClient keeps for any nodes, forwards, configurations and  *)
(* number of transactions.  The inductive invariant ties the three vectors *)
(* to the call in progress (Control), to the work registered at the nodes  *)
(* (WorkIsMarked) and to what is durable (PermanentOnlyInCommit).          *)
(***************************************************************************)
EXTENDS DataProxyClient, SequencesExt, SequenceTheorems, TLAPS

-----------------------------------------------------------------------------
\* Facts about the vectors of nodes and the stack of visits.

\* The empty vector.
LEMMA EmptyToSet == ToSet(<<>>) = {} /\ IsInjective(<<>>)
  BY DEF ToSet, IsInjective

\* What push_back does to the set of a vector's elements.
LEMMA AppendToSet ==
  ASSUME NEW S, NEW s \in Seq(S), NEW e \in S
  PROVE  /\ Append(s, e) \in Seq(S)
         /\ ToSet(Append(s, e)) = ToSet(s) \cup {e}
<1> DEFINE t == Append(s, e)
<1>1. /\ t \in Seq(S) /\ DOMAIN t = 1 .. Len(s) + 1
      /\ t[Len(s) + 1] = e /\ \A i \in 1 .. Len(s) : t[i] = s[i]
      /\ DOMAIN s = 1 .. Len(s) /\ Len(s) \in Nat
  OBVIOUS
<1>2. ASSUME NEW v \in ToSet(t) PROVE v \in ToSet(s) \cup {e}
  <2>1. PICK i \in DOMAIN t : v = t[i]
    BY <1>2 DEF ToSet
  <2>2. i = Len(s) + 1 \/ i \in 1 .. Len(s)
    BY <1>1, <2>1
  <2> QED BY <1>1, <2>1, <2>2 DEF ToSet
<1>3. ASSUME NEW v \in ToSet(s) PROVE v \in ToSet(t)
  <2>1. PICK i \in DOMAIN s : v = s[i]
    BY <1>3 DEF ToSet
  <2>2. i \in DOMAIN t /\ t[i] = v
    BY <1>1, <2>1
  <2> QED BY <2>2 DEF ToSet
<1>4. e \in ToSet(t)
  <2>1. Len(s) + 1 \in DOMAIN t
    BY <1>1
  <2> QED BY <1>1, <2>1 DEF ToSet
<1> QED BY <1>1, <1>2, <1>3, <1>4

\* What erase( begin() ) does to it.
LEMMA TailToSet ==
  ASSUME NEW S, NEW s \in Seq(S), s # <<>>
  PROVE  /\ Head(s) \in S
         /\ Tail(s) \in Seq(S)
         /\ ToSet(s) = {Head(s)} \cup ToSet(Tail(s))
<1> DEFINE t == Tail(s)
<1>1. /\ t \in Seq(S) /\ Head(s) = s[1] /\ DOMAIN s = 1 .. Len(s)
      /\ Len(s) \in Nat \ {0} /\ DOMAIN t = 1 .. Len(s) - 1
      /\ \A i \in 1 .. Len(s) - 1 : t[i] = s[i + 1]
  OBVIOUS
<1>2. ASSUME NEW v \in ToSet(s) PROVE v \in {Head(s)} \cup ToSet(t)
  <2>1. PICK i \in DOMAIN s : v = s[i]
    BY <1>2 DEF ToSet
  <2>2. CASE i = 1
    BY <1>1, <2>1, <2>2
  <2>3. CASE i # 1
    <3>1. i - 1 \in DOMAIN t /\ t[i - 1] = v
      BY <1>1, <2>1, <2>3
    <3> QED BY <3>1 DEF ToSet
  <2> QED BY <2>2, <2>3
<1>3. ASSUME NEW v \in ToSet(t) PROVE v \in ToSet(s)
  <2>1. PICK i \in DOMAIN t : v = t[i]
    BY <1>3 DEF ToSet
  <2>2. i + 1 \in DOMAIN s /\ s[i + 1] = v
    BY <1>1, <2>1
  <2> QED BY <2>2 DEF ToSet
<1>4. Head(s) \in ToSet(s) /\ Head(s) \in S
  BY <1>1 DEF ToSet
<1> QED BY <1>1, <1>2, <1>3, <1>4

\* push_back of a new element keeps a vector free of duplicates.
LEMMA PushBackInjective ==
  ASSUME NEW S, NEW s \in Seq(S), NEW e \in S \ ToSet(s), IsInjective(s)
  PROVE  IsInjective(Append(s, e))
<1>1. DOMAIN s = 1 .. Len(s) /\ Len(s) \in Nat
  OBVIOUS
<1>2. \A i \in 1 .. Len(s) : s[i] # e
  BY <1>1 DEF ToSet
<1>3. \A i, j \in DOMAIN s : s[i] = s[j] => i = j
  BY DEF IsInjective
<1>4. \A i, j \in DOMAIN Append(s, e) :
        Append(s, e)[i] = Append(s, e)[j] => i = j
  BY <1>1, <1>2, <1>3
<1> QED BY <1>4 DEF IsInjective

\* erase( begin() ) keeps it so, and the erased element is gone.
LEMMA TailInjective ==
  ASSUME NEW S, NEW s \in Seq(S), s # <<>>, IsInjective(s)
  PROVE  IsInjective(Tail(s)) /\ Head(s) \notin ToSet(Tail(s))
<1>1. /\ Head(s) = s[1] /\ DOMAIN s = 1 .. Len(s) /\ Len(s) \in Nat \ {0}
      /\ DOMAIN Tail(s) = 1 .. Len(s) - 1
      /\ \A i \in 1 .. Len(s) - 1 : Tail(s)[i] = s[i + 1]
  OBVIOUS
<1>2. ASSUME NEW i \in DOMAIN Tail(s), NEW j \in DOMAIN Tail(s),
             Tail(s)[i] = Tail(s)[j]
      PROVE  i = j
  <2>1. i + 1 \in DOMAIN s /\ j + 1 \in DOMAIN s /\ s[i + 1] = s[j + 1]
    BY <1>1, <1>2
  <2>2. i + 1 = j + 1
    BY <2>1 DEF IsInjective
  <2> QED BY <1>1, <2>2
<1>3. ASSUME NEW i \in DOMAIN Tail(s) PROVE Tail(s)[i] # Head(s)
  <2>1. i + 1 \in DOMAIN s /\ 1 \in DOMAIN s /\ i + 1 # 1
    BY <1>1
  <2>2. s[i + 1] # s[1]
    BY <2>1 DEF IsInjective
  <2> QED BY <1>1, <2>2
<1> QED BY <1>2, <1>3 DEF IsInjective, ToSet

\* Leaving the top of a call stack.
LEMMA FrontOfSeq ==
  ASSUME NEW S, NEW s \in Seq(S), s # <<>>
  PROVE  Last(s) \in S /\ Front(s) \in Seq(S)
<1>1. Len(s) \in Nat \ {0} /\ \A i \in 1 .. Len(s) : s[i] \in S
  OBVIOUS
<1>2. Last(s) \in S
  BY <1>1 DEF Last
<1>3. Front(s) = [i \in 1 .. Len(s) - 1 |-> s[i]]
  BY <1>1 DEF Front
<1>4. Front(s) \in Seq(S)
  <2>1. Len(s) - 1 \in Nat /\ \A i \in 1 .. Len(s) - 1 : s[i] \in S
    BY <1>1
  <2> QED BY <1>3, <2>1
<1> QED BY <1>2, <1>4

\* A call stack after a call.
LEMMA AppendNotEmpty ==
  ASSUME NEW S, NEW s \in Seq(S), NEW e \in S
  PROVE  Append(s, e) \in Seq(S) /\ Append(s, e) # <<>>
<1>1. /\ Append(s, e) \in Seq(S)
      /\ Len(Append(s, e)) = Len(s) + 1 /\ Len(s) \in Nat
  OBVIOUS
<1>2. Len(Append(s, e)) # 0 /\ Len(<<>>) = 0
  BY <1>1
<1> QED BY <1>1, <1>2

-----------------------------------------------------------------------------

\* How the visit of an item of work ended, for HandleResult.
VisitName(ok) == IF ok THEN "succeeded" ELSE "forwarded"

CommitMarks == ToSet(pendingCommitNodes)
RollbackMarks == ToSet(pendingRollbackNodes)

\* How the phase of a call constrains the rest of the state.
Control ==
  /\ insideTransaction => initialized /\ txn \notin aborted
  /\ call \in Loops => insideTransaction
  /\ call \in {"commitRollbacks", "rollback"} => pendingCommitNodes = <<>>
  /\ call = "request" <=> stack # <<>>
  /\ stack \in Seq(nodes)
  /\ call = "parse" => resume \in Config /\ ~insideTransaction
  /\ ~initialized => nodes = {} /\ call = "none"
  /\ errors => call = "commit" /\ txn \in faulted
  /\ resume = "begin" => txn < MaxTxn
  /\ call \in {"rollbackCommits", "rollback", "parse"} \/ resume = "return"

\* No history speaks of a transaction that has not begun.
Serial ==
  /\ txn \in Nat
  /\ \A w \in staged \cup durable : w.txn <= txn
  /\ \A t \in aborted : t <= txn

\* The configuration of a transaction's marks is there whole, or not at all.
MarksAreKnown == nodes = {} \/ CommitMarks \cup RollbackMarks \subseteq nodes

\* The mark of a node is the one for the work that visits which returned have
\* registered at it.
WorkIsMarked ==
  \A w \in Returned(staged) :
    \/ w.txn \in faulted \cup conflicted
    \/ w.node \in IF w.visit = "succeeded" THEN CommitMarks ELSE RollbackMarks

\* While no node has thrown, work of the open transaction is permanent only
\* once its Commit is under way, which no unknown node can interrupt.
PermanentOnlyInCommit ==
  \A w \in durable :
    w.txn = txn /\ txn \notin faulted /\ insideTransaction =>
      call \in {"commit", "commitRollbacks"} /\ nodes # {}

IInv ==
  /\ TypeOK
  /\ Control
  /\ OneMarkPerNode
  /\ ClosedMeansUnmarked
  /\ RegisteredIsMarked
  /\ Serial
  /\ MarksAreKnown
  /\ WorkIsMarked
  /\ SupersededStaysUndone
  /\ PermanentOnlyInCommit
  /\ RolledBackStaysUndone

USE DEF Returned, VisitName
-----------------------------------------------------------------------------
\* Before the first Initialize.
LEMMA Initially == Init => IInv
<1> SUFFICES ASSUME Init PROVE IInv
  OBVIOUS
<1> USE DEF Init
<1>1. TypeOK
  <2>1. 0 \in 0 .. MaxTxn
    BY ConstantsAssumption
  <2>2. <<>> \in Seq(Node)
    OBVIOUS
  <2>3. call \in Loops \cup {"none", "parse", "request"}
    OBVIOUS
  <2>4. {} \subseteq Work /\ {} \subseteq 0 .. MaxTxn /\ {} \subseteq Node
    OBVIOUS
  <2>5. resume \in {"return", "begin", "destroy"} \cup Config
    OBVIOUS
  <2>6. configFileMD5 \in {NoDigest} \cup {Digest[c] : c \in Config}
    OBVIOUS
  <2> QED BY <2>1, <2>2, <2>3, <2>4, <2>5, <2>6 DEF TypeOK
<1>2. Control /\ Serial
  BY DEF Control, Serial, Loops
<1>3. OneMarkPerNode
  BY EmptyToSet DEF OneMarkPerNode
<1>4. /\ ClosedMeansUnmarked /\ RegisteredIsMarked /\ MarksAreKnown
      /\ WorkIsMarked /\ SupersededStaysUndone
      /\ PermanentOnlyInCommit /\ RolledBackStaysUndone
  BY DEF ClosedMeansUnmarked, RegisteredIsMarked, MarksAreKnown,
         WorkIsMarked, SupersededStaysUndone, PermanentOnlyInCommit,
         RolledBackStaysUndone
<1> QED BY <1>1, <1>2, <1>3, <1>4 DEF IInv

\* Initialize up to the point where it may roll back.
LEMMA InitializeStep ==
  ASSUME IInv, NEW c \in Config,
         InitializeUnchanged(c) \/ InitializeFirst(c) \/ Reinitialize(c)
  PROVE  IInv'
<1> USE DEF InitializeUnchanged, InitializeFirst, Reinitialize, lists, control,
            world, history, IInv
<1>1. TypeOK'
  BY DEF TypeOK, Loops
<1>2. Control'
  <2>1. stack' = <<>> /\ <<>> \in Seq(nodes')
    BY DEF Control
  <2> QED BY <2>1, ConstantsAssumption DEF Control, Loops
<1>4. Serial'
  BY DEF TypeOK, Serial
<1>3. /\ OneMarkPerNode' /\ ClosedMeansUnmarked' /\ RegisteredIsMarked'
      /\ MarksAreKnown' /\ WorkIsMarked' /\ SupersededStaysUndone'
      /\ PermanentOnlyInCommit' /\ RolledBackStaysUndone'
  BY DEF TypeOK, Control, OneMarkPerNode, ClosedMeansUnmarked, RegisteredIsMarked, MarksAreKnown, WorkIsMarked, SupersededStaysUndone, PermanentOnlyInCommit, RolledBackStaysUndone, CommitMarks, RollbackMarks
<1> QED BY <1>1, <1>2, <1>3, <1>4

\* The end of Initialize: no transaction is open, and no mark is left.
LEMMA ParseStep ==
  ASSUME IInv, ParseSucceeds \/ ParseFails
  PROVE  IInv'
<1> USE DEF ParseSucceeds, ParseFails, EndInitialize, lists, world, history, IInv
<1>1. resume \in Config /\ ~insideTransaction /\ stack = <<>> /\ ~errors
  BY DEF Control
<1>2. nodes' \subseteq Node /\ initialized' = initialized
  BY <1>1, ConstantsAssumption
<1>3. configFileMD5' \in {NoDigest} \cup {Digest[c] : c \in Config}
  BY <1>1 DEF TypeOK
<1>4. TypeOK'
  BY <1>2, <1>3 DEF TypeOK, Loops
<1>5. initialized
  BY DEF Control
<1>6. Control'
  <2>1. /\ call' = "none" /\ resume' = "return" /\ errors' = errors
        /\ stack' = <<>> /\ <<>> \in Seq(nodes')
    BY <1>1
  <2> QED BY <1>1, <1>2, <1>5, <2>1 DEF Control, Loops
<1>7. MarksAreKnown'
  BY <1>1, EmptyToSet DEF ClosedMeansUnmarked, MarksAreKnown, CommitMarks,
                          RollbackMarks
<1>8. Serial' /\ OneMarkPerNode' /\ ClosedMeansUnmarked'
  BY DEF Serial, OneMarkPerNode, ClosedMeansUnmarked
<1>9. /\ RegisteredIsMarked' /\ WorkIsMarked' /\ SupersededStaysUndone'
      /\ RolledBackStaysUndone'
  BY DEF RegisteredIsMarked, WorkIsMarked, SupersededStaysUndone,
         RolledBackStaysUndone, CommitMarks, RollbackMarks
<1>10. PermanentOnlyInCommit'
  BY <1>1 DEF PermanentOnlyInCommit
<1> QED BY <1>4, <1>6, <1>7, <1>8, <1>9, <1>10

\* Steps that only move the caller on.
LEMMA CallStep ==
  ASSUME IInv, NEW next \in {"return", "begin", "destroy"},
         Commit \/ Rollback(next) \/ CommitPartial \/ CommitRollbacks
           \/ RollbackRollbacks
  PROVE  IInv'
<1> USE DEF Commit, Rollback, CommitPartial, CommitRollbacks,
            RollbackRollbacks, lists, client, world, history, IInv
<1>1. UNCHANGED <<client, insideTransaction, lists, stack, world, history>>
  OBVIOUS
<1>2. TypeOK'
  BY DEF TypeOK, Loops
<1>3. insideTransaction
  BY DEF Control, Loops
<1>4. Control'
  <2>1. CASE Commit
    BY <2>1 DEF Control, Loops
  <2>2. CASE Rollback(next)
    BY <2>2 DEF Control, Loops
  <2>3. CASE CommitPartial
    BY <2>3, <1>3 DEF Control, Loops
  <2>5. CASE CommitRollbacks
    BY <2>5, <1>3 DEF Control, Loops
  <2>4. CASE RollbackRollbacks
    BY <2>4, <1>3 DEF Control, Loops
  <2> QED BY <2>1, <2>2, <2>3, <2>4, <2>5
<1>5. Serial' /\ OneMarkPerNode' /\ MarksAreKnown'
  BY <1>1 DEF Serial, OneMarkPerNode, MarksAreKnown, CommitMarks,
              RollbackMarks
<1>6. ClosedMeansUnmarked' /\ RegisteredIsMarked' /\ WorkIsMarked'
  BY <1>1 DEF ClosedMeansUnmarked, RegisteredIsMarked, WorkIsMarked,
              CommitMarks, RollbackMarks
<1>7. SupersededStaysUndone' /\ RolledBackStaysUndone'
  BY <1>1 DEF SupersededStaysUndone, RolledBackStaysUndone
<1>8. call' \in {"commit", "commitRollbacks"} \/ txn \in faulted
        \/ call \notin {"commit", "commitRollbacks"}
  BY DEF Control
<1>9. PermanentOnlyInCommit'
  BY <1>1, <1>8 DEF PermanentOnlyInCommit
<1> QED BY <1>2, <1>4, <1>5, <1>6, <1>7, <1>9

\* Requests, up to their result: only the call stack changes.
LEMMA RequestStep ==
  ASSUME IInv, NEW n \in Node, Request(n) \/ Forward(n)
  PROVE  IInv'
<1> USE DEF lists, client, world, history, IInv
<1>1. /\ stack' \in Seq(Node) /\ stack' \in Seq(nodes)
      /\ call' = "request" <=> stack' # <<>>
      /\ call' \in {"none", "request"}
  <2>1. CASE Request(n)
    <3>1. <<n>> \in Seq(Node) /\ <<n>> \in Seq(nodes) /\ <<n>> # <<>>
      BY <2>1 DEF Request
    <3> QED BY <2>1, <3>1 DEF Request
  <2>2. CASE Forward(n)
    BY <2>2, AppendNotEmpty DEF Forward, TypeOK, Control
  <2> QED BY <2>1, <2>2
<1>2. /\ UNCHANGED <<client, insideTransaction, lists, resume, errors, world,
                     history>>
      /\ call \in {"none", "request"} /\ initialized
  BY DEF Control, Request, Forward
<1>3. TypeOK'
  BY <1>1, <1>2 DEF TypeOK, Loops
<1>4. Control'
  BY <1>1, <1>2 DEF TypeOK, Control, Loops
<1>5. Serial' /\ OneMarkPerNode' /\ MarksAreKnown' /\ ClosedMeansUnmarked'
  BY <1>2 DEF Serial, OneMarkPerNode, MarksAreKnown, CommitMarks,
              RollbackMarks, ClosedMeansUnmarked
<1>6. /\ RegisteredIsMarked' /\ WorkIsMarked' /\ SupersededStaysUndone'
      /\ RolledBackStaysUndone'
  BY <1>2 DEF RegisteredIsMarked, WorkIsMarked, SupersededStaysUndone,
              RolledBackStaysUndone, CommitMarks, RollbackMarks
<1>7. PermanentOnlyInCommit'
  BY <1>2 DEF PermanentOnlyInCommit
<1> QED BY <1>3, <1>4, <1>5, <1>6, <1>7

\* A visit throws: what it may have registered is no work of a visit that
\* returned, which is all that the invariant speaks of.
LEMMA ThrowStep ==
  ASSUME IInv, VisitThrows
  PROVE  IInv'
<1> USE DEF lists, client, history, IInv
<1>1. /\ call = "request" /\ stack # <<>> /\ initialized /\ ~errors
      /\ resume = "return" /\ stack \in Seq(nodes) /\ stack \in Seq(Node)
      /\ stack' = Front(stack)
      /\ call' = IF stack' = <<>> THEN "none" ELSE "request"
      /\ UNCHANGED <<client, insideTransaction, lists, resume, errors, durable,
                     history>>
  BY DEF VisitThrows, LeaveVisit, Control, TypeOK
<1>2. /\ Front(stack) \in Seq(nodes) /\ Front(stack) \in Seq(Node)
      /\ Top \in Node
  BY <1>1, FrontOfSeq DEF Top
<1>3. CurrentTxn \in 0 .. MaxTxn /\ CurrentTxn <= txn /\ txn \in Nat
  BY ConstantsAssumption DEF TypeOK, CurrentTxn
<1>4. /\ WorkOf("threw") \in Work /\ WorkOf("threw").visit = "threw"
      /\ WorkOf("threw").txn = CurrentTxn
  BY <1>2, <1>3 DEF Work, WorkOf
<1>5. /\ staged' \subseteq Work /\ Returned(staged') = Returned(staged)
      /\ \A w \in staged' \ staged : w.txn <= txn
  BY <1>3, <1>4 DEF VisitThrows, TypeOK
<1>6. TypeOK'
  BY <1>1, <1>2, <1>5 DEF TypeOK, Loops
<1>7. Control'
  BY <1>1, <1>2 DEF Control, Loops
<1>8. OneMarkPerNode' /\ MarksAreKnown' /\ ClosedMeansUnmarked'
  BY <1>1 DEF OneMarkPerNode, MarksAreKnown, CommitMarks, RollbackMarks,
              ClosedMeansUnmarked
<1>9. Serial'
  BY <1>1, <1>5 DEF Serial
<1>10. RegisteredIsMarked' /\ WorkIsMarked'
  BY <1>1, <1>5 DEF RegisteredIsMarked, WorkIsMarked, CommitMarks, RollbackMarks
<1>11. SupersededStaysUndone' /\ RolledBackStaysUndone'
  BY <1>1 DEF SupersededStaysUndone, RolledBackStaysUndone
<1>12. PermanentOnlyInCommit'
  BY <1>1 DEF PermanentOnlyInCommit
<1> QED BY <1>6, <1>7, <1>8, <1>9, <1>10, <1>11, <1>12

\* BeginTransaction: the new transaction has no work and no mark yet.
LEMMA BeginStep ==
  ASSUME IInv, BeginTransaction
  PROVE  IInv'
<1> USE DEF BeginTransaction, StartTransaction, lists, control, client, world,
            history, IInv
<1>1. txn' \in 0 .. MaxTxn /\ txn' = txn + 1 /\ txn \in Nat
  BY ConstantsAssumption DEF TypeOK
<1>2. TypeOK'
  BY <1>1 DEF TypeOK, Loops
<1>3. Serial' /\ (\A t \in aborted \cup {w.txn : w \in staged \cup durable} : t # txn')
  BY <1>1 DEF TypeOK, Serial, Work
<1>4. Control'
  BY <1>3 DEF TypeOK, Control, Loops
<1>5. RegisteredIsMarked'
  BY DEF RegisteredIsMarked
<1>6. PermanentOnlyInCommit'
  BY <1>3 DEF PermanentOnlyInCommit
<1>7. /\ OneMarkPerNode' /\ ClosedMeansUnmarked' /\ MarksAreKnown'
      /\ WorkIsMarked' /\ SupersededStaysUndone' /\ RolledBackStaysUndone'
  BY DEF OneMarkPerNode, ClosedMeansUnmarked, MarksAreKnown, WorkIsMarked,
         SupersededStaysUndone, RolledBackStaysUndone, CommitMarks, RollbackMarks
<1> QED BY <1>2, <1>3, <1>4, <1>5, <1>6, <1>7

-----------------------------------------------------------------------------
\* What AddIfAbsent does to a vector of marks.
LEMMA Marked ==
  ASSUME NEW n \in Node, NEW s \in Seq(Node)
  PROVE  /\ AddIfAbsent(n, s) \in Seq(Node)
         /\ ToSet(AddIfAbsent(n, s)) = ToSet(s) \cup {n}
         /\ IsInjective(s) => IsInjective(AddIfAbsent(n, s))
<1>1. CASE n \in ToSet(s)
  BY <1>1 DEF AddIfAbsent
<1>2. CASE n \notin ToSet(s)
  BY <1>2, AppendToSet, PushBackInjective DEF AddIfAbsent
<1> QED BY <1>1, <1>2

\* The end of a visit: where the request goes on, and what it registered.
LEMMA VisitEnds ==
  ASSUME IInv, NEW ok \in BOOLEAN, NEW work, VisitReturns(ok, work),
         work = staged \/ work \in VisitWork(ok)
  PROVE  /\ call = "request" /\ call' \in {"none", "request"}
         /\ stack' \in Seq(Node) /\ stack' \in Seq(nodes)
         /\ call' = "request" <=> stack' # <<>>
         /\ Top \in nodes /\ Top \in Node
         /\ initialized /\ ~errors /\ resume = "return"
         /\ UNCHANGED <<client, insideTransaction, resume, errors, txn,
                        aborted>>
         /\ CurrentTxn \in 0 .. MaxTxn /\ CurrentTxn <= txn /\ txn \in Nat
         /\ work \subseteq Work
         /\ staged \subseteq work
         /\ \A w \in work \ staged :
              w.txn = CurrentTxn /\ w.node = Top /\ w.visit = VisitName(ok)
<1> USE DEF IInv
<1>1. call = "request" /\ stack # <<>> /\ initialized /\ ~errors
      /\ resume = "return" /\ stack \in Seq(nodes) /\ stack \in Seq(Node)
  BY DEF VisitReturns, Control, TypeOK
<1>2. /\ stack' = Front(stack)
      /\ call' = IF stack' = <<>> THEN "none" ELSE "request"
      /\ UNCHANGED <<client, insideTransaction, resume, errors, txn, aborted>>
  BY DEF VisitReturns, LeaveVisit
<1>3. Front(stack) \in Seq(nodes) /\ Top \in nodes
  BY <1>1, FrontOfSeq DEF Top
<1>4. Front(stack) \in Seq(Node) /\ Top \in Node
  BY <1>1, FrontOfSeq DEF Top
<1>5. CurrentTxn \in 0 .. MaxTxn /\ CurrentTxn <= txn /\ txn \in Nat
  BY ConstantsAssumption DEF TypeOK, CurrentTxn
<1>6. WorkOf(VisitName(ok)) \in Work
  BY <1>4, <1>5 DEF Work, WorkOf
<1>7. /\ work \subseteq Work
      /\ staged \subseteq work
      /\ \A w \in work \ staged :
           w.txn = CurrentTxn /\ w.node = Top /\ w.visit = VisitName(ok)
  BY <1>6 DEF VisitWork, WorkOf, TypeOK
<1> QED BY <1>1, <1>2, <1>3, <1>4, <1>5, <1>7

\* HandleResult for a node without transactions.
LEMMA AutoCommitStep ==
  ASSUME IInv, NEW ok \in BOOLEAN, AutoCommit(ok)
  PROVE  IInv'
<1> USE DEF IInv
<1>1. VisitReturns(ok, staged)
  BY DEF AutoCommit
<1>2. /\ call = "request" /\ call' \in {"none", "request"}
      /\ stack' \in Seq(Node) /\ stack' \in Seq(nodes)
      /\ call' = "request" <=> stack' # <<>>
      /\ Top \in Node /\ initialized /\ ~errors /\ resume = "return"
      /\ UNCHANGED <<client, insideTransaction, resume, errors, txn, aborted>>
  BY <1>1, VisitEnds
<1>3. UNCHANGED <<pendingCommitNodes, pendingRollbackNodes, world, conflicted,
                  faulted>>
  BY DEF AutoCommit
<1>4. /\ autoCommittedNodes' \in Seq(Node)
      /\ ~insideTransaction => UNCHANGED autoCommittedNodes
  BY <1>2, Marked DEF AutoCommit, TypeOK
<1> USE DEF client, world
<1>5. TypeOK'
  BY <1>2, <1>3, <1>4 DEF TypeOK, Loops
<1>6. Control'
  BY <1>2, <1>3 DEF Control, Loops
<1>7. Serial' /\ OneMarkPerNode' /\ MarksAreKnown' /\ ClosedMeansUnmarked'
  BY <1>2, <1>3, <1>4 DEF Serial, OneMarkPerNode, MarksAreKnown, CommitMarks,
                          RollbackMarks, ClosedMeansUnmarked
<1>8. /\ RegisteredIsMarked' /\ WorkIsMarked' /\ SupersededStaysUndone'
      /\ RolledBackStaysUndone'
  BY <1>2, <1>3 DEF RegisteredIsMarked, WorkIsMarked,
                    SupersededStaysUndone, RolledBackStaysUndone, CommitMarks, RollbackMarks
<1>9. PermanentOnlyInCommit'
  BY <1>2, <1>3 DEF PermanentOnlyInCommit
<1> QED BY <1>5, <1>6, <1>7, <1>8, <1>9

\* HandleResult outside a transaction: the node decides now, or has failed.
LEMMA DecideAtOnceStep ==
  ASSUME IInv, NEW ok \in BOOLEAN, NEW work \in VisitWork(ok),
         DecideAtOnce(ok, work)
  PROVE  IInv'
<1> USE DEF IInv
<1>1. VisitReturns(ok, work) /\ ~insideTransaction /\ UNCHANGED lists
      /\ UNCHANGED conflicted
  BY DEF DecideAtOnce
<1>2. /\ call = "request" /\ call' \in {"none", "request"}
      /\ stack' \in Seq(Node) /\ stack' \in Seq(nodes)
      /\ call' = "request" <=> stack' # <<>>
      /\ Top \in Node /\ initialized /\ ~errors /\ resume = "return"
      /\ UNCHANGED <<client, insideTransaction, resume, errors, txn, aborted>>
      /\ work \subseteq Work /\ staged \subseteq work
      /\ \A w \in work \ staged :
           w.txn = CurrentTxn /\ w.node = Top /\ w.visit = VisitName(ok)
  BY <1>1, VisitEnds
<1>3. CurrentTxn = 0 /\ 0 \in 0 .. MaxTxn
  BY <1>1, ConstantsAssumption DEF CurrentTxn
<1>4. /\ staged' \subseteq work /\ durable' \subseteq Work
      /\ \A w \in staged' \ staged : w.txn = 0 /\ 0 \in faulted'
      /\ \A w \in durable' \ durable : w \in Returned(work) /\ w.txn > 0
      /\ durable \subseteq durable'
      /\ faulted \subseteq faulted' /\ faulted' \subseteq 0 .. MaxTxn
  <2>1. CASE NodeCommits(Top, work)
    BY <1>2, <2>1 DEF NodeCommits, WorkAt, TypeOK
  <2>2. CASE NodeRollsBack(Top, work)
    BY <1>2, <2>2 DEF NodeRollsBack, WorkAt, TypeOK
  <2>3. CASE NodeThrows(Top, work)
    BY <1>2, <1>3, <2>3 DEF NodeThrows, WorkAt, TypeOK, Work
  <2> QED BY <2>1, <2>2, <2>3 DEF DecideAtOnce
<1>5. \A w \in durable' \ durable : w \in staged /\ w.txn \in faulted
  BY <1>1, <1>2, <1>3, <1>4 DEF RegisteredIsMarked, Work
<1> USE DEF client, lists
<1>6. TypeOK'
  BY <1>1, <1>2, <1>4 DEF TypeOK, Loops
<1>7. Control'
  BY <1>1, <1>2 DEF Control, Loops
<1>8. OneMarkPerNode' /\ MarksAreKnown' /\ ClosedMeansUnmarked'
  BY <1>1, <1>2 DEF OneMarkPerNode, MarksAreKnown, CommitMarks,
                    RollbackMarks, ClosedMeansUnmarked
<1>9. Serial'
  <2>1. \A w \in staged' \cup durable' : w.txn <= txn
    BY <1>4, <1>5 DEF Serial
  <2> QED BY <1>2, <2>1 DEF Serial
<1>10. RegisteredIsMarked' /\ WorkIsMarked'
  BY <1>1, <1>2, <1>4 DEF RegisteredIsMarked, WorkIsMarked,
                          CommitMarks, RollbackMarks
<1>11. SupersededStaysUndone' /\ RolledBackStaysUndone'
  BY <1>1, <1>2, <1>4, <1>5 DEF SupersededStaysUndone, RolledBackStaysUndone
<1>12. PermanentOnlyInCommit'
  BY <1>1, <1>2 DEF PermanentOnlyInCommit
<1> QED BY <1>6, <1>7, <1>8, <1>9, <1>10, <1>11, <1>12

\* HandleResult inside a transaction: the node is marked, or the marks
\* conflict; either way what it registered is where a closing finds it.
LEMMA MarkStep ==
  ASSUME IInv, NEW ok \in BOOLEAN, NEW work \in VisitWork(ok),
         \/ ok /\ MarkForCommit(work)
         \/ ~ok /\ MarkForRollback(work)
         \/ MarkConflicts(ok, work)
  PROVE  IInv'
<1> USE DEF IInv
<1>1. VisitReturns(ok, work) /\ insideTransaction /\ staged' = work
      /\ UNCHANGED <<durable, faulted, autoCommittedNodes>>
  BY DEF MarkForCommit, MarkForRollback, MarkConflicts, lists
<1>2. /\ call = "request" /\ call' \in {"none", "request"}
      /\ stack' \in Seq(Node) /\ stack' \in Seq(nodes)
      /\ call' = "request" <=> stack' # <<>>
      /\ Top \in nodes /\ Top \in Node
      /\ initialized /\ ~errors /\ resume = "return"
      /\ UNCHANGED <<client, insideTransaction, resume, errors, txn, aborted>>
      /\ work \subseteq Work /\ staged \subseteq work
      /\ \A w \in work \ staged :
           w.txn = CurrentTxn /\ w.node = Top /\ w.visit = VisitName(ok)
  BY <1>1, VisitEnds
<1>3. CurrentTxn = txn /\ txn \in 0 .. MaxTxn /\ txn \in Nat
  BY <1>1, ConstantsAssumption DEF CurrentTxn, TypeOK
<1>4. /\ pendingCommitNodes' \in Seq(Node)
      /\ pendingRollbackNodes' \in Seq(Node)
      /\ CommitMarks \subseteq CommitMarks'
      /\ RollbackMarks \subseteq RollbackMarks'
      /\ CommitMarks' \cup RollbackMarks' =
           CommitMarks \cup RollbackMarks \cup {Top}
      /\ OneMarkPerNode'
      /\ conflicted \subseteq conflicted' /\ conflicted' \subseteq 0 .. MaxTxn
      /\ \/ txn \in conflicted'
         \/ Top \in IF ok THEN CommitMarks' ELSE RollbackMarks'
  <2> USE DEF CommitMarks, RollbackMarks, OneMarkPerNode
  <2>1. CASE ok /\ MarkForCommit(work)
    BY <1>2, <2>1, Marked DEF MarkForCommit, TypeOK
  <2>2. CASE ~ok /\ MarkForRollback(work)
    BY <1>2, <2>2, Marked DEF MarkForRollback, TypeOK
  <2>3. CASE MarkConflicts(ok, work)
    BY <1>2, <1>3, <2>3 DEF MarkConflicts, lists, TypeOK
  <2> QED BY <2>1, <2>2, <2>3
<1> USE DEF client
<1>5. TypeOK'
  BY <1>1, <1>2, <1>4 DEF TypeOK, Loops
<1>6. Control'
  BY <1>1, <1>2 DEF Control, Loops
<1>7. MarksAreKnown' /\ ClosedMeansUnmarked'
  BY <1>1, <1>2, <1>4 DEF MarksAreKnown, ClosedMeansUnmarked
<1>8. Serial'
  BY <1>1, <1>2, <1>3 DEF Serial
<1>9. RegisteredIsMarked'
  BY <1>1, <1>2, <1>3, <1>4 DEF RegisteredIsMarked, CommitMarks, RollbackMarks
<1>10. WorkIsMarked'
  BY <1>1, <1>2, <1>3, <1>4 DEF WorkIsMarked
<1>11. SupersededStaysUndone' /\ RolledBackStaysUndone'
  BY <1>1, <1>2, <1>4 DEF SupersededStaysUndone, RolledBackStaysUndone
<1>12. PermanentOnlyInCommit'
  BY <1>1, <1>2 DEF PermanentOnlyInCommit
<1> QED BY <1>4, <1>5, <1>6, <1>7, <1>8, <1>9, <1>10, <1>11, <1>12
-----------------------------------------------------------------------------
\* The loops of Commit and of PrivateRollback, for one node.
LEMMA CommitNodeStep ==
  ASSUME IInv, CommitNode
  PROVE  IInv'
<1> DEFINE n == Head(pendingCommitNodes)
<1> USE DEF IInv
<1>1. /\ call = "commit" /\ insideTransaction /\ n \in nodes
      /\ pendingCommitNodes' = Tail(pendingCommitNodes)
      /\ UNCHANGED <<client, insideTransaction, pendingRollbackNodes,
                     autoCommittedNodes, call, resume, stack, txn, aborted,
                     conflicted>>
  BY DEF CommitNode, Control, Loops
<1>2. /\ n \in Node /\ Tail(pendingCommitNodes) \in Seq(Node)
      /\ CommitMarks = {n} \cup CommitMarks'
      /\ IsInjective(pendingCommitNodes') /\ n \notin CommitMarks'
      /\ n \notin RollbackMarks
  BY <1>1, TailToSet, TailInjective DEF CommitNode, TypeOK, OneMarkPerNode,
                                        CommitMarks, RollbackMarks
<1>3. txn \in 0 .. MaxTxn /\ CurrentTxn = txn
  BY <1>1 DEF TypeOK, CurrentTxn
<1>4. \/ /\ staged' = staged \ WorkAt(n, staged)
         /\ durable' = durable \cup {w \in Returned(WorkAt(n, staged)) : w.txn > 0}
         /\ UNCHANGED <<errors, faulted>>
      \/ /\ UNCHANGED <<staged, durable>>
         /\ faulted' = faulted \cup {w.txn : w \in Returned(WorkAt(n, staged))} \cup {txn}
         /\ errors' = TRUE
  BY <1>3 DEF CommitNode, NodeCommits, NodeThrows
<1>5. /\ staged' \subseteq staged /\ durable \subseteq durable'
      /\ durable' \subseteq durable \cup Returned(WorkAt(n, staged))
      /\ faulted \subseteq faulted' /\ faulted' \subseteq 0 .. MaxTxn
      /\ \A w \in Returned(staged') : w.node # n \/ w.txn \in faulted'
      /\ errors' \in BOOLEAN /\ (errors' => errors \/ txn \in faulted')
  <2>1. CASE /\ staged' = staged \ WorkAt(n, staged)
             /\ durable' = durable \cup {w \in Returned(WorkAt(n, staged)) : w.txn > 0}
             /\ UNCHANGED <<errors, faulted>>
    BY <2>1 DEF WorkAt, TypeOK
  <2>2. CASE /\ UNCHANGED <<staged, durable>>
             /\ faulted' = faulted \cup {w.txn : w \in Returned(WorkAt(n, staged))}
                            \cup {txn}
             /\ errors' = TRUE
    <3>1. {w.txn : w \in Returned(WorkAt(n, staged))} \subseteq 0 .. MaxTxn
      BY DEF WorkAt, TypeOK, Work
    <3> QED BY <1>3, <2>2, <3>1 DEF WorkAt, TypeOK
  <2> QED BY <1>4, <2>1, <2>2
<1>6. TypeOK'
  BY <1>1, <1>2, <1>5 DEF TypeOK, client, WorkAt
<1>7. Control'
  BY <1>1, <1>5 DEF Control, client, Loops
<1>8. OneMarkPerNode' /\ MarksAreKnown' /\ ClosedMeansUnmarked'
  BY <1>1, <1>2 DEF OneMarkPerNode, MarksAreKnown, ClosedMeansUnmarked,
                    CommitMarks, RollbackMarks, client
<1>9. Serial'
  BY <1>1, <1>5 DEF Serial, WorkAt
<1>10. RegisteredIsMarked'
  BY <1>1, <1>2, <1>5 DEF RegisteredIsMarked, CommitMarks
<1>11. WorkIsMarked'
  BY <1>1, <1>2, <1>5 DEF WorkIsMarked, RollbackMarks
<1>12. SupersededStaysUndone'
  BY <1>1, <1>2, <1>5 DEF SupersededStaysUndone, WorkIsMarked, WorkAt
<1>13. RolledBackStaysUndone'
  BY <1>1, <1>5 DEF RolledBackStaysUndone, RegisteredIsMarked, Control, WorkAt
<1>14. PermanentOnlyInCommit'
  BY <1>1, <1>5 DEF PermanentOnlyInCommit, client
<1> QED BY <1>6, <1>7, <1>8, <1>9, <1>10, <1>11, <1>12, <1>13, <1>14

\* A node of either vector is rolled back, or throws: PrivateRollback's loops.
LEMMA RollbackNodeStep ==
  ASSUME IInv, RollbackCommitNode \/ RollbackNode
  PROVE  IInv'
<1> USE DEF IInv
<1>1. PICK n \in Node :
        /\ insideTransaction /\ ~errors
        /\ UNCHANGED <<client, insideTransaction, autoCommittedNodes, control,
                       txn, aborted, conflicted>>
        /\ NodeRollsBack(n, staged) \/ NodeThrows(n, staged)
        /\ pendingCommitNodes' \in Seq(Node)
        /\ pendingRollbackNodes' \in Seq(Node)
        /\ CommitMarks' \subseteq CommitMarks
        /\ RollbackMarks' \subseteq RollbackMarks
        /\ CommitMarks \subseteq {n} \cup CommitMarks'
        /\ RollbackMarks \subseteq {n} \cup RollbackMarks'
        /\ OneMarkPerNode'
        /\ pendingCommitNodes = <<>> => pendingCommitNodes' = <<>>
  <2> USE DEF CommitMarks, RollbackMarks, OneMarkPerNode, control
  <2>1. CASE RollbackCommitNode
    BY <2>1, TailToSet, TailInjective DEF RollbackCommitNode, TypeOK, Control,
                                          Loops
  <2>2. CASE RollbackNode
    <3>1. /\ pendingRollbackNodes \in Seq(Node) /\ pendingRollbackNodes # <<>>
          /\ pendingRollbackNodes' = Tail(pendingRollbackNodes)
          /\ UNCHANGED pendingCommitNodes /\ pendingCommitNodes \in Seq(Node)
      BY <2>2 DEF RollbackNode, TypeOK
    <3>2. insideTransaction /\ ~errors
      BY <2>2 DEF RollbackNode, Control, Loops
    <3>3. /\ Head(pendingRollbackNodes) \in Node
          /\ pendingRollbackNodes' \in Seq(Node)
          /\ RollbackMarks = {Head(pendingRollbackNodes)} \cup RollbackMarks'
          /\ OneMarkPerNode'
      BY <3>1, TailToSet, TailInjective
    <3> QED BY <2>2, <3>1, <3>2, <3>3 DEF RollbackNode
  <2> QED BY <2>1, <2>2
<1>2. txn \in 0 .. MaxTxn /\ CurrentTxn = txn
  BY <1>1 DEF TypeOK, CurrentTxn
<1>3. /\ staged' \subseteq staged /\ durable' = durable
      /\ faulted \subseteq faulted' /\ faulted' \subseteq 0 .. MaxTxn
      /\ \A w \in Returned(staged') : w.node # n \/ w.txn \in faulted'
  <2>1. CASE NodeRollsBack(n, staged)
    BY <2>1 DEF NodeRollsBack, WorkAt, TypeOK
  <2>2. CASE NodeThrows(n, staged)
    BY <1>2, <2>2 DEF NodeThrows, WorkAt, TypeOK, Work
  <2> QED BY <1>1, <2>1, <2>2
<1> USE DEF client, control
<1>4. TypeOK'
  BY <1>1, <1>3 DEF TypeOK
<1>5. Control'
  BY <1>1, <1>3 DEF Control, Loops
<1>6. Serial' /\ MarksAreKnown' /\ ClosedMeansUnmarked'
  BY <1>1, <1>3 DEF Serial, MarksAreKnown, ClosedMeansUnmarked
<1>7. RegisteredIsMarked'
  BY <1>1, <1>3 DEF RegisteredIsMarked, CommitMarks, RollbackMarks
<1>8. WorkIsMarked'
  BY <1>1, <1>3 DEF WorkIsMarked
<1>9. SupersededStaysUndone' /\ RolledBackStaysUndone'
  BY <1>1, <1>3 DEF SupersededStaysUndone, RolledBackStaysUndone
<1>10. PermanentOnlyInCommit'
  BY <1>1, <1>3 DEF PermanentOnlyInCommit
<1> QED BY <1>1, <1>4, <1>5, <1>6, <1>7, <1>8, <1>9, <1>10

\* The end of Commit: what is still registered was not decided by its node.
LEMMA CommitCompleteStep ==
  ASSUME IInv, CommitComplete
  PROVE  IInv'
<1> USE DEF IInv
<1>1. /\ pendingCommitNodes = <<>> /\ pendingRollbackNodes = <<>>
      /\ autoCommittedNodes' = <<>> /\ ~insideTransaction' /\ call' = "none"
      /\ insideTransaction' \in BOOLEAN
      /\ initialized /\ stack = <<>> /\ ~errors /\ resume = "return"
      /\ UNCHANGED <<client, pendingCommitNodes, pendingRollbackNodes, resume,
                     stack, errors, world, history>>
  BY DEF CommitComplete, Control, Loops
<1> USE DEF client, world, history
<1>2. <<>> \in Seq(Node) /\ ToSet(<<>>) = {}
  BY EmptyToSet
<1>3. TypeOK'
  BY <1>1, <1>2 DEF TypeOK
<1>4. Control'
  BY <1>1 DEF Control, Loops
<1>5. Serial' /\ OneMarkPerNode' /\ ClosedMeansUnmarked' /\ MarksAreKnown'
  BY <1>1 DEF Serial, OneMarkPerNode, ClosedMeansUnmarked, MarksAreKnown,
              CommitMarks, RollbackMarks
<1>6. RegisteredIsMarked'
  BY <1>1, <1>2 DEF RegisteredIsMarked
<1>7. /\ WorkIsMarked' /\ SupersededStaysUndone'
      /\ RolledBackStaysUndone' /\ PermanentOnlyInCommit'
  BY <1>1 DEF WorkIsMarked, SupersededStaysUndone, CommitMarks, RollbackMarks,
              RolledBackStaysUndone, PermanentOnlyInCommit
<1> QED BY <1>3, <1>4, <1>5, <1>6, <1>7

\* The end of PrivateRollback: nothing of its transaction is permanent, unless
\* a node failed to decide.
LEMMA RollbackCompleteStep ==
  ASSUME IInv, RollbackComplete
  PROVE  IInv'
<1> USE DEF IInv
<1>1. /\ pendingCommitNodes = <<>> /\ pendingRollbackNodes = <<>>
      /\ autoCommittedNodes' = <<>> /\ call = "rollback"
      /\ initialized /\ stack = <<>> /\ ~errors /\ insideTransaction
      /\ aborted' = aborted \cup {txn}
      /\ UNCHANGED <<client, pendingCommitNodes, pendingRollbackNodes, stack,
                     errors, world, conflicted, faulted>>
  BY DEF RollbackComplete, RollbackCloses, Control, Loops, world
<1>2. \/ insideTransaction' = FALSE /\ txn' = txn
      \/ /\ insideTransaction' = TRUE /\ txn' = txn + 1 /\ txn < MaxTxn
         /\ call' = "none" /\ resume' = "return"
  BY ConstantsAssumption DEF RollbackComplete, StartTransaction, Control
<1>3. \/ call' = "parse" /\ resume' = resume /\ resume \in Config
         /\ ~insideTransaction'
      \/ call' = "none" /\ resume' = "return"
  BY <1>2, ConstantsAssumption DEF RollbackComplete, StartTransaction
<1>4. txn \in 0 .. MaxTxn /\ txn' \in 0 .. MaxTxn /\ txn <= txn' /\ txn \in Nat
  BY <1>2, ConstantsAssumption DEF TypeOK
<1> USE DEF client, world
<1>5. <<>> \in Seq(Node) /\ ToSet(<<>>) = {}
  BY EmptyToSet
<1>6. TypeOK'
  BY <1>1, <1>2, <1>3, <1>4, <1>5 DEF TypeOK
<1>7. Serial' /\ (insideTransaction' => txn' = txn + 1)
  BY <1>1, <1>2, <1>4 DEF Serial, TypeOK, Work
<1>8. Control'
  <2>1. insideTransaction' => txn' \notin aborted'
    BY <1>1, <1>4, <1>7 DEF Serial
  <2>2. resume' # "begin"
    BY <1>3, ConstantsAssumption
  <2> QED BY <1>1, <1>3, <2>1, <2>2 DEF Control, Loops
<1>9. OneMarkPerNode' /\ ClosedMeansUnmarked' /\ MarksAreKnown'
  BY <1>1 DEF OneMarkPerNode, ClosedMeansUnmarked, MarksAreKnown,
              CommitMarks, RollbackMarks
<1>10. RegisteredIsMarked'
  BY <1>1, <1>5 DEF RegisteredIsMarked
<1>11. WorkIsMarked' /\ SupersededStaysUndone'
  BY <1>1 DEF WorkIsMarked, SupersededStaysUndone, CommitMarks, RollbackMarks
<1>12. RolledBackStaysUndone'
  BY <1>1 DEF RolledBackStaysUndone, PermanentOnlyInCommit
<1>13. PermanentOnlyInCommit'
  BY <1>1, <1>4, <1>7 DEF PermanentOnlyInCommit, Serial, TypeOK, Work
<1> QED BY <1>6, <1>7, <1>8, <1>9, <1>10, <1>11, <1>12, <1>13

\* A new client takes the place of one that is destroyed.
LEMMA NewClientStep ==
  ASSUME IInv, NewClient, call' = "none", resume' = "return", stack' = <<>>,
         errors' = FALSE,
         UNCHANGED <<durable, txn, conflicted, faulted>>,
         \/ aborted' = aborted
         \/ /\ aborted' = aborted \cup {txn}
            /\ call = "rollback" /\ insideTransaction
  PROVE  IInv'
<1> USE DEF IInv, NewClient
<1>1. <<>> \in Seq(Node) /\ <<>> \in Seq(nodes') /\ ToSet(<<>>) = {}
      /\ IsInjective(<<>>)
  BY EmptyToSet
<1>2. TypeOK'
  BY <1>1 DEF TypeOK
<1>3. Control'
  BY <1>1 DEF Control, Loops
<1>4. Serial' /\ OneMarkPerNode' /\ ClosedMeansUnmarked' /\ MarksAreKnown'
  BY <1>1 DEF Serial, OneMarkPerNode, ClosedMeansUnmarked, MarksAreKnown
<1>5. /\ RegisteredIsMarked' /\ WorkIsMarked' /\ SupersededStaysUndone'
      /\ PermanentOnlyInCommit'
  BY DEF RegisteredIsMarked, WorkIsMarked, SupersededStaysUndone,
         PermanentOnlyInCommit
<1>6. RolledBackStaysUndone'
  BY DEF RolledBackStaysUndone, PermanentOnlyInCommit
<1> QED BY <1>2, <1>3, <1>4, <1>5, <1>6

\* The client is destroyed, or a closing is interrupted: nothing of the
\* transaction is permanent, because the configuration it used is gone.
LEMMA LeaveStep ==
  ASSUME IInv, Destroy \/ DestroyComplete \/ UnknownNode
  PROVE  IInv'
<1> USE DEF IInv
<1>1. CASE Destroy \/ DestroyComplete
  <2>1. NewClient /\ call' = "none" /\ resume' = "return" /\ stack' = <<>>
        /\ UNCHANGED <<durable, txn, conflicted, faulted>> /\ ~errors'
        /\ errors' \in BOOLEAN
    BY <1>1 DEF Destroy, DestroyComplete, RollbackCloses, Control, control,
                history, TypeOK
  <2>2. aborted' = aborted \/ (aborted' = aborted \cup {txn}
          /\ call = "rollback" /\ insideTransaction)
    BY <1>1 DEF Destroy, DestroyComplete, RollbackCloses, history, Control,
                Loops
  <2> QED BY <2>1, <2>2, EmptyToSet, NewClientStep
<1>2. CASE UnknownNode /\ resume = "destroy"
  <2>1. NewClient /\ call' = "none" /\ resume' = "return" /\ stack' = <<>>
        /\ UNCHANGED <<durable, txn, conflicted, faulted, aborted>> /\ ~errors'
        /\ errors' \in BOOLEAN
    BY <1>2 DEF UnknownNode, Control, history
  <2> QED BY <2>1, NewClientStep
<1>3. CASE UnknownNode /\ resume # "destroy"
  <2>1. /\ call' = "none" /\ resume' = "return" /\ errors' = FALSE
        /\ insideTransaction /\ initialized /\ stack = <<>>
        /\ UNCHANGED <<client, insideTransaction, lists, staged, stack,
                       durable, history>>
    BY <1>3 DEF UnknownNode, Control, Loops
  <2>2. nodes = {}
    BY <1>3, TailToSet DEF UnknownNode, MarksAreKnown, CommitMarks,
                           RollbackMarks, TypeOK
  <2> USE DEF client, lists, history
  <2>3. TypeOK' /\ Control'
    BY <2>1 DEF TypeOK, Control, Loops
  <2>4. Serial' /\ OneMarkPerNode' /\ ClosedMeansUnmarked' /\ MarksAreKnown'
    BY <2>1 DEF Serial, OneMarkPerNode, ClosedMeansUnmarked, MarksAreKnown,
                CommitMarks, RollbackMarks
  <2>5. RegisteredIsMarked' /\ WorkIsMarked'
    BY <2>1 DEF RegisteredIsMarked, WorkIsMarked, CommitMarks, RollbackMarks
  <2>6. SupersededStaysUndone' /\ RolledBackStaysUndone'
    BY <2>1 DEF SupersededStaysUndone, RolledBackStaysUndone
  <2>7. PermanentOnlyInCommit'
    BY <2>1, <2>2 DEF PermanentOnlyInCommit
  <2> QED BY <2>3, <2>4, <2>5, <2>6, <2>7
<1> QED BY <1>1, <1>2, <1>3
-----------------------------------------------------------------------------
\* Every step of the client preserves the invariant.
LEMMA Inductive == IInv /\ [Next]_vars => IInv'
<1> SUFFICES ASSUME IInv, [Next]_vars PROVE IInv'
  OBVIOUS
<1>1. CASE \E c \in Config : InitializeUnchanged(c) \/ InitializeFirst(c)
                               \/ Reinitialize(c)
  BY <1>1, InitializeStep
<1>2. CASE ParseSucceeds \/ ParseFails
  BY <1>2, ParseStep
<1>3. CASE VisitThrows \/ \E n \in Node : Request(n) \/ Forward(n)
  <2>1. CASE \E n \in Node : Request(n) \/ Forward(n)
    BY <2>1, RequestStep
  <2>2. CASE VisitThrows
    BY <2>2, ThrowStep
  <2> QED BY <1>3, <2>1, <2>2
<1>4. CASE HandleResult
  <2>1. PICK ok \in BOOLEAN :
          \/ AutoCommit(ok)
          \/ \E work \in VisitWork(ok) :
               \/ DecideAtOnce(ok, work)
               \/ ok /\ MarkForCommit(work)
               \/ ~ok /\ MarkForRollback(work)
               \/ MarkConflicts(ok, work)
    BY <1>4 DEF HandleResult
  <2> QED BY <2>1, AutoCommitStep, DecideAtOnceStep, MarkStep
<1>5. CASE BeginTransaction
  BY <1>5, BeginStep
<1>6. CASE \/ Commit \/ CommitPartial \/ CommitRollbacks \/ RollbackRollbacks
           \/ \E next \in {"return", "begin", "destroy"} : Rollback(next)
  BY <1>6, CallStep
<1>7. CASE CommitNode
  BY <1>7, CommitNodeStep
<1>8. CASE RollbackCommitNode \/ RollbackNode
  BY <1>8, RollbackNodeStep
<1>9. CASE CommitComplete \/ RollbackComplete
  BY <1>9, CommitCompleteStep, RollbackCompleteStep
<1>10. CASE Destroy \/ DestroyComplete \/ UnknownNode
  BY <1>10, LeaveStep
<1>11. CASE UNCHANGED vars
  <2> USE <1>11 DEF vars, client, lists, control, world, history, IInv
  <2>1. TypeOK' /\ Control'
    BY DEF TypeOK, Control
  <2>2. OneMarkPerNode' /\ ClosedMeansUnmarked' /\ Serial' /\ MarksAreKnown'
    BY DEF OneMarkPerNode, ClosedMeansUnmarked, Serial, MarksAreKnown,
           CommitMarks, RollbackMarks
  <2>3. RegisteredIsMarked' /\ WorkIsMarked'
    BY DEF RegisteredIsMarked, WorkIsMarked, CommitMarks, RollbackMarks
  <2>4. /\ SupersededStaysUndone' /\ PermanentOnlyInCommit'
        /\ RolledBackStaysUndone'
    BY DEF SupersededStaysUndone, PermanentOnlyInCommit, RolledBackStaysUndone
  <2> QED BY <2>1, <2>2, <2>3, <2>4
<1> QED BY <1>1, <1>2, <1>3, <1>4, <1>5, <1>6, <1>7, <1>8, <1>9, <1>10, <1>11
        DEF Next, ClosingStep

\* The inductive invariant holds of every behaviour, for every set of nodes,
\* of configurations and of forwards, and any number of transactions.
THEOREM Invariance == Spec => []IInv
BY Initially, Inductive, PTL DEF Spec

\* The client's members keep their types.
THEOREM TypeCorrect == Spec => []TypeOK
BY Invariance, PTL DEF IInv

\* HandleResult never leaves a node marked for commit and for rollback, nor
\* marked twice, so that Commit and PrivateRollback decide each node once.
THEOREM OneMarkPerNodeHolds == Spec => []OneMarkPerNode
BY Invariance, PTL DEF IInv

\* No Commit, Rollback or Initialize leaves marks for the next transaction.
THEOREM ClosedMeansUnmarkedHolds == Spec => []ClosedMeansUnmarked
BY Invariance, PTL DEF IInv

\* What a node has registered is in the list of a transaction that is open,
\* unless the node failed to decide it.
THEOREM RegisteredIsMarkedHolds == Spec => []RegisteredIsMarked
BY Invariance, PTL DEF IInv

\* No node commits work of a transaction that was rolled back, unless a node
\* failed to decide.
THEOREM RolledBackStaysUndoneHolds == Spec => []RolledBackStaysUndone
BY Invariance, PTL DEF IInv

\* No node commits the work of a visit that was forwarded because it failed,
\* unless a node failed to decide or marks conflicted.
THEOREM SupersededStaysUndoneHolds == Spec => []SupersededStaysUndone
BY Invariance, PTL DEF IInv
-----------------------------------------------------------------------------
\* What is true of a step of HandleResult outside a transaction.
LEMMA DecideAtOnceDecides ==
  ASSUME IInv, NEW ok \in BOOLEAN, NEW work \in VisitWork(ok),
         DecideAtOnce(ok, work)
  PROVE  /\ \A w \in Returned(staged) : w.txn \in faulted
         /\ \A w \in durable' \ durable : w.txn \in faulted
<1> USE DEF IInv
<1>1. VisitReturns(ok, work) /\ ~insideTransaction
  BY DEF DecideAtOnce
<1>2. \A w \in Returned(staged) : w.txn \in faulted
  BY <1>1 DEF RegisteredIsMarked
<1>3. work \subseteq Work /\ \A w \in work \ staged : w.txn = CurrentTxn
  BY <1>1, VisitEnds
<1>4. CurrentTxn = 0
  BY <1>1 DEF CurrentTxn
<1>5. \A w \in durable' \ durable : w \in Returned(work) /\ w.txn > 0
  BY DEF DecideAtOnce, NodeCommits, NodeRollsBack, NodeThrows, WorkAt
<1>6. \A w \in durable' \ durable : w \in Returned(staged)
  BY <1>3, <1>4, <1>5 DEF Work
<1> QED BY <1>2, <1>6

\* What the other steps leave alone.
LEMMA DurableSteps ==
  ASSUME Next, ~HandleResult, ~CommitNode
  PROVE  UNCHANGED durable
BY DEF Next, ClosingStep, InitializeUnchanged, InitializeFirst, Reinitialize,
       ParseSucceeds, ParseFails, EndInitialize, Request, Forward, VisitThrows,
       BeginTransaction, Commit, Rollback, Destroy, UnknownNode, CommitPartial,
       CommitRollbacks, RollbackCommitNode, RollbackRollbacks, RollbackNode,
       CommitComplete, RollbackComplete, DestroyComplete, RollbackCloses,
       NodeRollsBack, NodeThrows, world

\* Every step that makes the work of a transaction durable is one of Commit's.
LEMMA OnlyCommitStep == IInv /\ [Next]_vars => [CommitsOnlyInCommit]_vars
<1> SUFFICES ASSUME IInv, Next PROVE CommitsOnlyInCommit
  OBVIOUS
<1>1. CASE HandleResult
  <2>1. PICK ok \in BOOLEAN :
          \/ AutoCommit(ok)
          \/ \E work \in VisitWork(ok) :
               \/ DecideAtOnce(ok, work)
               \/ ok /\ MarkForCommit(work)
               \/ ~ok /\ MarkForRollback(work)
               \/ MarkConflicts(ok, work)
    BY <1>1 DEF HandleResult
  <2>2. CASE UNCHANGED durable
    BY <2>2 DEF CommitsOnlyInCommit
  <2>3. CASE \E work \in VisitWork(ok) : DecideAtOnce(ok, work)
    BY <2>3, DecideAtOnceDecides DEF CommitsOnlyInCommit
  <2> QED BY <2>1, <2>2, <2>3
          DEF AutoCommit, MarkForCommit, MarkForRollback, MarkConflicts, world
<1>2. CASE CommitNode
  <2>1. durable' \ durable \subseteq Returned(staged) /\ call = "commit"
    BY <1>2 DEF CommitNode, NodeCommits, NodeThrows, WorkAt
  <2> QED BY <2>1 DEF CommitsOnlyInCommit, IInv, RegisteredIsMarked
<1>3. CASE ~HandleResult /\ ~CommitNode
  BY <1>3, DurableSteps DEF CommitsOnlyInCommit
<1> QED BY <1>1, <1>2, <1>3

\* Only Commit makes the work of a transaction permanent.
THEOREM OnlyCommitCommitsHolds == Spec => OnlyCommitCommits
BY Invariance, OnlyCommitStep, PTL DEF Spec, OnlyCommitCommits

\* A node called by the first loop of Commit keeps what it drops.
LEMMA SuccessStep == IInv /\ [Next]_vars => [DropsNoSuccess]_vars
<1> SUFFICES ASSUME IInv, Next PROVE DropsNoSuccess
  OBVIOUS
<1>1. CASE Returned(staged) \subseteq staged' \/ nodes' = {} \/ call = "rollbackCommits"
  BY <1>1 DEF DropsNoSuccess
<1>2. CASE HandleResult /\ ~(staged \subseteq staged')
  <2>1. PICK ok \in BOOLEAN :
          \/ AutoCommit(ok)
          \/ \E work \in VisitWork(ok) :
               \/ DecideAtOnce(ok, work)
               \/ staged' = work
    BY <1>2 DEF HandleResult, MarkForCommit, MarkForRollback, MarkConflicts
  <2>2. CASE \E work \in VisitWork(ok) : DecideAtOnce(ok, work)
    BY <2>2, DecideAtOnceDecides DEF DropsNoSuccess
  <2> QED BY <1>2, <2>1, <2>2 DEF AutoCommit, VisitWork, world
<1>3. CASE CommitNode
  <2>1. \A w \in Returned(staged) \ staged' : w.txn > 0 => w \in durable'
    BY <1>3 DEF CommitNode, NodeCommits, NodeThrows, WorkAt
  <2>2. \A w \in staged : w.txn > 0 \/ w.txn = 0
    BY DEF IInv, TypeOK, Work
  <2> QED BY <2>1, <2>2 DEF DropsNoSuccess
<1>4. CASE RollbackNode
  <2>1. pendingCommitNodes = <<>>
    BY <1>4 DEF RollbackNode, IInv, Control
  <2>2. \A w \in staged : w.visit # "succeeded" \/ w.txn \in faulted \cup conflicted
    BY <2>1, EmptyToSet DEF IInv, WorkIsMarked, CommitMarks
  <2> QED BY <2>2 DEF DropsNoSuccess
<1>5. CASE ~HandleResult /\ ~CommitNode /\ ~RollbackNode
  <2>1. staged \subseteq staged' \/ nodes' = {} \/ call = "rollbackCommits"
    BY <1>5 DEF Next, ClosingStep, InitializeUnchanged, InitializeFirst,
         Reinitialize, ParseSucceeds, ParseFails, EndInitialize, Request,
         Forward, VisitThrows, BeginTransaction, Commit, Rollback, Destroy,
         UnknownNode, CommitPartial, CommitRollbacks, RollbackCommitNode,
         RollbackRollbacks, CommitComplete, RollbackComplete, DestroyComplete,
         NewClient, world
  <2> QED BY <1>1, <2>1
<1> QED BY <1>1, <1>2, <1>3, <1>4, <1>5

\* Commit never drops the work of a visit that succeeded.
THEOREM SuccessIsKeptHolds == Spec => SuccessIsKept
BY Invariance, SuccessStep, PTL DEF Spec, SuccessIsKept
-----------------------------------------------------------------------------
(* The refinement.  What TransactionProtocol sees of a state is PhaseNow and *)
(* MarkNow; its actions are restated for them once, so that each step of the *)
(* client is left with what it does to the call and to the two vectors.      *)

PhaseNow ==
  IF ~insideTransaction THEN "closed"
  ELSE IF call \in {"commit", "commitRollbacks"} THEN "committing"
  ELSE IF call \in {"rollbackCommits", "rollback"} THEN "rollingBack"
  ELSE "open"

MarkNow ==
  [n \in Node |-> IF n \in ToSet(pendingCommitNodes) THEN "commit"
                  ELSE IF n \in ToSet(pendingRollbackNodes) THEN "rollback"
                  ELSE "none"]

\* The steps of TransactionProtocol, and that it takes none.
LEMMA ProtocolSteps ==
  /\ PhaseNow' = PhaseNow /\ MarkNow' = MarkNow => UNCHANGED Protocol!vars
  /\ PhaseNow = "closed" /\ PhaseNow' = "open" /\ MarkNow' = MarkNow => Protocol!Next
  /\ PhaseNow = "open" /\ PhaseNow' \in {"committing", "rollingBack"}
       /\ MarkNow' = MarkNow => Protocol!Next
  /\ PhaseNow \in {"committing", "rollingBack"} /\ PhaseNow' = "open"
       /\ MarkNow' = MarkNow => Protocol!Next
  /\ \/ PhaseNow = "committing" /\ PhaseNow' = "closed"
     \/ PhaseNow = "rollingBack" /\ PhaseNow' \in {"closed", "open"}
     => (MarkNow = [n \in Node |-> "none"] /\ MarkNow' = MarkNow => Protocol!Next)
  /\ PhaseNow = "rollingBack" /\ PhaseNow' = "closed" /\ MarkNow' = [n \in Node |-> "none"]
       => Protocol!Next
<1> USE DEF Protocol!Next
<1>1. PhaseNow' = PhaseNow /\ MarkNow' = MarkNow => UNCHANGED Protocol!vars
  BY DEF Protocol!vars, PhaseNow, MarkNow
<1>2. PhaseNow = "closed" /\ PhaseNow' = "open" /\ MarkNow' = MarkNow => Protocol!Begin
  BY DEF Protocol!Begin, PhaseNow, MarkNow
<1>3. PhaseNow = "open" /\ MarkNow' = MarkNow =>
        /\ PhaseNow' = "committing" => Protocol!Start("committing")
        /\ PhaseNow' = "rollingBack" => Protocol!Start("rollingBack")
  BY DEF Protocol!Start, PhaseNow, MarkNow
<1>4. PhaseNow \in {"committing", "rollingBack"} /\ PhaseNow' = "open"
        /\ MarkNow' = MarkNow => Protocol!Interrupt
  BY DEF Protocol!Interrupt, PhaseNow, MarkNow
<1>5. \/ PhaseNow = "committing" /\ PhaseNow' = "closed"
      \/ PhaseNow = "rollingBack" /\ PhaseNow' \in {"closed", "open"}
      => (MarkNow = [n \in Node |-> "none"] /\ MarkNow' = MarkNow => Protocol!Close)
  BY DEF Protocol!Close, Protocol!Unmarked, PhaseNow, MarkNow
<1>6. PhaseNow = "rollingBack" /\ PhaseNow' = "closed" /\ MarkNow' = [n \in Node |-> "none"]
        => Protocol!Terminate
  BY DEF Protocol!Terminate, Protocol!Unmarked, PhaseNow, MarkNow
<1>7. /\ Protocol!Begin => Protocol!Next
      /\ Protocol!Start("committing") => Protocol!Next
      /\ Protocol!Start("rollingBack") => Protocol!Next
      /\ Protocol!Interrupt => Protocol!Next
      /\ Protocol!Close => Protocol!Next
      /\ Protocol!Terminate => Protocol!Next
  BY Zenon
<1> HIDE DEF Protocol!Next
<1> QED BY <1>1, <1>2, <1>3, <1>4, <1>5, <1>6, <1>7

\* Its steps for one node.
LEMMA ProtocolNodeSteps ==
  ASSUME NEW n \in Node
  PROVE  /\ \A kind \in {"commit", "rollback"} :
              /\ PhaseNow = "open" /\ PhaseNow' = PhaseNow /\ MarkNow[n] = "none"
              /\ MarkNow' = [MarkNow EXCEPT ![n] = kind]
              => Protocol!Next
         /\ /\ PhaseNow \in {"committing", "rollingBack"} /\ PhaseNow' = PhaseNow
            /\ \/ MarkNow[n] = "commit"
               \/ MarkNow[n] = "rollback" /\ CommitMarks = {}
            /\ MarkNow' = [MarkNow EXCEPT ![n] = "none"]
            => Protocol!Next
<1>1. \A kind : Protocol!Mark(n, kind) <=>
        /\ PhaseNow = "open" /\ PhaseNow' = PhaseNow /\ MarkNow[n] = "none"
        /\ MarkNow' = [MarkNow EXCEPT ![n] = kind]
  BY DEF Protocol!Mark, PhaseNow, MarkNow
<1>2. CommitMarks = {} => Protocol!Marked("commit") = {}
  BY DEF Protocol!Marked, CommitMarks
<1>3. ASSUME /\ PhaseNow \in {"committing", "rollingBack"} /\ PhaseNow' = PhaseNow
             /\ \/ MarkNow[n] = "commit"
                \/ MarkNow[n] = "rollback" /\ Protocol!Marked("commit") = {}
             /\ MarkNow' = [MarkNow EXCEPT ![n] = "none"]
      PROVE  Protocol!CarryOut(n)
  BY <1>3 DEF Protocol!CarryOut, PhaseNow, MarkNow
<1> QED BY <1>1, <1>2, <1>3 DEF Protocol!Next

\* What a change of the two vectors is to the marks.
LEMMA MarkChanges ==
  ASSUME NEW n \in Node
  PROVE  /\ CommitMarks' = CommitMarks /\ RollbackMarks' = RollbackMarks => MarkNow' = MarkNow
         /\ CommitMarks' = CommitMarks \cup {n} /\ RollbackMarks' = RollbackMarks =>
              MarkNow' = [MarkNow EXCEPT ![n] = "commit"]
         /\ /\ RollbackMarks' = RollbackMarks \cup {n} /\ CommitMarks' = CommitMarks
            /\ n \notin CommitMarks
            => MarkNow' = [MarkNow EXCEPT ![n] = "rollback"]
         /\ /\ CommitMarks' = CommitMarks \ {n} /\ RollbackMarks' = RollbackMarks \ {n}
            => MarkNow' = [MarkNow EXCEPT ![n] = "none"]
         /\ MarkNow[n] = IF n \in CommitMarks THEN "commit"
                         ELSE IF n \in RollbackMarks THEN "rollback" ELSE "none"
BY DEF MarkNow, CommitMarks, RollbackMarks

LEMMA NoMarks ==
  ASSUME pendingCommitNodes = <<>>, pendingRollbackNodes = <<>>
  PROVE  MarkNow = [n \in Node |-> "none"]
BY EmptyToSet DEF MarkNow

\* The vectors are as they were.
LEMMA SameMarks ==
  ASSUME UNCHANGED <<pendingCommitNodes, pendingRollbackNodes>>
  PROVE  MarkNow' = MarkNow
BY DEF MarkNow

LEMMA InitRefines == Init => Protocol!Init
<1> SUFFICES ASSUME Init PROVE Protocol!Init
  OBVIOUS
<1>1. PhaseNow = "closed" /\ MarkNow = [n \in Node |-> "none"]
  BY NoMarks DEF Init, PhaseNow
<1> QED BY <1>1 DEF Protocol!Init, Protocol!Unmarked, PhaseNow, MarkNow

\* A visit marks its node, if at all.
LEMMA ResultRefines ==
  ASSUME IInv, HandleResult
  PROVE  [Protocol!Next]_(Protocol!vars)
<1> USE DEF IInv
<1>1. PICK ok \in BOOLEAN :
        \/ AutoCommit(ok)
        \/ \E work \in VisitWork(ok) :
             \/ DecideAtOnce(ok, work)
             \/ ok /\ MarkForCommit(work)
             \/ ~ok /\ MarkForRollback(work)
             \/ MarkConflicts(ok, work)
  BY DEF HandleResult
<1>2. call = "request" /\ call' \in {"none", "request"} /\ UNCHANGED insideTransaction
  BY <1>1 DEF AutoCommit, DecideAtOnce, MarkForCommit, MarkForRollback, MarkConflicts,
              VisitReturns, LeaveVisit
<1>3. PhaseNow' = PhaseNow /\ (insideTransaction => PhaseNow = "open")
  BY <1>2 DEF PhaseNow
<1>4. CASE UNCHANGED <<pendingCommitNodes, pendingRollbackNodes>>
  BY <1>3, <1>4, SameMarks, ProtocolSteps
<1>5. CASE ok /\ \E work \in VisitWork(ok) : MarkForCommit(work)
  <2>1. /\ insideTransaction /\ Top \notin RollbackMarks
        /\ pendingCommitNodes' = AddIfAbsent(Top, pendingCommitNodes)
        /\ UNCHANGED pendingRollbackNodes
        /\ \E work \in VisitWork(TRUE) : VisitReturns(TRUE, work)
    BY <1>5 DEF MarkForCommit, RollbackMarks
  <2>2. Top \in Node
    BY <2>1, VisitEnds
  <2>3. CommitMarks' = CommitMarks \cup {Top} /\ RollbackMarks' = RollbackMarks
    BY <2>1, <2>2, Marked DEF CommitMarks, RollbackMarks, TypeOK
  <2>4. CASE Top \in CommitMarks
    <3>1. MarkNow' = MarkNow
      BY <2>2, <2>3, <2>4, MarkChanges
    <3> QED BY <1>3, <3>1, ProtocolSteps
  <2>5. CASE Top \notin CommitMarks
    <3>1. MarkNow[Top] = "none" /\ MarkNow' = [MarkNow EXCEPT ![Top] = "commit"]
      BY <2>1, <2>2, <2>3, <2>5, MarkChanges
    <3> QED BY <1>3, <2>1, <2>2, <3>1, ProtocolNodeSteps
  <2> QED BY <2>4, <2>5
<1>6. CASE ~ok /\ \E work \in VisitWork(ok) : MarkForRollback(work)
  <2>1. /\ insideTransaction /\ Top \notin CommitMarks
        /\ pendingRollbackNodes' = AddIfAbsent(Top, pendingRollbackNodes)
        /\ UNCHANGED pendingCommitNodes
        /\ \E work \in VisitWork(FALSE) : VisitReturns(FALSE, work)
    BY <1>6 DEF MarkForRollback, CommitMarks
  <2>2. Top \in Node
    BY <2>1, VisitEnds
  <2>3. RollbackMarks' = RollbackMarks \cup {Top} /\ CommitMarks' = CommitMarks
    BY <2>1, <2>2, Marked DEF CommitMarks, RollbackMarks, TypeOK
  <2>4. CASE Top \in RollbackMarks
    <3>1. MarkNow' = MarkNow
      BY <2>2, <2>3, <2>4, MarkChanges
    <3> QED BY <1>3, <3>1, ProtocolSteps
  <2>5. CASE Top \notin RollbackMarks
    <3>1. MarkNow[Top] = "none" /\ MarkNow' = [MarkNow EXCEPT ![Top] = "rollback"]
      BY <2>1, <2>2, <2>3, <2>5, MarkChanges
    <3> QED BY <1>3, <2>1, <2>2, <3>1, ProtocolNodeSteps
  <2> QED BY <2>4, <2>5
<1> QED BY <1>1, <1>4, <1>5, <1>6
        DEF AutoCommit, DecideAtOnce, MarkConflicts, lists

\* One node of a loop of Commit or PrivateRollback is carried out.
LEMMA LoopRefines ==
  ASSUME IInv, CommitNode \/ RollbackCommitNode \/ RollbackNode
  PROVE  Protocol!Next
<1> USE DEF IInv
<1>1. /\ insideTransaction /\ UNCHANGED <<insideTransaction, call>>
      /\ PhaseNow \in {"committing", "rollingBack"} /\ PhaseNow' = PhaseNow
  BY DEF CommitNode, RollbackCommitNode, RollbackNode, Control, Loops, PhaseNow, control
<1>2. CASE CommitNode \/ RollbackCommitNode
  <2> DEFINE n == Head(pendingCommitNodes)
  <2>1. /\ pendingCommitNodes # <<>> /\ UNCHANGED pendingRollbackNodes
        /\ pendingCommitNodes' = Tail(pendingCommitNodes)
    BY <1>2 DEF CommitNode, RollbackCommitNode
  <2>2. n \in Node /\ n \in CommitMarks /\ CommitMarks' = CommitMarks \ {n}
    BY <2>1, TailToSet, TailInjective DEF CommitMarks, TypeOK, OneMarkPerNode
  <2>3. RollbackMarks' = RollbackMarks \ {n}
    BY <2>1, <2>2 DEF CommitMarks, RollbackMarks, OneMarkPerNode
  <2>4. MarkNow[n] = "commit" /\ MarkNow' = [MarkNow EXCEPT ![n] = "none"]
    BY <2>2, <2>3, MarkChanges
  <2> QED BY <1>1, <2>2, <2>4, ProtocolNodeSteps
<1>3. CASE RollbackNode
  <2> DEFINE n == Head(pendingRollbackNodes)
  <2>1. /\ pendingRollbackNodes # <<>> /\ pendingCommitNodes = <<>>
        /\ UNCHANGED pendingCommitNodes
        /\ pendingRollbackNodes' = Tail(pendingRollbackNodes)
    BY <1>3 DEF RollbackNode, Control
  <2>2. CommitMarks = {} /\ CommitMarks' = {}
    BY <2>1, EmptyToSet DEF CommitMarks
  <2>3. n \in Node /\ n \in RollbackMarks /\ RollbackMarks' = RollbackMarks \ {n}
    BY <2>1, TailToSet, TailInjective DEF RollbackMarks, TypeOK, OneMarkPerNode
  <2>4. MarkNow[n] = "rollback" /\ MarkNow' = [MarkNow EXCEPT ![n] = "none"]
    BY <2>2, <2>3, MarkChanges
  <2> QED BY <1>1, <2>2, <2>3, <2>4, ProtocolNodeSteps
<1> QED BY <1>2, <1>3

\* The beginning and the end of a transaction, and of the calls that close it.
LEMMA PhaseRefines ==
  ASSUME IInv, NEW next \in {"return", "begin", "destroy"},
         \/ BeginTransaction \/ Commit \/ Rollback(next) \/ CommitPartial
         \/ CommitRollbacks \/ RollbackRollbacks \/ CommitComplete \/ RollbackComplete
         \/ DestroyComplete \/ UnknownNode
  PROVE  [Protocol!Next]_(Protocol!vars)
<1> USE DEF IInv
<1>1. CASE BeginTransaction
  <2>1. PhaseNow = "closed" /\ PhaseNow' = "open" /\ MarkNow' = MarkNow
    BY <1>1, SameMarks DEF BeginTransaction, StartTransaction, PhaseNow, lists, control
  <2> QED BY <2>1, ProtocolSteps
<1>2. CASE Commit \/ Rollback(next)
  <2>1. /\ PhaseNow = "open" /\ PhaseNow' \in {"committing", "rollingBack"}
        /\ MarkNow' = MarkNow
    BY <1>2, SameMarks DEF Commit, Rollback, PhaseNow, lists
  <2> QED BY <2>1, ProtocolSteps
<1>3. CASE CommitPartial
  <2>1. PhaseNow = "committing" /\ PhaseNow' = "open" /\ MarkNow' = MarkNow
    BY <1>3, SameMarks DEF CommitPartial, PhaseNow, lists, Control, Loops
  <2> QED BY <2>1, ProtocolSteps
<1>4. CASE CommitRollbacks \/ RollbackRollbacks
  <2>1. PhaseNow' = PhaseNow /\ MarkNow' = MarkNow
    BY <1>4, SameMarks DEF CommitRollbacks, RollbackRollbacks, PhaseNow, lists
  <2> QED BY <2>1, ProtocolSteps
<1>5. CASE CommitComplete
  <2>1. /\ pendingCommitNodes = <<>> /\ pendingRollbackNodes = <<>>
        /\ UNCHANGED <<pendingCommitNodes, pendingRollbackNodes>>
        /\ PhaseNow = "committing" /\ PhaseNow' = "closed"
    BY <1>5 DEF CommitComplete, PhaseNow, Control, Loops
  <2> QED BY <2>1, NoMarks, SameMarks, ProtocolSteps
<1>6. CASE RollbackComplete \/ DestroyComplete
  <2>1. /\ pendingCommitNodes = <<>> /\ pendingRollbackNodes = <<>>
        /\ UNCHANGED <<pendingCommitNodes, pendingRollbackNodes>>
        /\ insideTransaction /\ call = "rollback"
    BY <1>6 DEF RollbackComplete, DestroyComplete, RollbackCloses, NewClient, Control, Loops
  <2>2. ~insideTransaction' \/ (insideTransaction' /\ call' = "none")
    BY <1>6, ConstantsAssumption DEF RollbackComplete, DestroyComplete, NewClient,
                                     StartTransaction
  <2>3. PhaseNow = "rollingBack" /\ PhaseNow' \in {"closed", "open"}
    BY <2>1, <2>2 DEF PhaseNow
  <2> QED BY <2>1, <2>3, NoMarks, SameMarks, ProtocolSteps
<1>7. CASE UnknownNode
  <2>1. insideTransaction /\ call' = "none" /\ PhaseNow \in {"committing", "rollingBack"}
    BY <1>7 DEF UnknownNode, PhaseNow, Control, Loops
  <2>2. CASE resume = "destroy"
    <3>1. /\ PhaseNow = "rollingBack" /\ PhaseNow' = "closed"
          /\ MarkNow' = [n \in Node |-> "none"]
      <4>1. call \in {"rollbackCommits", "rollback"}
        BY <1>7, <2>2 DEF UnknownNode, Control
      <4>2. /\ insideTransaction' = FALSE /\ pendingCommitNodes' = <<>>
            /\ pendingRollbackNodes' = <<>>
        BY <1>7, <2>2 DEF UnknownNode, NewClient
      <4>3. MarkNow' = [n \in Node |-> "none"]
        BY <4>2, EmptyToSet DEF MarkNow
      <4> QED BY <2>1, <4>1, <4>2, <4>3 DEF PhaseNow
    <3> QED BY <3>1, ProtocolSteps
  <2>3. CASE resume # "destroy"
    <3>1. PhaseNow' = "open" /\ MarkNow' = MarkNow
      BY <1>7, <2>1, <2>3, SameMarks DEF UnknownNode, PhaseNow, lists
    <3> QED BY <2>1, <3>1, ProtocolSteps
  <2> QED BY <2>2, <2>3
<1> QED BY <1>1, <1>2, <1>3, <1>4, <1>5, <1>6, <1>7

\* The steps that no transaction notices, and Initialize, which may roll back.
LEMMA QuietRefines ==
  ASSUME IInv,
         \/ \E c \in Config : InitializeUnchanged(c) \/ InitializeFirst(c) \/ Reinitialize(c)
         \/ ParseSucceeds \/ ParseFails \/ VisitThrows \/ Destroy
         \/ \E n \in Node : Request(n) \/ Forward(n)
  PROVE  [Protocol!Next]_(Protocol!vars)
<1> USE DEF IInv
<1>1. ASSUME UNCHANGED <<insideTransaction, pendingCommitNodes, pendingRollbackNodes>>,
             call \in {"none", "parse", "request"}, call' \in {"none", "parse", "request"}
      PROVE  [Protocol!Next]_(Protocol!vars)
  <2>1. PhaseNow' = PhaseNow
    BY <1>1 DEF PhaseNow
  <2> QED BY <1>1, <2>1, SameMarks, ProtocolSteps
<1>2. ASSUME NEW c \in Config, InitializeUnchanged(c) \/ InitializeFirst(c)
      PROVE  [Protocol!Next]_(Protocol!vars)
  BY <1>1, <1>2 DEF InitializeUnchanged, InitializeFirst, lists, control
<1>3. ASSUME NEW c \in Config, Reinitialize(c)
      PROVE  [Protocol!Next]_(Protocol!vars)
  <2>1. CASE insideTransaction
    <3>1. PhaseNow = "open" /\ PhaseNow' = "rollingBack" /\ MarkNow' = MarkNow
      BY <1>3, <2>1, SameMarks DEF Reinitialize, PhaseNow, lists
    <3> QED BY <3>1, ProtocolSteps
  <2>2. CASE ~insideTransaction
    BY <1>1, <1>3, <2>2 DEF Reinitialize, lists, control
  <2> QED BY <2>1, <2>2
<1>4. CASE Destroy
  <2>1. /\ ~insideTransaction /\ ~insideTransaction'
        /\ UNCHANGED <<pendingCommitNodes, pendingRollbackNodes>>
    BY <1>4 DEF Destroy, NewClient, ClosedMeansUnmarked
  <2>2. PhaseNow' = PhaseNow
    BY <2>1 DEF PhaseNow
  <2> QED BY <2>1, <2>2, SameMarks, ProtocolSteps
<1>5. CASE ParseSucceeds \/ ParseFails \/ VisitThrows
  BY <1>1, <1>5 DEF ParseSucceeds, ParseFails, EndInitialize, VisitThrows, LeaveVisit,
                    lists, control
<1>6. ASSUME NEW n \in Node, Request(n) \/ Forward(n)
      PROVE  [Protocol!Next]_(Protocol!vars)
  BY <1>1, <1>6 DEF Request, Forward, lists, control
<1> QED BY <1>2, <1>3, <1>4, <1>5, <1>6

LEMMA StepRefines == IInv /\ [Next]_vars => [Protocol!Next]_(Protocol!vars)
<1> SUFFICES ASSUME IInv, [Next]_vars PROVE [Protocol!Next]_(Protocol!vars)
  OBVIOUS
<1>1. CASE UNCHANGED vars
  <2>1. PhaseNow' = PhaseNow /\ MarkNow' = MarkNow
    BY <1>1, SameMarks DEF vars, lists, control, PhaseNow
  <2> QED BY <2>1, ProtocolSteps
<1> QED BY <1>1, ResultRefines, LoopRefines, PhaseRefines, QuietRefines DEF Next, ClosingStep

\* The client implements the transaction protocol, for every value of the constants:
\* whatever fails, a commit carries out its commit marks before its rollback marks, a
\* rollback drops them, and no transaction closes with a mark left.
THEOREM ImplementsProtocolHolds == Spec => ImplementsProtocol
BY Invariance, InitRefines, StepRefines, PTL DEF Spec, ImplementsProtocol, Protocol!Spec
=============================================================================
