------------------------ MODULE TransactionProtocol ------------------------
(***************************************************************************)
(* What a transaction of the client promises, without configurations,      *)
(* requests or vectors.  While a transaction is open nodes are marked for  *)
(* commit or for rollback, each with one mark.  A commit carries out every *)
(* commit mark before the first rollback mark; a rollback carries out no   *)
(* commit mark, it drops them.  A transaction closes with no mark left; a  *)
(* closing that is interrupted leaves it open with the marks it had not    *)
(* reached.                                                                *)
(***************************************************************************)
CONSTANT Node

VARIABLES phase, mark

vars == <<phase, mark>>

Unmarked == [n \in Node |-> "none"]

Marked(kind) == {n \in Node : mark[n] = kind}

Init == phase = "closed" /\ mark = Unmarked

Begin ==
  /\ phase = "closed"
  /\ phase' = "open"
  /\ UNCHANGED mark

\* A mark is never turned into the opposite one.
Mark(n, kind) ==
  /\ phase = "open"
  /\ mark[n] = "none"
  /\ mark' = [mark EXCEPT ![n] = kind]
  /\ UNCHANGED phase

Start(closing) ==
  /\ phase = "open"
  /\ phase' = closing
  /\ UNCHANGED mark

CarryOut(n) ==
  /\ \/ phase = "committing" /\ mark[n] = "commit"
     \/ phase = "committing" /\ mark[n] = "rollback" /\ Marked("commit") = {}
     \/ phase = "rollingBack" /\ mark[n] = "commit"
     \/ phase = "rollingBack" /\ mark[n] = "rollback" /\ Marked("commit") = {}
  /\ mark' = [mark EXCEPT ![n] = "none"]
  /\ UNCHANGED phase

Interrupt ==
  /\ phase \in {"committing", "rollingBack"}
  /\ phase' = "open"
  /\ UNCHANGED mark

\* Closing, and beginning anew in the same step for BeginTransaction( true ).
Close ==
  /\ \/ phase = "committing" /\ phase' = "closed"
     \/ phase = "rollingBack" /\ phase' \in {"closed", "open"}
  /\ mark = Unmarked
  /\ UNCHANGED mark

\* The program ends while its last transaction is rolled back.
Terminate ==
  /\ phase = "rollingBack"
  /\ phase' = "closed"
  /\ mark' = Unmarked

Next ==
  \/ Begin
  \/ \E n \in Node : Mark(n, "commit") \/ Mark(n, "rollback") \/ CarryOut(n)
  \/ Start("committing") \/ Start("rollingBack")
  \/ Interrupt
  \/ Close
  \/ Terminate

Spec == Init /\ [][Next]_vars
=============================================================================
