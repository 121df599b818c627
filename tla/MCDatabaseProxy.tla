--------------------------- MODULE MCDatabaseProxy ---------------------------
(***************************************************************************)
(* Two threads on one database node with two connections.                  *)
(***************************************************************************)
EXTENDS DatabaseProxy

CONSTANTS t1, t2, c1, c2

threads == {t1, t2}
conns == {c1, c2}
noTable == <<>>

\* A node for every operation; what the variants differ in follows.
base ==
  [type |-> "oracle", read |-> {"connection"}, write |-> {"connection", "table"},
   delete |-> {"connection"}, staging |-> "dynamic", cut |-> FALSE, pre |-> FALSE,
   post |-> FALSE, noCleanUp |-> FALSE]

configs ==
  {[base EXCEPT !.staging = "static", !.pre = TRUE],
   [base EXCEPT !.cut = TRUE, !.noCleanUp = TRUE],
   [base EXCEPT !.type = "mysql", !.delete = {}],
   [base EXCEPT !.type = "mysql", !.staging = "none", !.post = TRUE,
                !.read = {"connectionByTable"}],
   [base EXCEPT !.type = "vertica", !.staging = "static",
                !.write = {"connectionByTable"}, !.read = {}, !.delete = {}],
   \* refused by the constructor
   [base EXCEPT !.write = {"connectionByTable", "table"}],
   [base EXCEPT !.read = {"connection", "connectionByTable"}]}
=============================================================================
