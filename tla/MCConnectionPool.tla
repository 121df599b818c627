-------------------------- MODULE MCConnectionPool --------------------------
(* Three callers and three databases.  A database that is not open has no   *)
(* past, so it is no loss to always open the first of those.                *)
EXTENDS ConnectionPool

CONSTANTS c1, c2, c3, db1, db2, db3

FirstUnopened == \A db \in Open' \ Open : db = CHOOSE other \in Db \ Open : TRUE
=============================================================================
