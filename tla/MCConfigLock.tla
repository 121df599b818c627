---------------------------- MODULE MCConfigLock ----------------------------
(***************************************************************************)
(* Three threads of the service, and a file that is edited while they      *)
(* work: something that is refused comes, then another content, and then   *)
(* the first one comes back.                                               *)
(***************************************************************************)
EXTENDS ConfigLock

CONSTANTS t1, t2, t3

threads == {t1, t2, t3}
versions == <<"a", "bad", "b", "a">>
restored == <<"a", "bad", "a">>
bad == {"bad"}

\* What a plain request does, the other two do when they find the table known
\* and no transaction open.
hardKinds == {"byTable", "begin"}
allKinds == hardKinds \cup {"plain"}
=============================================================================
