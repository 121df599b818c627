------------------------- MODULE MCDataProxyClient -------------------------
(* Node a forwards to b, which supports transactions as a does, and to x,   *)
(* which does not.  The file may configure all of them, or all but b.       *)
EXTENDS DataProxyClient

CONSTANTS a, b, x, all, withoutB

\* All three nodes, for the runs with one transaction.
MCNode == {a, b, x}
MCForwards == a :> {b, x} @@ b :> {} @@ x :> {}
MCNodesOf == all :> {a, b, x} @@ withoutB :> {a, x}

\* One transactional node, for the runs with several transactions.
MCPair == {a, x}
MCPairForwards == a :> {x} @@ x :> {}
MCPairNodesOf == all :> {a, x} @@ withoutB :> {a, x}

MCConfig == {all, withoutB}
MCDigest == all :> 1 @@ withoutB :> 2
=============================================================================
