--------------------------- MODULE MCStoreRequest ---------------------------
EXTENDS StoreRequest, TLC

CONSTANTS r, a, b, c

MCNodes == {r, a, b, c}

To(n, critical) == [node |-> n, critical |-> critical]
Plain == [operation |-> "store", root |-> r, entry |-> 0, ignored |-> {},
          retries |-> [n \in MCNodes |-> 0], forward |-> [n \in MCNodes |-> NoNode],
          transforms |-> {}, forwardsTransformed |-> {}, routers |-> {r},
          routes |-> [n \in MCNodes |-> <<>>],
          onCriticalError |-> [n \in MCNodes |-> "stop"]]

\* A router over a and b; a's failures, or the router's, go to c.
Routed ==
  {[Plain EXCEPT
      !.operation = op[1], !.entry = op[2],
      !.routes[r] = <<To(a, criticalA), To(b, criticalB)>>,
      !.onCriticalError[r] = behavior,
      !.retries[r] = retries,
      !.forward[forwarder] = c,
      !.transforms = transforms,
      !.forwardsTransformed = forwards] :
    op \in {<<"store", 0>>, <<"store", 1>>, <<"delete", 0>>},
    criticalA \in BOOLEAN, criticalB \in BOOLEAN,
    behavior \in CriticalErrorBehavior,
    retries \in 0..1, forwarder \in {a, r},
    transforms \in {{}, {a}, {r}}, forwards \in {{}, {a, r}}}

\* A leaf with two retries whose failures go to a router over one critical
\* route, whose failures go to an ignored node; and a router to nowhere.
Nested ==
  {[Plain EXCEPT
      !.operation = operation, !.root = a, !.routers = {c}, !.ignored = ignored,
      !.routes[c] = routes, !.retries[a] = 2, !.forward = (a :> c @@ b :> r) @@ @] :
    operation \in {"store", "delete"}, ignored \in {{}, {r}},
    routes \in {<<>>, <<To(b, TRUE)>>}}

\* A leaf with the largest RetryCount.
Endless == {[Plain EXCEPT !.operation = operation, !.root = a, !.retries[a] = UintSize - 1] :
              operation \in {"store", "delete"}}

MCConfigs == Routed \cup Nested \cup Endless
=============================================================================
