--------------------------- MODULE MCLoadRequest ---------------------------
EXTENDS LoadRequest, TLC

CONSTANTS r, a, c

MCNodes == {r, a, c}

Plain == [root |-> r, ignored |-> {}, retries |-> [n \in MCNodes |-> 0],
          forward |-> [n \in MCNodes |-> NoNode], transforms |-> {}, tees |-> {},
          teesTransformed |-> {}, routers |-> {r}, disabled |-> {},
          route |-> (r :> a @@ [n \in MCNodes |-> NoNode])]

\* A router over a; what fails in one of them goes to c.
Routed ==
  {[Plain EXCEPT
      !.retries[retrier] = retries,
      !.forward[forwarder] = c,
      !.transforms = transforms,
      !.tees = tees,
      !.teesTransformed = teesTransformed] :
    retrier \in {a, r}, retries \in 0..1, forwarder \in {a, r},
    transforms \in {{}, {a}, {r}, {a, c}}, tees \in {{}, {a}, {r}, {c}},
    teesTransformed \in {{}, MCNodes}}

\* Failures of a leaf with one retry go to a router that leads nowhere, is
\* disabled, or leads to an ignored node; and a leaf with the largest RetryCount.
Odd ==
  {[Plain EXCEPT !.root = a, !.retries[a] = retries, !.forward[a] = r, !.route[r] = route,
                 !.disabled = disabled, !.ignored = ignored] :
    retries \in {1, UintSize - 1}, route \in {NoNode, c}, disabled \in {{}, {r}},
    ignored \in {{}, {c}}}

MCConfigs == Routed \cup Odd
=============================================================================
