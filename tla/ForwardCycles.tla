---------------------------- MODULE ForwardCycles ----------------------------
(***************************************************************************)
(* The check of a configuration for cycles (DataProxyClient.cpp): each     *)
(* node says which nodes it sends requests on to, and from every node the  *)
(* paths are followed until they end or come back, for loads, stores and   *)
(* deletes each.  `nodes` gives the configuration of each name: its kind   *)
(* and, under "read", "write" and "delete", the nodes it names there.      *)
(***************************************************************************)
EXTENDS Naturals, Sequences, SequencesExt, FiniteSets

Paths == {"read", "write", "delete"}

\* InsertReadForwards, InsertWriteForwards and InsertDeleteForwards: the node to
\* forward a failed request to and the nodes of the implementation.  On the read
\* side a join names the nodes it joins but not the one that brings the main
\* stream, and no node names the one a tee writes to.
ReportedForwards(node, path) ==
  node[path].forward \union
    (IF node.kind = "join" /\ path = "read" THEN node[path].joins
     ELSE node[path].joins \union node[path].route)

\* Where a request of the path may go on to, and as what: a joined node is loaded,
\* also by a join that stores, and a tee stores what was loaded.
ActualForwards(node, path) ==
  (node[path].forward \X {path}) \union (node[path].route \X {path})
    \union (node[path].joins \X {"read"}) \union (node[path].tee \X {"write"})

\* Mutant: a path is followed to the first node that is known to have been seen.
LastStepOnly(trail, name) == trail[Len(trail)] = name

\* The node is on the path that led to it.
LeadsBack(trail, name) == name \in Range(trail)

\* CheckForCycles: the paths it follows from one node; none of them has a node
\* twice, so none has more than there are.
Followed(nodes, path, start) ==
  {p \in SeqOf(DOMAIN nodes, Cardinality(DOMAIN nodes)) :
     /\ p # <<>> /\ p[1] = start
     /\ \A k \in 2 .. Len(p) : /\ p[k] \in ReportedForwards(nodes[p[k - 1]], path)
                             /\ ~ LeadsBack(SubSeq(p, 1, k - 1), p[k])}

\* A forward that does not exist, or one that leads back, refuses the whole.
CheckForCycles(nodes, path, start) ==
  \A p \in Followed(nodes, path, start) :
    \A f \in ReportedForwards(nodes[Last(p)], path) : f \in DOMAIN nodes /\ ~ LeadsBack(p, f)

\* The loop over all nodes.
NoCycles(nodes) ==
  \A start \in DOMAIN nodes : \A path \in Paths : CheckForCycles(nodes, path, start)

-----------------------------------------------------------------------------
\* What is promised.  A request is <<name, path>>, the node it is at and what it is.

Requests(nodes) == (DOMAIN nodes) \X Paths

Onwards(nodes, request) == ActualForwards(nodes[request[1]], request[2])

\* Requests each of which leads to another of them, so that it need never end.
KeepGoing(nodes, requests) ==
  requests # {} /\ \A request \in requests : Onwards(nodes, request) \cap requests # {}

\* A request leads to nodes that exist, and however it is sent on it ends.
EveryRequestEnds(nodes) ==
  /\ \A request \in Requests(nodes) : Onwards(nodes, request) \subseteq Requests(nodes)
  /\ \A requests \in SUBSET Requests(nodes) : ~ KeepGoing(nodes, requests)

\* Every node that a request may be sent on to is reported, and gets a request of
\* the same path or a load: there is no tee and no read endpoint of a join.
ReportsAll(nodes) ==
  \A name \in DOMAIN nodes : \A path \in Paths :
    \A f \in ActualForwards(nodes[name], path) :
      f[1] \in ReportedForwards(nodes[name], path) /\ f[2] \in {path, "read"}

\* And what is reported is what gets a request of the same path: there is no join
\* that loads what it adds to a store, either.
ReportsItsPath(nodes) ==
  \A name \in DOMAIN nodes : \A path \in Paths :
    ActualForwards(nodes[name], path) = ReportedForwards(nodes[name], path) \X {path}

\* In a configuration that is accepted no request comes back as the same request to
\* a node still busy with it, nor to a node that does not exist, where all forwards
\* are reported; and where a path's forwards are what is reported for it, no
\* configuration is refused without such a request.  The nodes that a storing join
\* joins are checked as if it stored to them: where one of them would store to the
\* join, the configuration is refused, though the load that is made of it may end.
\* (DataProxyClient::CheckForCycles)
AcceptsTheAcyclic(nodes, accepted) ==
  /\ ReportsAll(nodes) /\ accepted => EveryRequestEnds(nodes)
  /\ ReportsItsPath(nodes) /\ EveryRequestEnds(nodes) => accepted
=============================================================================
