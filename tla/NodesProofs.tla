----------------------------- MODULE NodesProofs -----------------------------
(***************************************************************************)
(* What is proved of the nodes, for any configurations, streams and        *)
(* requests. The first part is about the forwards of a configuration, the  *)
(* second about the requests of a join and a partition, the third about    *)
(* the loops of a store over the columns, the fourth about a translator    *)
(* and its requests, the fifth about joins that append, the sixth about    *)
(* the programs of the aggregates: the columns, the groups, the sort, and  *)
(* what no order changes. The last is about the steps of a join by         *)
(* columns, whose lemmas are those of JoinNodeProofs.                      *)
(***************************************************************************)
EXTENDS Nodes, JoinNodeProofs

\* Paths without a node twice, as the check follows them.
LEMMA FollowedIs ==
  ASSUME NEW nodes, NEW path, NEW start, NEW p, IsFiniteSet(DOMAIN nodes)
  PROVE  p \in Followed(nodes, path, start) <=>
           /\ p \in Seq(DOMAIN nodes) /\ p # <<>> /\ p[1] = start
           /\ Len(p) <= Cardinality(DOMAIN nodes)
           /\ \A k \in 2 .. Len(p) : p[k] \in ReportedForwards(nodes[p[k - 1]], path)
           /\ \A j, k \in 1 .. Len(p) : p[j] = p[k] => j = k
<1> DEFINE D == DOMAIN nodes
           c == Cardinality(D)
<1>0. c \in Nat
  BY FS_CardinalityType
<1> HIDE DEF c, D
<1>1. p \in SeqOf(D, c) <=> p \in Seq(D) /\ Len(p) <= c
  <2>1. ASSUME NEW m \in 0 .. c, p \in [1 .. m -> D] PROVE p \in Seq(D) /\ Len(p) <= c
    <3>1. m \in Nat /\ m <= c
      BY <1>0
    <3>2. p \in Seq(D)
      BY <2>1, <3>1, SeqDef
    <3>3. Len(p) \in Nat /\ DOMAIN p = 1 .. Len(p) /\ DOMAIN p = 1 .. m
      BY <2>1, <3>2, LenProperties
    <3>4. (Len(p) # 0 => Len(p) \in 1 .. m) /\ (m # 0 => m \in 1 .. Len(p))
      <4>1. (Len(p) # 0 => Len(p) \in 1 .. Len(p)) /\ (m # 0 => m \in 1 .. m)
        BY <3>1, <3>3
      <4> QED BY <3>3, <4>1
    <3>5. Len(p) \in Nat /\ m \in Nat
      BY <3>1, <3>3
    <3>6. Len(p) = m
      BY <3>4, <3>5
    <3> QED BY <3>1, <3>2, <3>6
  <2>2. ASSUME p \in Seq(D), Len(p) <= c PROVE p \in SeqOf(D, c)
    <3>1. Len(p) \in 0 .. c /\ p \in [1 .. Len(p) -> D]
      BY <2>2, <1>0, LenProperties
    <3> QED BY <3>1 DEF SeqOf
  <2>3. p \in SeqOf(D, c) <=> \E m \in 0 .. c : p \in [1 .. m -> D]
    BY Zenon DEF SeqOf
  <2> QED BY <2>1, <2>2, <2>3
<1>2. ASSUME p \in Seq(D)
      PROVE  (\A k \in 2 .. Len(p) : ~ LeadsBack(SubSeq(p, 1, k - 1), p[k]))
               <=> \A j, k \in 1 .. Len(p) : p[j] = p[k] => j = k
  <2>1. Len(p) \in Nat
    BY <1>2, LenProperties
  <2>2. ASSUME NEW k \in 2 .. Len(p)
        PROVE  LeadsBack(SubSeq(p, 1, k - 1), p[k]) <=> \E j \in 1 .. k - 1 : p[j] = p[k]
    <3>1. \A j \in 1 .. k - 1 : p[j] \in D
      BY <2>1, <1>2
    <3>2. /\ SubSeq(p, 1, k - 1) \in Seq(D) /\ Len(SubSeq(p, 1, k - 1)) = k - 1
          /\ \A j \in 1 .. k - 1 : SubSeq(p, 1, k - 1)[j] = p[j]
      <4>1. k - 1 \in Int /\ 1 <= k - 1
        BY <2>1
      <4>2. /\ SubSeq(p, 1, k - 1) \in Seq(D)
            /\ Len(SubSeq(p, 1, k - 1)) = IF 1 <= k - 1 THEN (k - 1) - 1 + 1 ELSE 0
            /\ \A i \in 1 .. (k - 1) - 1 + 1 : SubSeq(p, 1, k - 1)[i] = p[1 + i - 1]
        BY <3>1, <4>1, SubSeqProperties
      <4> QED BY <4>1, <4>2
    <3>3. Range(SubSeq(p, 1, k - 1)) = {SubSeq(p, 1, k - 1)[j] : j \in 1 .. k - 1}
      BY <3>2, RangeEquality
    <3> QED BY <3>2, <3>3 DEF LeadsBack
  <2>3. ASSUME \A k \in 2 .. Len(p) : ~ \E j \in 1 .. k - 1 : p[j] = p[k],
               NEW j \in 1 .. Len(p), NEW k \in 1 .. Len(p), p[j] = p[k]
        PROVE  j = k
    <3>1. CASE j < k
      <4>1. k \in 2 .. Len(p) /\ j \in 1 .. k - 1
        BY <3>1, <2>1
      <4> QED BY <4>1, <2>3
    <3>2. CASE k < j
      <4>1. j \in 2 .. Len(p) /\ k \in 1 .. j - 1
        BY <3>2, <2>1
      <4> QED BY <4>1, <2>3
    <3> QED BY <3>1, <3>2, <2>1
  <2>4. ASSUME \A j, k \in 1 .. Len(p) : p[j] = p[k] => j = k,
               NEW k \in 2 .. Len(p), NEW j \in 1 .. k - 1, p[j] = p[k]
        PROVE  FALSE
    <3>1. k \in 1 .. Len(p) /\ j \in 1 .. Len(p) /\ j # k
      BY <2>1
    <3> QED BY <3>1, <2>4
  <2> QED BY <2>2, <2>3, <2>4
<1>3. p \in Followed(nodes, path, start) <=>
        /\ p \in SeqOf(D, c) /\ p # <<>> /\ p[1] = start
        /\ \A k \in 2 .. Len(p) : p[k] \in ReportedForwards(nodes[p[k - 1]], path)
        /\ \A k \in 2 .. Len(p) : ~ LeadsBack(SubSeq(p, 1, k - 1), p[k])
  BY Zenon DEF Followed, D, c
<1> QED BY <1>1, <1>2, <1>3 DEF D, c

\* A path without a node twice is no longer than there are nodes.
LEMMA PathLength ==
  ASSUME NEW D, NEW p \in Seq(D), IsFiniteSet(D), \A j, k \in 1 .. Len(p) : p[j] = p[k] => j = k
  PROVE  Len(p) <= Cardinality(D)
<1>1. Len(p) \in Nat /\ p \in [1 .. Len(p) -> D] /\ DOMAIN p = 1 .. Len(p)
  BY LenProperties
<1>2. p \in Injection(1 .. Len(p), D)
  BY <1>1 DEF Injection, IsInjective
<1>3. Cardinality(1 .. Len(p)) <= Cardinality(D)
  BY <1>2, FS_Injection
<1>4. Cardinality(1 .. Len(p)) = Len(p)
  BY <1>1, FS_Interval
<1> QED BY <1>3, <1>4

\* A path goes on to a node that is not on it.
LEMMA FollowedOn ==
  ASSUME NEW nodes, NEW path, NEW start, NEW p \in Followed(nodes, path, start), IsFiniteSet(DOMAIN nodes),
         NEW f \in ReportedForwards(nodes[Last(p)], path), f \in DOMAIN nodes, ~ LeadsBack(p, f)
  PROVE  Append(p, f) \in Followed(nodes, path, start)
<1> DEFINE D == DOMAIN nodes
           q == Append(p, f)
           n == Len(p)
<1>1. /\ p \in Seq(D) /\ p # <<>> /\ p[1] = start
      /\ \A k \in 2 .. n : p[k] \in ReportedForwards(nodes[p[k - 1]], path)
      /\ \A j, k \in 1 .. n : p[j] = p[k] => j = k
  BY FollowedIs
<1>2. n \in Nat /\ n >= 1
  BY <1>1, EmptySeq
<1>3. /\ q \in Seq(D) /\ q # <<>> /\ Len(q) = n + 1
      /\ \A i \in 1 .. n : q[i] = p[i]
      /\ q[n + 1] = f
  BY <1>1, AppendProperties
<1>4. \A i \in 1 .. n : p[i] # f
  BY <1>1, RangeEquality DEF LeadsBack
<1>5. f \in ReportedForwards(nodes[p[n]], path)
  BY DEF Last
<1> HIDE DEF q, n
<1>6. q[1] = start
  <2>1. 1 \in 1 .. n
    BY <1>2
  <2> QED BY <1>1, <1>3, <2>1
<1>7. ASSUME NEW k \in 2 .. n + 1 PROVE q[k] \in ReportedForwards(nodes[q[k - 1]], path)
  <2>1. CASE k = n + 1
    <3>1. k - 1 = n /\ n \in 1 .. n
      BY <2>1, <1>2
    <3> QED BY <1>3, <1>5, <2>1, <3>1
  <2>2. CASE k # n + 1
    <3>1. k \in 2 .. n /\ k \in 1 .. n /\ k - 1 \in 1 .. n
      BY <2>2, <1>2
    <3> QED BY <1>1, <1>3, <3>1
  <2> QED BY <2>1, <2>2
<1>8. ASSUME NEW j \in 1 .. n + 1, NEW k \in 1 .. n + 1, q[j] = q[k] PROVE j = k
  <2>1. \A i \in 1 .. n + 1 : i \in 1 .. n \/ i = n + 1
    BY <1>2
  <2> QED BY <2>1, <1>1, <1>3, <1>4, <1>8
<1>9. Len(q) <= Cardinality(D)
  BY <1>3, <1>8, PathLength
<1>10. q \in Followed(nodes, path, start)
  BY <1>3, <1>6, <1>7, <1>8, <1>9, FollowedIs
<1> QED BY <1>10 DEF q

\* From a node that exists the check starts.
LEMMA FollowedStarts ==
  ASSUME NEW nodes, NEW path, NEW name \in DOMAIN nodes, IsFiniteSet(DOMAIN nodes)
  PROVE  <<name>> \in Followed(nodes, path, name)
<1>1. <<name>> \in Seq(DOMAIN nodes) /\ Len(<<name>>) = 1 /\ <<name>>[1] = name /\ <<name>> # <<>>
  OBVIOUS
<1>2. \A j, k \in 1 .. 1 : <<name>>[j] = <<name>>[k] => j = k
  OBVIOUS
<1>3. Len(<<name>>) <= Cardinality(DOMAIN nodes)
  BY <1>1, <1>2, PathLength
<1>4. \A k \in 2 .. Len(<<name>>) : FALSE
  BY <1>1
<1> QED BY <1>1, <1>2, <1>3, <1>4, FollowedIs

\* Where nothing leads back, no names keep each other going.
LEMMA NoNamesKeepGoing ==
  ASSUME NEW nodes, IsFiniteSet(DOMAIN nodes), NoCycles(nodes), NEW path \in Paths,
         NEW names \in SUBSET DOMAIN nodes, names # {},
         \A name \in names : ReportedForwards(nodes[name], path) \cap names # {}
  PROVE  FALSE
<1> DEFINE D == DOMAIN nodes
           S == {n \in Nat : \E start \in names : \E p \in Followed(nodes, path, start) :
                              Len(p) = n + 1 /\ Last(p) \in names}
<1>1. 0 \in S
  <2>1. PICK name \in names : TRUE
    OBVIOUS
  <2>2. <<name>> \in Followed(nodes, path, name)
    BY FollowedStarts
  <2>3. Len(<<name>>) = 0 + 1 /\ Last(<<name>>) = name
    BY DEF Last
  <2> QED BY <2>1, <2>2, <2>3
<1>2. ASSUME NEW n \in Nat, n \in S PROVE n + 1 \in S
  <2>1. PICK start \in names : \E p \in Followed(nodes, path, start) :
                              Len(p) = n + 1 /\ Last(p) \in names
    BY <1>2
  <2>2. PICK p \in Followed(nodes, path, start) : Len(p) = n + 1 /\ Last(p) \in names
    BY <2>1
  <2>3. PICK f \in names : f \in ReportedForwards(nodes[Last(p)], path)
    BY <2>2
  <2>4. f \in DOMAIN nodes /\ ~ LeadsBack(p, f)
    BY <2>3 DEF NoCycles, CheckForCycles
  <2>5. Append(p, f) \in Followed(nodes, path, start)
    BY <2>3, <2>4, FollowedOn
  <2>6. Len(Append(p, f)) = (n + 1) + 1 /\ Last(Append(p, f)) = f
    <3>1. p \in Seq(DOMAIN nodes)
      BY FollowedIs
    <3> QED BY <3>1, <2>2, <2>4, AppendProperties DEF Last
  <2>7. \E q \in Followed(nodes, path, start) : Len(q) = (n + 1) + 1 /\ Last(q) \in names
    BY <2>3, <2>5, <2>6
  <2> QED BY <2>1, <2>7
<1>3. Cardinality(D) \in S
  <2>1. Nat \subseteq S
    <3> HIDE DEF S
    <3> QED BY <1>1, <1>2, Induction
  <2>2. Cardinality(D) \in Nat
    BY FS_CardinalityType
  <2> QED BY <2>1, <2>2
<1>4. PICK start \in names : \E p \in Followed(nodes, path, start) : Len(p) = Cardinality(D) + 1
  BY <1>3
<1>5. PICK p \in Followed(nodes, path, start) : Len(p) = Cardinality(D) + 1
  BY <1>4
<1>6. Len(p) <= Cardinality(D) /\ Cardinality(D) \in Nat
  BY FollowedIs, FS_CardinalityType
<1> QED BY <1>5, <1>6

\* What an accepted configuration is sent on to exists, and ends.
LEMMA AcceptedEnds ==
  ASSUME NEW nodes, IsFiniteSet(DOMAIN nodes), ReportsAll(nodes), NoCycles(nodes)
  PROVE  EveryRequestEnds(nodes)
<1>1. ASSUME NEW name \in DOMAIN nodes, NEW path \in Paths,
             NEW f \in ActualForwards(nodes[name], path)
      PROVE  /\ f = <<f[1], f[2]>> /\ f[1] \in DOMAIN nodes /\ f[2] \in Paths
             /\ f[1] \in ReportedForwards(nodes[name], path) /\ f[2] \in {path, "read"}
  <2>1. f[1] \in ReportedForwards(nodes[name], path) /\ f[2] \in {path, "read"}
    BY <1>1 DEF ReportsAll
  <2>2. f = <<f[1], f[2]>>
    BY <1>1 DEF ActualForwards
  <2>3. <<name>> \in Followed(nodes, path, name) /\ Last(<<name>>) = name
    BY FollowedStarts DEF Last
  <2>4. f[1] \in DOMAIN nodes
    BY <2>1, <2>3 DEF NoCycles, CheckForCycles
  <2> QED BY <2>1, <2>2, <2>4 DEF Paths
<1>2. ASSUME NEW r \in Requests(nodes) PROVE Onwards(nodes, r) \subseteq Requests(nodes)
  BY <1>1 DEF Requests, Onwards
<1>3. ASSUME NEW requests \in SUBSET Requests(nodes), KeepGoing(nodes, requests) PROVE FALSE
  <2> DEFINE NamesOf(path) == {name \in DOMAIN nodes : <<name, path>> \in requests}
  <2>1. ASSUME NEW path \in Paths, NEW name \in NamesOf(path),
               path = "read" \/ NamesOf("read") = {}
        PROVE  ReportedForwards(nodes[name], path) \cap NamesOf(path) # {}
    <3>1. PICK f \in ActualForwards(nodes[name], path) : f \in requests
      BY <2>1, <1>3 DEF KeepGoing, Onwards
    <3>2. /\ f = <<f[1], f[2]>> /\ f[1] \in DOMAIN nodes
          /\ f[1] \in ReportedForwards(nodes[name], path) /\ f[2] \in {path, "read"}
      BY <1>1, <2>1, <3>1
    <3>3. f[2] = path
      BY <2>1, <3>1, <3>2
    <3> QED BY <3>1, <3>2, <3>3
  <2>2. PICK path \in Paths : NamesOf(path) # {} /\ (path = "read" \/ NamesOf("read") = {})
    <3>1. PICK r \in requests : TRUE
      BY <1>3 DEF KeepGoing
    <3>2. r = <<r[1], r[2]>> /\ r[1] \in DOMAIN nodes /\ r[2] \in Paths
      BY <3>1, <1>3 DEF Requests
    <3>3. NamesOf(r[2]) # {}
      BY <3>1, <3>2
    <3>4. "read" \in Paths
      BY DEF Paths
    <3> QED BY <3>2, <3>3, <3>4
  <2>3. \A name \in NamesOf(path) : ReportedForwards(nodes[name], path) \cap NamesOf(path) # {}
    BY <2>1, <2>2
  <2> HIDE DEF NamesOf
  <2>4. NamesOf(path) \in SUBSET DOMAIN nodes
    BY DEF NamesOf
  <2> QED BY <2>2, <2>3, <2>4, NoNamesKeepGoing
<1> QED BY <1>2, <1>3 DEF EveryRequestEnds

\* And only a configuration in which a request does come back is refused.
LEMMA EndingIsAccepted ==
  ASSUME NEW nodes, IsFiniteSet(DOMAIN nodes), ReportsItsPath(nodes), EveryRequestEnds(nodes)
  PROVE  NoCycles(nodes)
<1>1. SUFFICES ASSUME NEW start \in DOMAIN nodes, NEW path \in Paths,
                      NEW p \in Followed(nodes, path, start),
                      NEW f \in ReportedForwards(nodes[Last(p)], path)
               PROVE  f \in DOMAIN nodes /\ ~ LeadsBack(p, f)
  BY DEF NoCycles, CheckForCycles
<1> DEFINE n == Len(p)
<1>2. p \in Seq(DOMAIN nodes) /\ p # <<>> /\ \A k \in 2 .. n : p[k] \in ReportedForwards(nodes[p[k - 1]], path)
  BY FollowedIs
<1>3. n \in Nat /\ n \in 1 .. n /\ \A k \in 1 .. n : p[k] \in DOMAIN nodes
  BY <1>2, EmptySeq, LenProperties
<1>4. ASSUME NEW k \in 1 .. n, NEW g \in ReportedForwards(nodes[p[k]], path)
      PROVE  <<g, path>> \in Onwards(nodes, <<p[k], path>>)
  BY <1>3 DEF ReportsItsPath, Onwards
<1>5. Last(p) = p[n]
  BY DEF Last
<1>6. f \in DOMAIN nodes
  <2>1. <<f, path>> \in Onwards(nodes, <<p[n], path>>) /\ <<p[n], path>> \in Requests(nodes)
    BY <1>3, <1>4, <1>5 DEF Requests
  <2>2. <<f, path>> \in Requests(nodes)
    BY <2>1 DEF EveryRequestEnds
  <2> QED BY <2>2 DEF Requests
<1>7. ASSUME NEW k \in 1 .. n, p[k] = f PROVE FALSE
  <2> DEFINE R == {<<p[i], path>> : i \in k .. n}
  <2>1. \A i \in k .. n : i \in 1 .. n /\ (i # n => i + 1 \in k .. n /\ i + 1 \in 2 .. n /\ (i + 1) - 1 = i)
    BY <1>3
  <2>2. R \in SUBSET Requests(nodes)
    BY <1>3, <2>1 DEF Requests
  <2>3. k \in k .. n /\ R # {}
    <3>1. k \in k .. n
      BY <1>3
    <3> QED BY <3>1
  <2>4. ASSUME NEW i \in k .. n PROVE Onwards(nodes, <<p[i], path>>) \cap R # {}
    <3>1. CASE i = n
      BY <3>1, <1>3, <1>4, <1>5, <1>7, <2>3
    <3>2. CASE i # n
      <4>1. p[i + 1] \in ReportedForwards(nodes[p[i]], path) /\ i + 1 \in k .. n /\ i \in 1 .. n
        BY <3>2, <2>1, <1>2
      <4> QED BY <4>1, <1>4
    <3> QED BY <3>1, <3>2
  <2>5. KeepGoing(nodes, R)
    BY <2>3, <2>4 DEF KeepGoing
  <2> HIDE DEF R
  <2> QED BY <2>2, <2>5 DEF EveryRequestEnds
<1>8. Range(p) = {p[k] : k \in 1 .. Len(p)}
  BY <1>2, RangeEquality
<1> QED BY <1>6, <1>7, <1>8 DEF LeadsBack

\* The check says what it is to say.
LEMMA ChecksForCycles ==
  ASSUME NEW nodes, IsFiniteSet(DOMAIN nodes)
  PROVE  AcceptsTheAcyclic(nodes, NoCycles(nodes))
BY AcceptedEnds, EndingIsAccepted DEF AcceptsTheAcyclic

-----------------------------------------------------------------------------
\* The copy of a stream is written in the step that counts the stream as joined.
LEMMA JoinStreamKeeps ==
  ASSUME JoinInv, NEW r \in Request, JoinStream(r)
  PROVE  JoinInv' /\ Moves(r, {"failed", "streams"})
<1> DEFINE c == calls[r]
           n == c.next
           join == side.joins[n]
           loaded == content[join.node]
           stream == IF c.multi THEN WriteMultiKeyStream(loaded, c.joinKey) ELSE loaded
           key == IF c.multi THEN RewrittenKey(keys[n + 1]) ELSE keys[n + 1]
           header == Head(stream)
           keyIndex == KeyIndex(header, key[1])
           columns == IncludeColumns(header, join.columns, 0)
           sorted == Sorted(Tail(stream), keyIndex)
           command == [right |-> keyIndex, pairs |-> Pairs(join.type),
                       alone |-> Alone(join.type),
                       list |-> TrivialColumnList(Len(c.outHeader), c.keyIndex)
                                  \o ColumnList(header, keyIndex, columns)]
           names == AddedNames(c.outHeader, columns, key[1], join.node)
           failed == [c EXCEPT !.stage = "failed"]
           file(lines) == [owner |-> r, stream |-> n, lines |-> lines]
           call(cut) == [c EXCEPT !.next = n + 1, !.joinKey = <<>>, !.cut = cut,
                                  !.joinCommand = Append(c.joinCommand, command),
                                  !.outHeader = names]
<1>1. CallOK(c) /\ c.stage = "streams" /\ n \in DOMAIN side.joins /\ FilesOK(r)
  BY Zenon DEF JoinInv, JoinStream, Call
<1>2. UNCHANGED <<side, content>> /\ loaded # <<>>
  BY Zenon DEF JoinStream, Call
<1>3. \/ Update(r, failed) /\ UNCHANGED files
      \/ \E lines \in {sorted} \union {FirstLines(sorted, k) : k \in Cuts} :
           /\ files' = files \union {file(lines)}
           /\ Update(r, call(c.cut \/ lines # sorted)) \/ Update(r, failed)
  BY Zenon DEF JoinStream, Call
<1>4. IsSeq(sorted) /\ \A k \in Cuts : IsSeq(FirstLines(sorted, k))
  <2>1. IsSeq(loaded)
    BY <1>1, ContentIsSeq
  <2>2. IsSeq(stream) /\ stream # <<>>
    <3>1. CASE c.multi
      <4> DEFINE w == WriteMultiKeyStream(loaded, c.joinKey)
                 X == {w[k] : k \in DOMAIN w}
      <4>1. DOMAIN w = 1 .. Len(loaded) /\ Len(loaded) \in Nat
        BY <2>1, LenProperties DEF WriteMultiKeyStream, IsSeq
      <4>2. Len(loaded) # 0
        BY <1>2, <2>1, EmptySeq DEF IsSeq
      <4>3. w \in [1 .. Len(loaded) -> X]
        BY <4>1, Zenon DEF WriteMultiKeyStream
      <4>7. stream = w
        BY <3>1
      <4> HIDE DEF w, X, stream, loaded
      <4>4. w \in Seq(X)
        BY <4>1, <4>3, SeqDef
      <4>5. 1 \in DOMAIN w
        BY <4>1, <4>2
      <4>6. w # <<>>
        BY <4>5
      <4> QED BY <4>4, <4>6, <4>7, AnySeq
    <3>2. CASE ~ c.multi
      BY <1>2, <2>1, <3>2
    <3> QED BY <3>1, <3>2
  <2> HIDE DEF stream, keyIndex
  <2>3. Tail(stream) \in Seq(Range(stream))
    BY <2>2, TailOfSeq
  <2>4. sorted \in Seq(Range(stream))
    BY <2>3, SortedIs
  <2> HIDE DEF sorted
  <2>5. \A k \in Cuts : FirstLines(sorted, k) \in Seq(Range(stream))
    BY <2>4, FirstLinesAre, JoinAssumption
  <2> QED BY <2>4, <2>5, AnySeq
<1>5. CASE Update(r, failed) /\ UNCHANGED files
  <2>1. CallOK(failed) /\ failed.stage = "failed" /\ failed.next = calls[r].next
    BY <1>1 DEF CallOK, CallFields
  <2> HIDE DEF failed
  <2> QED BY <1>2, <1>5, <2>1, OneCall DEF Moves
<1> HIDE DEF sorted, command, names
<1>6. ASSUME NEW lines, IsSeq(lines), NEW cut, files' = files \union {file(lines)},
             Update(r, call(cut)) \/ Update(r, failed)
      PROVE  JoinInv' /\ Moves(r, {"failed", "streams"})
  <2>1. file(lines).owner = r /\ file(lines).stream = n /\ file(lines).lines = lines
    OBVIOUS
  <2>2. CallOK(failed) /\ failed.stage = "failed" /\ failed.next = n
    BY <1>1 DEF CallOK, CallFields
  <2>3. CallOK(call(cut)) /\ call(cut).stage = "streams" /\ call(cut).next = n + 1
    <3>1. /\ IsSeq(c.joinCommand) /\ Len(c.joinCommand) = n - 1 /\ n \in Nat \ {0}
      BY <1>1 DEF CallOK
    <3> DEFINE all == Append(c.joinCommand, command)
    <3>2. IsSeq(all) /\ Len(all) = (n - 1) + 1
      <4>1. c.joinCommand \in Seq(Range(c.joinCommand) \union {command})
        BY <3>1, SeqMonotonic DEF IsSeq
      <4>2. all \in Seq(Range(c.joinCommand) \union {command}) /\ Len(all) = (n - 1) + 1
        BY <3>1, <4>1, AppendProperties
      <4> HIDE DEF all
      <4> QED BY <4>2, AnySeq
    <3>3. Len(all) = (n + 1) - 1 /\ n + 1 \in Nat \ {0}
      BY <3>1, <3>2
    <3>4. call(cut) = [c EXCEPT !.next = n + 1, !.joinKey = <<>>, !.cut = cut, !.joinCommand = all,
                                !.outHeader = names]
      OBVIOUS
    <3> HIDE DEF all, call
    <3> QED BY <1>1, <3>2, <3>3, <3>4 DEF CallOK, CallFields
  <2> HIDE DEF file, call, failed
  <2>4. PICK new : /\ CallOK(new) /\ Update(r, new)
                   /\ \/ new.stage = "failed" /\ new.next = n
                      \/ new.stage = "streams" /\ new.next = n + 1
    BY <1>6, <2>2, <2>3
  <2>5. DOMAIN calls' = Request /\ calls'[r] = new /\ \A q \in Request : q # r => calls'[q] = calls[q]
    BY <2>4 DEF JoinInv, Update
  <2>6. \A q \in Request : q # r => Left(q)' = Left(q)
    BY <1>6, <2>1 DEF Left, FilesOf
  <2>7. Left(r)' = Left(r) \union {n}
    BY <1>6, <2>1 DEF Left, FilesOf
  <2>8. n \in Nat \ {0} /\ Left(r) = 1 .. n - 1
    BY <1>1 DEF FilesOK, CallOK, Call
  <2>9. FilesOK(r)'
    <3>1. Left(r)' = 1 .. n
      BY <2>7, <2>8
    <3>2. (n + 1) - 1 = n
      BY <2>8
    <3> QED BY <2>4, <2>5, <3>1, <3>2 DEF FilesOK, Call
  <2>10. ASSUME NEW q \in Request, q # r PROVE CallOK(calls'[q]) /\ FilesOK(q)'
    <3>1. CallOK(calls[q]) /\ FilesOK(q)
      BY DEF JoinInv
    <3> QED BY <2>5, <2>6, <2>10, <3>1 DEF FilesOK, Call
  <2>11. \A f \in files' : IsSeq(f.lines)
    BY <1>4, <1>6, <2>1 DEF JoinInv
  <2>12. \A q \in Request : CallOK(calls'[q]) /\ FilesOK(q)'
    BY <2>4, <2>5, <2>9, <2>10
  <2>13. side' \in Sides /\ content' \in Contents
    BY <1>2 DEF JoinInv
  <2> QED BY <1>2, <2>4, <2>5, <2>11, <2>12, <2>13 DEF JoinInv, Moves
<1>7. ASSUME NEW lines \in {sorted} \union {FirstLines(sorted, k) : k \in Cuts},
             files' = files \union {file(lines)},
             Update(r, call(c.cut \/ lines # sorted)) \/ Update(r, failed)
      PROVE  JoinInv' /\ Moves(r, {"failed", "streams"})
  <2>1. IsSeq(lines)
    BY <1>4, <1>7
  <2> DEFINE cut == c.cut \/ lines # sorted
  <2>2. Update(r, call(cut)) \/ Update(r, failed)
    BY <1>7
  <2> HIDE DEF cut, file, call, failed
  <2> QED BY <1>6, <1>7, <2>1, <2>2
<1> QED BY <1>3, <1>5, <1>7, Zenon

\* Every command has its file.
LEMMA FileOfCommand ==
  ASSUME JoinInv, NEW r \in Request, Call(r).stage = "streams",
         NEW n \in 1 .. Len(Call(r).joinCommand)
  PROVE  IsSeq(LinesOf(r, n))
<1>1. Left(r) = 1 .. Call(r).next - 1 /\ Len(Call(r).joinCommand) = Call(r).next - 1
  BY DEF JoinInv, FilesOK, CallOK, Call
<1>2. \E f \in FilesOf(r) : f.stream = n
  BY <1>1 DEF Left
<1>3. PICK f \in FilesOf(r) : LinesOf(r, n) = f.lines
  BY <1>2, Zenon DEF LinesOf
<1> QED BY <1>3 DEF JoinInv, FilesOf

\* The copies are removed in the step that answers the request or sends it on.
LEMMA ExecuteJoinKeeps ==
  ASSUME JoinInv, NEW r \in Request, ExecuteJoin(r)
  PROVE  JoinInv' /\ Moves(r, {Onward})
<1>16. PICK failing \in SUBSET Unseen(Call(r)) : \E cuts \in [failing -> Cuts] :
         LET c == Call(r)
             stream == <<c.outHeader>> \o PipedOf(r, c, cuts)
         IN  Update(r, [c EXCEPT !.stage = Onward, !.cut = @ \/ failing # {},
                                 !.out = IF c.multi THEN [n \in DOMAIN stream |-> Expanded(stream[n])]
                                         ELSE stream])
  BY Zenon DEF ExecuteJoin, PipedOf, Onward
<1>17. PICK cuts \in [failing -> Cuts] :
         LET c == Call(r)
             stream == <<c.outHeader>> \o PipedOf(r, c, cuts)
         IN  Update(r, [c EXCEPT !.stage = Onward, !.cut = @ \/ failing # {},
                                 !.out = IF c.multi THEN [n \in DOMAIN stream |-> Expanded(stream[n])]
                                         ELSE stream])
  BY <1>16
<1> DEFINE c == calls[r]
           broken == c.cut \/ failing # {}
           piped == PipedOf(r, c, cuts)
           stream == <<c.outHeader>> \o piped
           out == IF c.multi THEN [n \in DOMAIN stream |-> Expanded(stream[n])] ELSE stream
           to == Onward
           call == [c EXCEPT !.stage = to, !.cut = broken, !.out = out]
<1>1. CallOK(c) /\ c.stage = "streams"
  BY Zenon DEF JoinInv, ExecuteJoin, Call
<1>2. UNCHANGED <<side, content>> /\ files' = files \ FilesOf(r)
  BY Zenon DEF ExecuteJoin, RemoveFiles
<1>3. Update(r, call)
  BY <1>17, Zenon DEF Call
<1>15. AreCuts(cuts)
  BY JoinAssumption DEF AreCuts
<1>4. IsSeq(out)
  <2>1. IsSeq(piped)
    <3>1. \A n \in 1 .. Len(c.joinCommand) : IsSeq(LinesOf(r, n))
      BY <1>1, FileOfCommand DEF Call
    <3>2. IsSeq(c.main) /\ IsSeq(c.joinCommand)
      BY <1>1 DEF CallOK
    <3> HIDE DEF c
    <3> QED BY <1>15, <3>1, <3>2, PipedIsSeq
  <2> HIDE DEF piped
  <2>2. stream \in Seq(Range(piped) \union {c.outHeader})
    <3> DEFINE X == Range(piped) \union {c.outHeader}
    <3>1. piped \in Seq(X)
      BY <2>1, SeqMonotonic DEF IsSeq
    <3>2. <<c.outHeader>> \in Seq(X)
      OBVIOUS
    <3> HIDE DEF X
    <3>3. stream \in Seq(X)
      BY <3>1, <3>2, ConcatProperties
    <3> QED BY <3>3 DEF X
  <2> HIDE DEF stream
  <2>3. CASE c.multi
    <3> DEFINE w == [n \in DOMAIN stream |-> Expanded(stream[n])]
               X == {w[n] : n \in DOMAIN w}
    <3>1. DOMAIN w = 1 .. Len(stream) /\ Len(stream) \in Nat
      BY <2>2, LenProperties
    <3>2. w \in [1 .. Len(stream) -> X]
      BY <3>1
    <3>3. out = w
      BY <2>3
    <3> HIDE DEF w, X, out
    <3>4. w \in Seq(X)
      BY <3>1, <3>2, SeqDef
    <3> QED BY <3>3, <3>4, AnySeq
  <2>4. CASE ~ c.multi
    BY <2>2, <2>4, AnySeq
  <2> QED BY <2>3, <2>4
<1>5. to \notin {"new", "main", "streams", "failed"}
  BY DEF Onward
<1> HIDE DEF out, to, broken
<1>6. CallOK(call) /\ call.stage = to
  BY <1>1, <1>4, <1>5 DEF CallOK, CallFields
<1> HIDE DEF call
<1>7. DOMAIN calls' = Request /\ calls'[r] = call /\ \A q \in Request : q # r => calls'[q] = calls[q]
  BY <1>3 DEF JoinInv, Update
<1>8. \A q \in Request : q # r => Left(q)' = Left(q)
  BY <1>2 DEF Left, FilesOf
<1>9. Left(r)' = {}
  BY <1>2 DEF Left, FilesOf
<1>10. FilesOK(r)'
  BY <1>5, <1>6, <1>7, <1>9 DEF FilesOK, Call
<1>11. ASSUME NEW q \in Request, q # r PROVE CallOK(calls'[q]) /\ FilesOK(q)'
  <2>1. CallOK(calls[q]) /\ FilesOK(q)
    BY DEF JoinInv
  <2> QED BY <1>7, <1>8, <1>11, <2>1 DEF FilesOK, Call
<1>12. \A f \in files' : IsSeq(f.lines)
  BY <1>2 DEF JoinInv
<1>13. \A q \in Request : CallOK(calls'[q]) /\ FilesOK(q)'
  BY <1>6, <1>7, <1>10, <1>11
<1>14. side' \in Sides /\ content' \in Contents
  BY <1>2 DEF JoinInv
<1> QED BY <1>2, <1>6, <1>7, <1>12, <1>13, <1>14 DEF JoinInv, Moves, to

\* A request that appends has no copies.
LEMMA AppendKeeps ==
  ASSUME JoinInv, NEW r \in Request, LoadMainToAppend(r) \/ AppendStream(r) \/ Appended(r) \/ Stored(r)
  PROVE  /\ JoinInv'
         /\ \/ Moves(r, {"append"}) /\ (LoadMainToAppend(r) \/ AppendStream(r))
            \/ Moves(r, {Onward}) /\ Appended(r)
            \/ Moves(r, {"done"}) /\ Stored(r)
<1> DEFINE c == calls[r]
<1>1. CallOK(c)
  BY DEF JoinInv
<1>2. UNCHANGED <<side, content, files>>
  BY Zenon DEF LoadMainToAppend, AppendStream, Appended, Stored
<1>3. CASE LoadMainToAppend(r)
  <2> DEFINE call == [c EXCEPT !.stage = "append", !.out = MainStream]
  <2>1. c.stage = "new" /\ Update(r, call) /\ IsSeq(MainStream)
    BY <1>3, ContentIsSeq DEF LoadMainToAppend, Call
  <2>2. CallOK(call) /\ call.stage = "append"
    BY <1>1, <2>1 DEF CallOK, CallFields
  <2> HIDE DEF call
  <2> QED BY <1>2, <1>3, <2>1, <2>2, OneCall
<1>4. CASE AppendStream(r)
  <2> DEFINE join == side.joins[c.next]
             loaded == content[join.node]
             short == Len(loaded) < join.skipLines
  <2>1. c.stage = "append" /\ c.next \in DOMAIN side.joins
    BY <1>4, Zenon DEF AppendStream, Call
  <2>2. PICK added \in IF c.broken THEN {loaded, <<>>} ELSE {SubSeq(loaded, join.skipLines + 1, Len(loaded))} :
          Update(r, [c EXCEPT !.next = @ + 1, !.out = @ \o added,
                              !.broken = @ \/ (side.op = "store" /\ short)])
    BY <1>4, Zenon DEF AppendStream, Call, LinesAfter
  <2>3. IsSeq(loaded) /\ join.skipLines \in Nat
    BY <2>1, ContentIsSeq, JoinAssumption DEF JoinInv
  <2> HIDE DEF loaded, join
  <2>4. IsSeq(added)
    <3>1. CASE added = SubSeq(loaded, join.skipLines + 1, Len(loaded))
      <4>1. /\ Len(loaded) \in Nat /\ \A k \in 1 .. Len(loaded) : loaded[k] \in Range(loaded)
        BY <2>3, LenProperties DEF IsSeq
      <4>2. join.skipLines + 1 \in Int /\ Len(loaded) \in Int
            /\ \A k \in join.skipLines + 1 .. Len(loaded) : loaded[k] \in Range(loaded)
        BY <2>3, <4>1
      <4>3. added \in Seq(Range(loaded))
        BY <3>1, <4>2, SubSeqProperties
      <4> QED BY <4>3, AnySeq
    <3> QED BY <2>2, <2>3, <3>1, EmptyIsSeq
  <2> DEFINE out == c.out \o added
             call == [c EXCEPT !.next = c.next + 1, !.out = out,
                               !.broken = c.broken \/ (side.op = "store" /\ short)]
  <2>5. IsSeq(out)
    <3> DEFINE X == Range(c.out) \union Range(added)
    <3>1. c.out \in Seq(X) /\ added \in Seq(X)
      BY <1>1, <2>4, SeqMonotonic DEF IsSeq, CallOK
    <3> HIDE DEF X
    <3>2. out \in Seq(X)
      BY <3>1, ConcatProperties
    <3> QED BY <3>2, AnySeq
  <2>6. Update(r, call)
    BY <2>2
  <2> HIDE DEF out, short
  <2>7. CallOK(call) /\ call.stage = "append"
    BY <1>1, <2>1, <2>5 DEF CallOK, CallFields
  <2> HIDE DEF call
  <2> QED BY <1>2, <1>4, <2>1, <2>6, <2>7, OneCall, Zenon
<1>5. CASE Appended(r)
  <2> DEFINE to == Onward
             call == [c EXCEPT !.stage = to]
  <2>1. c.stage = "append" /\ Update(r, call) /\ to \notin {"new", "main", "streams", "failed"}
    BY <1>5 DEF Appended, Call, Onward
  <2> HIDE DEF to
  <2>2. CallOK(call) /\ call.stage = to
    BY <1>1, <2>1 DEF CallOK, CallFields
  <2> HIDE DEF call
  <2> QED BY <1>2, <1>5, <2>1, <2>2, OneCall DEF to
<1>6. CASE Stored(r)
  <2> DEFINE call == [c EXCEPT !.stage = "done"]
  <2>1. c.stage = "store" /\ Update(r, call)
    BY <1>6 DEF Stored, Call
  <2>2. CallOK(call) /\ call.stage = "done"
    BY <1>1, <2>1 DEF CallOK, CallFields
  <2> HIDE DEF call
  <2> QED BY <1>2, <1>6, <2>1, <2>2, OneCall
<1> QED BY <1>3, <1>4, <1>5, <1>6

\* A request that is joined is answered, where it loads, or stored, where it stores.
LEMMA JoinStepKeeps ==
  ASSUME JoinInv, NEW r \in Request, JoinStep(r)
  PROVE  /\ JoinInv'
         /\ side' = side /\ \A q \in Request : q # r => calls'[q] = calls[q]
         /\ Call(r).stage \notin {"done", "failed"}
         /\ Call(r).stage # "store" /\ Call(r)'.stage = "done" => side.op = "load"
<1>1. CASE Running(r) /\ Fail(r)
  BY <1>1, FailKeeps DEF Moves, Running, Call
<1>2. CASE Forward(r)
  BY <1>2, ForwardKeeps, Zenon DEF Moves, Forward, Call, Onward
<1>3. CASE LoadMain(r)
  BY <1>3, LoadMainKeeps, Zenon DEF Moves, LoadMain, Call
<1>7. CASE BeginJoin(r)
  BY <1>7, BeginJoinKeeps, Zenon DEF Moves, BeginJoin, Call
<1>8. CASE TakeMainKey(r) \/ TakeStreamKey(r)
  <2>1. PICK stream, n : TakeKey(r, stream, n)
    BY <1>8, Zenon DEF TakeMainKey, TakeStreamKey
  <2>2. Call(r).stage \in {"main", "streams"}
    BY <1>8, Zenon DEF TakeMainKey, TakeStreamKey
  <2>3. calls[r].stage # "new"
    BY <2>2 DEF Call
  <2> QED BY <2>1, <2>2, <2>3, TakeKeyKeeps, Zenon DEF Moves, Call
<1>4. CASE JoinStream(r)
  BY <1>4, JoinStreamKeeps, Zenon DEF Moves, JoinStream, Call
<1>5. CASE ExecuteJoin(r)
  BY <1>5, ExecuteJoinKeeps, Zenon DEF Moves, ExecuteJoin, Call, Onward
<1>6. CASE LoadMainToAppend(r) \/ AppendStream(r) \/ Appended(r)
  <2>1. Call(r).stage \in {"new", "append"}
    BY <1>6, Zenon DEF LoadMainToAppend, AppendStream, Appended
  <2>2. ~ Stored(r)
    BY <2>1 DEF Stored
  <2> QED BY <1>6, <2>1, <2>2, AppendKeeps, Zenon DEF Moves, Call, Onward
<1> QED BY <1>1, <1>2, <1>3, <1>4, <1>5, <1>6, <1>7, <1>8 DEF JoinStep

\* What changes nothing of the join keeps its invariant.
LEMMA JoinInvKept ==
  ASSUME JoinInv, UNCHANGED joinVars
  PROVE  JoinInv'
<1>1. side' = side /\ content' = content /\ calls' = calls /\ files' = files
  BY DEF joinVars
<1>2. \A r \in Request : FilesOK(r)' = FilesOK(r)
  BY <1>1 DEF FilesOK, Left, FilesOf, Call
<1> QED BY <1>1, <1>2 DEF JoinInv

-----------------------------------------------------------------------------
\* Sequences with the same counts have the same lines the same number of times.
LEMMA SameBag ==
  ASSUME NEW X, NEW s \in Seq(X), NEW t \in Seq(X), \A x : Count(s, x) = Count(t, x)
  PROVE  Times(s) = Times(t)
<1>1. Range(s) = Range(t)
  BY SameTimes
<1>2. \A x : Cardinality({n \in DOMAIN s : s[n] = x}) = Cardinality({n \in DOMAIN t : t[n] = x})
  BY DEF Count
<1> QED BY <1>1, <1>2 DEF Times

\* The stages of a partition.
PartStages == {"new", "running", "done", "failed"}

\* The lines of a request in the order they are stored in.
AllRows(out) == SortUnlessSkipped(Tail(out), Head(out))

\* What is split off and what is left are the lines of the request; a request is
\* answered when nothing is left.
PartOK(r) ==
  /\ DOMAIN parts[r] = {"stage", "header", "rows"}
  /\ parts[r].stage \in PartStages
  /\ parts[r].stage = "new" => stored[r] = <<>>
  /\ parts[r].stage # "new" => Call(r).stage \in {"store", "done", "failed"}
  /\ Call(r).stage = "done" /\ side.op = "store" => parts[r].stage = "done"
  /\ parts[r].stage \in {"running", "done"} =>
       /\ Call(r).out # <<>> /\ parts[r].header = Head(Call(r).out)
       /\ Split(r, AllRows(Call(r).out), Range(Call(r).out), PartitionIndex(Head(Call(r).out)))
  /\ parts[r].stage = "done" => parts[r].rows = <<>>

\* The inductive invariant of the partition.
PartsInv ==
  /\ DOMAIN parts = Request /\ DOMAIN stored = Request
  /\ \A r \in Request : PartOK(r)

\* Split and sorted is still the same bag, and where nothing is left it is all.
LEMMA SplitIsRight ==
  ASSUME NEW r \in Request, NEW out, IsSeq(out), out # <<>>,
         Split(r, AllRows(out), Range(out), PartitionIndex(Head(out))),
         parts[r].stage = "done" => parts[r].rows = <<>>
  PROVE  PartsAreRight(r, out)
<1> DEFINE mine == stored[r]
           ss == [n \in DOMAIN mine |-> mine[n].lines]
           taken == FlattenSeq(ss)
           i == PartitionIndex(Head(out))
           X == Range(out)
           rows == parts[r].rows
           T == Tail(out)
<1>1. T \in Seq(X)
  BY TailOfSeq
<1>2. mine \in Seq(Range(mine)) /\ Len(mine) \in Nat /\ DOMAIN mine = 1 .. Len(mine)
  BY LenProperties DEF Split, IsSeq
<1>3. rows \in Seq(X) /\ taken \o rows = AllRows(out)
  BY DEF Split
<1>4. ss \in Seq(Seq(X))
  <2>1. \A n \in 1 .. Len(mine) : mine[n].lines \in Seq(X)
    BY DEF Split
  <2>2. ss \in [1 .. Len(mine) -> Seq(X)]
    BY <1>2, <2>1
  <2> QED BY <1>2, <2>2, SeqDef
<1>5. taken \in Seq(X)
  <2> HIDE DEF ss
  <2> QED BY <1>4, FlattenSeqType
<1>6. AllRows(out) \in Seq(X) /\ \A x : Count(AllRows(out), x) = Count(T, x)
  <2>1. CASE partition.skipSort
    <3>1. AllRows(out) = T
      BY <2>1 DEF AllRows, SortUnlessSkipped
    <3> HIDE DEF T
    <3> QED BY <1>1, <3>1
  <2>2. CASE ~ partition.skipSort
    <3>1. AllRows(out) = Sorted(T, i)
      BY <2>2 DEF AllRows, SortUnlessSkipped
    <3> HIDE DEF T, i
    <3> QED BY <1>1, <3>1, SortedIs
  <2> QED BY <2>1, <2>2
<1>7. Times(taken \o rows) = Times(T)
  <2> HIDE DEF T
  <2> QED BY <1>1, <1>3, <1>6, SameBag
<1>8. ASSUME parts[r].stage = "done" PROVE Times(taken) = Times(T)
  <2>1. rows = <<>>
    BY <1>8
  <2> HIDE DEF T, taken
  <2>2. taken \o rows = taken
    BY <1>5, <2>1, ConcatEmptySeq
  <2> QED BY <1>7, <2>2
<1>9. \A n \in DOMAIN mine : \A line \in Range(mine[n].lines) : CellAt(line, i) = mine[n].key
  BY <1>2 DEF Split
<1>10. ~ partition.skipSort => \A n, k \in DOMAIN mine : mine[n].key = mine[k].key => n = k
  BY <1>2 DEF Split
<1> QED BY <1>7, <1>8, <1>9, <1>10, Zenon DEF PartsAreRight

\* What is stored for a request is what PartitionedOnce says of it.
LEMMA PartsInvIsRight ==
  ASSUME JoinInv, PartsInv PROVE PartitionedOnce
<1>1. ASSUME NEW r \in Request, parts[r].stage \in {"running", "done"}
      PROVE  PartsAreRight(r, Call(r).out)
  <2>1. /\ Call(r).out # <<>>
        /\ Split(r, AllRows(Call(r).out), Range(Call(r).out), PartitionIndex(Head(Call(r).out)))
        /\ parts[r].stage = "done" => parts[r].rows = <<>>
    BY <1>1 DEF PartsInv, PartOK
  <2>2. IsSeq(Call(r).out)
    BY DEF JoinInv, CallOK, Call
  <2> QED BY <2>1, <2>2, SplitIsRight
<1>2. ASSUME NEW r \in Request, parts[r].stage \notin {"running", "done"}
      PROVE  PartsAreRight(r, Call(r).out)
  BY <1>2 DEF PartsAreRight
<1>3. ASSUME NEW r \in Request, side.op = "store", Call(r).stage = "done"
      PROVE  parts[r].stage = "done"
  BY <1>3 DEF PartsInv, PartOK
<1> QED BY <1>1, <1>2, <1>3 DEF PartitionedOnce

\* The partition begins in a state of its invariant.
LEMMA PartsInitInv == JoinInit /\ PartitionInit => PartsInv
<1> SUFFICES ASSUME JoinInit, PartitionInit PROVE PartsInv
  OBVIOUS
<1>1. \A r \in Request : Call(r).stage = "new"
  BY DEF JoinInit, Call, NewCall
<1>2. \A r \in Request : PartOK(r)
  BY <1>1 DEF PartitionInit, PartOK, PartStages
<1> QED BY <1>2 DEF PartitionInit, PartsInv

\* What is said of a request is about nothing else.
LEMMA PartKept ==
  ASSUME NEW r \in Request, PartOK(r), parts'[r] = parts[r], stored'[r] = stored[r],
         partition' = partition, side' = side, calls'[r] = calls[r]
  PROVE  PartOK(r)'
<1> DEFINE out == calls[r].out
           i == PartitionIndex(Head(out))
<1>2. AllRows(Call(r).out)' = AllRows(out) /\ PartitionIndex(Head(Call(r).out))' = i
  BY DEF AllRows, SortUnlessSkipped, PartitionIndex, Call
<1>3. Split(r, AllRows(Call(r).out), Range(Call(r).out), PartitionIndex(Head(Call(r).out)))'
        = Split(r, AllRows(out), Range(out), i)
  <2>1. Split(r, AllRows(out), Range(out), i)' = Split(r, AllRows(out), Range(out), i)
    BY DEF Split, AllRows, SortUnlessSkipped, PartitionIndex
  <2> QED BY <1>2, <2>1 DEF Call
<1> QED BY <1>3 DEF PartOK, Call

\* A step of the join before there is anything to store.
LEMMA JoinStepPart ==
  ASSUME JoinInv, PartsInv, NEW r \in Request, Call(r).stage # "store", JoinStep(r),
         UNCHANGED partitionVars
  PROVE  PartsInv'
<1>1. parts' = parts /\ stored' = stored /\ partition' = partition
  BY DEF partitionVars
<1>2. /\ side' = side /\ \A q \in Request : q # r => calls'[q] = calls[q]
      /\ Call(r).stage \notin {"done", "failed"}
      /\ Call(r)'.stage = "done" => side.op = "load"
  BY JoinStepKeeps
<1>3. parts[r].stage = "new" /\ PartOK(r)
  BY <1>2 DEF PartsInv, PartOK
<1>4. PartOK(r)'
  BY <1>1, <1>2, <1>3 DEF PartOK
<1>5. ASSUME NEW q \in Request, q # r PROVE PartOK(q)'
  BY <1>1, <1>2, <1>5, PartKept DEF PartsInv
<1> QED BY <1>1, <1>4, <1>5 DEF PartsInv

\* The partition takes what the join sends on.
LEMMA SendOnPart ==
  ASSUME JoinInv, PartsInv, NEW r \in Request, SendOn(r)
  PROVE  PartsInv'
<1> DEFINE out == Call(r).out
           i == PartitionIndex(Head(out))
           X == Range(out)
           rows == AllRows(out)
<1>1. /\ side' = side /\ calls' = calls /\ partition' = partition /\ stored' = stored
      /\ Call(r).stage = "store"
  BY DEF SendOn, joinVars, BeginPartition, RefusePartition
<1>2. DOMAIN parts = Request /\ DOMAIN stored = Request /\ PartOK(r)
  BY DEF PartsInv
<1>3. CASE BeginPartition(r, out)
  <2> DEFINE new == [stage |-> "running", header |-> Head(out), rows |-> rows]
  <2>1. /\ parts[r].stage = "new" /\ out # <<>>
        /\ parts' = [parts EXCEPT ![r] = new]
    BY <1>3 DEF BeginPartition, AllRows
  <2>2. DOMAIN parts' = Request /\ parts'[r] = new /\ \A q \in Request : q # r => parts'[q] = parts[q]
    BY <1>2, <2>1
  <2>3. stored[r] = <<>>
    BY <1>2, <2>1 DEF PartOK
  <2>4. IsSeq(out)
    BY DEF JoinInv, CallOK, Call
  <2>5. Tail(out) \in Seq(X)
    BY <2>1, <2>4, TailOfSeq
  <2>6. rows \in Seq(X) /\ (~ partition.skipSort => Grouped(rows, i))
    <3> DEFINE T == Tail(out)
    <3>1. CASE partition.skipSort
      <4>1. rows = T
        BY <3>1 DEF AllRows, SortUnlessSkipped
      <4> QED BY <2>5, <3>1, <4>1
    <3>2. CASE ~ partition.skipSort
      <4>1. rows = Sorted(T, i)
        BY <3>2 DEF AllRows, SortUnlessSkipped
      <4> HIDE DEF T, i, rows
      <4>2. T \in Seq(X)
        BY <2>5 DEF T
      <4> QED BY <4>1, <4>2, SortedIs
    <3> QED BY <3>1, <3>2
  <2>7. new.stage = "running" /\ new.header = Head(out) /\ new.rows = rows
        /\ DOMAIN new = {"stage", "header", "rows"}
    OBVIOUS
  <2> HIDE DEF new
  <2>8. Split(r, rows, X, i)'
    <3>1. rows' = rows /\ X' = X /\ i' = i
      BY <1>1 DEF AllRows, SortUnlessSkipped, PartitionIndex, Call
    <3> HIDE DEF rows, X, i
    <3>2. FlattenSeq([n \in DOMAIN <<>> |-> <<>>[n].lines]) \o rows = rows
      <4>1. [n \in DOMAIN <<>> |-> <<>>[n].lines] = <<>>
        OBVIOUS
      <4> QED BY <2>6, <4>1, FlattenSeqEmpty, ConcatEmptySeq
    <3>3. stored'[r] = <<>> /\ parts'[r].rows = rows /\ partition' = partition
      BY <1>1, <2>2, <2>3, <2>7
    <3>4. Len(<<>>) = 0 /\ \A n \in 1 .. 0 : FALSE
      OBVIOUS
    <3> QED BY <2>6, <3>1, <3>2, <3>3, <3>4, EmptyIsSeq DEF Split
  <2>9. PartOK(r)'
    <3>1. Call(r)' = Call(r)
      BY <1>1 DEF Call
    <3> HIDE DEF rows, i, X
    <3> QED BY <1>1, <2>1, <2>2, <2>7, <2>8, <3>1 DEF PartOK, PartStages, rows, i, X
  <2>10. ASSUME NEW q \in Request, q # r PROVE PartOK(q)'
    BY <1>1, <2>2, <2>10, PartKept DEF PartsInv
  <2> QED BY <1>1, <1>2, <2>2, <2>9, <2>10 DEF PartsInv
<1>4. CASE RefusePartition(r)
  <2> DEFINE new == [parts[r] EXCEPT !.stage = "failed"]
  <2>1. parts[r].stage = "new" /\ parts' = [parts EXCEPT ![r] = new]
    BY <1>4 DEF RefusePartition
  <2>2. DOMAIN parts' = Request /\ parts'[r] = new /\ \A q \in Request : q # r => parts'[q] = parts[q]
    BY <1>2, <2>1
  <2>3. new.stage = "failed" /\ DOMAIN new = {"stage", "header", "rows"}
    BY <1>2 DEF PartOK
  <2> HIDE DEF new
  <2>4. PartOK(r)'
    <3>1. Call(r)'.stage = "store"
      BY <1>1 DEF Call
    <3> QED BY <1>1, <2>2, <2>3, <3>1 DEF PartOK, PartStages
  <2>5. ASSUME NEW q \in Request, q # r PROVE PartOK(q)'
    BY <1>1, <2>2, <2>5, PartKept DEF PartsInv
  <2> QED BY <1>1, <1>2, <2>2, <2>4, <2>5 DEF PartsInv
<1> QED BY <1>3, <1>4 DEF SendOn

\* A part goes to the route, or the loop ends.
LEMMA SplitOnPart ==
  ASSUME JoinInv, PartsInv, NEW r \in Request, SplitOn(r)
  PROVE  PartsInv'
<1> DEFINE out == Call(r).out
           i == PartitionIndex(Head(out))
           X == Range(out)
           all == AllRows(out)
<1>1. /\ side' = side /\ calls' = calls /\ partition' = partition
      /\ parts[r].stage = "running"
  BY DEF SplitOn, joinVars, StorePart, RefusePart, EndPartition
<1>2. DOMAIN parts = Request /\ DOMAIN stored = Request /\ PartOK(r)
  BY DEF PartsInv
<1>3. /\ Call(r).stage \in {"store", "done", "failed"} /\ ~ (Call(r).stage = "done" /\ side.op = "store")
      /\ out # <<>> /\ parts[r].header = Head(out) /\ Split(r, all, X, i)
      /\ DOMAIN parts[r] = {"stage", "header", "rows"}
  BY <1>1, <1>2 DEF PartOK
<1>4. Call(r)' = Call(r) /\ all' = all /\ X' = X /\ i' = i
  BY <1>1 DEF AllRows, SortUnlessSkipped, PartitionIndex, Call
<1>5. CASE StorePart(r)
  <2> DEFINE rows == parts[r].rows
             n == RunLength(rows, i)
             part == [key |-> CellAt(rows[1], i), lines |-> SubSeq(rows, 1, n)]
             rest == SubSeq(rows, n + 1, Len(rows))
  <2>1. /\ rows # <<>>
        /\ stored' = [stored EXCEPT ![r] = Append(@, part)]
        /\ parts' = [parts EXCEPT ![r].rows = rest]
    BY <1>3, <1>5 DEF StorePart
  <2>2. /\ DOMAIN parts' = Request /\ DOMAIN stored' = Request
        /\ stored'[r] = Append(stored[r], part)
        /\ parts'[r] = [parts[r] EXCEPT !.rows = rest]
        /\ \A q \in Request : q # r => parts'[q] = parts[q] /\ stored'[q] = stored[q]
    BY <1>2, <2>1
  <2>3. parts'[r].rows = rest /\ parts'[r].stage = "running" /\ parts'[r].header = Head(out)
        /\ DOMAIN parts'[r] = {"stage", "header", "rows"}
    BY <1>1, <1>3, <2>2
  <2>4. Split(r, all, X, i)'
    <3> HIDE DEF all, X, i
    <3>1. \A b, Y, j : b = all /\ Y = X /\ j = i => Split(r, b, Y, j)'
      BY <1>1, <1>3, <2>1, <2>2, <2>3, StorePartSplits
    <3> QED BY <1>4, <3>1
  <2>5. PartOK(r)'
    <3> HIDE DEF all, i, X
    <3> QED BY <1>1, <1>3, <1>4, <2>3, <2>4 DEF PartOK, PartStages, all, i, X
  <2>6. ASSUME NEW q \in Request, q # r PROVE PartOK(q)'
    BY <1>1, <2>2, <2>6, PartKept DEF PartsInv
  <2> QED BY <2>2, <2>5, <2>6 DEF PartsInv
<1>6. CASE RefusePart(r) \/ EndPartition(r)
  <2>1. PICK stage \in {"failed", "done"} :
          /\ stage = "done" => parts[r].rows = <<>>
          /\ parts' = [parts EXCEPT ![r].stage = stage] /\ stored' = stored
    BY <1>6 DEF RefusePart, EndPartition
  <2>2. /\ DOMAIN parts' = Request
        /\ parts'[r] = [parts[r] EXCEPT !.stage = stage]
        /\ \A q \in Request : q # r => parts'[q] = parts[q] /\ stored'[q] = stored[q]
    BY <1>2, <2>1
  <2>3. parts'[r].rows = parts[r].rows /\ parts'[r].stage = stage /\ parts'[r].header = Head(out)
        /\ DOMAIN parts'[r] = {"stage", "header", "rows"}
    BY <1>1, <1>3, <2>2
  <2>4. Split(r, all, X, i)'
    <3> HIDE DEF all, X, i
    <3> QED BY <1>1, <1>3, <1>4, <2>1, <2>3 DEF Split
  <2>5. PartOK(r)'
    <3> HIDE DEF all, i, X
    <3> QED BY <1>1, <1>3, <1>4, <2>1, <2>3, <2>4 DEF PartOK, PartStages, all, i, X
  <2>6. ASSUME NEW q \in Request, q # r PROVE PartOK(q)'
    BY <1>1, <2>2, <2>6, PartKept DEF PartsInv
  <2> QED BY <1>2, <2>1, <2>2, <2>5, <2>6 DEF PartsInv
<1> QED BY <1>5, <1>6 DEF SplitOn

\* The answer of the partition is the answer of the join.
LEMMA AnsweredPart ==
  ASSUME JoinInv, PartsInv, NEW r \in Request, Answered(r)
  PROVE  JoinInv' /\ PartsInv'
<1>1. parts' = parts /\ stored' = stored /\ partition' = partition /\ Call(r).stage = "store"
  BY DEF Answered, partitionVars
<1>2. CASE parts[r].stage = "done" /\ Stored(r)
  <2>1. JoinInv' /\ Moves(r, {"done"})
    <3>1. ~ LoadMainToAppend(r) /\ ~ AppendStream(r) /\ ~ Appended(r)
      BY <1>1 DEF LoadMainToAppend, AppendStream, Appended
    <3> QED BY <1>2, <3>1, AppendKeeps
  <2>2. Call(r)' = [Call(r) EXCEPT !.stage = "done"] /\ DOMAIN Call(r) = CallFields
    BY <1>2 DEF JoinInv, Stored, Update, Call, CallOK
  <2>3. Call(r)'.out = Call(r).out /\ Call(r)'.stage = "done"
    BY <2>2 DEF CallFields
  <2>4. PartOK(r)'
    <3>1. PartOK(r)
      BY DEF PartsInv
    <3> DEFINE out == Call(r).out
    <3>2. Split(r, AllRows(Call(r).out), Range(Call(r).out), PartitionIndex(Head(Call(r).out)))'
            = Split(r, AllRows(out), Range(out), PartitionIndex(Head(out)))
      BY <1>1, <2>3 DEF Split, AllRows, SortUnlessSkipped, PartitionIndex
    <3> QED BY <1>1, <1>2, <2>3, <3>1, <3>2 DEF PartOK
  <2>5. ASSUME NEW q \in Request, q # r PROVE PartOK(q)'
    BY <1>1, <2>1, <2>5, PartKept DEF PartsInv, Moves
  <2> QED BY <1>1, <2>1, <2>4, <2>5 DEF PartsInv
<1>3. CASE parts[r].stage = "failed" /\ Fail(r)
  <2>1. JoinInv' /\ Moves(r, {"failed"})
    BY <1>3, FailKeeps
  <2>2. Call(r)'.stage = "failed"
    BY <2>1 DEF Moves, Call
  <2>3. PartOK(r)'
    BY <1>1, <1>3, <2>2 DEF PartsInv, PartOK
  <2>4. ASSUME NEW q \in Request, q # r PROVE PartOK(q)'
    BY <1>1, <2>1, <2>4, PartKept DEF PartsInv, Moves
  <2> QED BY <1>1, <2>1, <2>3, <2>4 DEF PartsInv
<1> QED BY <1>2, <1>3 DEF Answered

\* Every step of a request through join and partition keeps both invariants.
LEMMA PipelineKeeps ==
  ASSUME JoinInv, PartsInv, NEW r \in Request, JoinThenPartition(r)
  PROVE  JoinInv' /\ PartsInv'
<1>1. CASE Call(r).stage # "store" /\ JoinStep(r) /\ UNCHANGED partitionVars
  BY <1>1, JoinStepKeeps, JoinStepPart
<1>2. CASE SendOn(r)
  <2>1. UNCHANGED joinVars
    BY <1>2 DEF SendOn
  <2> QED BY <1>2, <2>1, JoinInvKept, SendOnPart
<1>3. CASE SplitOn(r)
  <2>1. UNCHANGED joinVars
    BY <1>3 DEF SplitOn
  <2> QED BY <1>3, <2>1, JoinInvKept, SplitOnPart
<1>4. CASE Answered(r)
  BY <1>4, AnsweredPart
<1> QED BY <1>1, <1>2, <1>3, <1>4 DEF JoinThenPartition

\* So does every step of something else.
LEMMA PipelineKept ==
  ASSUME JoinInv, PartsInv, UNCHANGED pipelineVars
  PROVE  JoinInv' /\ PartsInv'
<1>1. UNCHANGED joinVars /\ parts' = parts /\ stored' = stored /\ partition' = partition
      /\ side' = side /\ calls' = calls
  BY DEF pipelineVars, joinVars
<1>2. \A r \in Request : PartOK(r)'
  BY <1>1, PartKept DEF PartsInv
<1> QED BY <1>1, <1>2, JoinInvKept DEF PartsInv

-----------------------------------------------------------------------------
\* Append adds an element to the range.
LEMMA RangeAppend ==
  ASSUME NEW X, NEW s \in Seq(X), NEW e
  PROVE  Range(Append(s, e)) = Range(s) \union {e}
<1> DEFINE Y == X \union {e}
<1>1. s \in Seq(Y) /\ e \in Y
  BY SeqMonotonic
<1> HIDE DEF Y
<1>2. Append(s, e) = s \o <<e>> /\ <<e>> \in Seq(Y)
  BY <1>1, AppendIsConcat
<1>3. Range(s \o <<e>>) = Range(s) \union Range(<<e>>)
  BY <1>1, <1>2, RangeConcatenation
<1>4. Range(<<e>>) = {e}
  <2>1. DOMAIN <<e>> = {1} /\ <<e>>[1] = e
    OBVIOUS
  <2> QED BY <2>1 DEF Range
<1> QED BY <1>2, <1>3, <1>4

\* The greatest of finitely many names.
LEMMA MaxIs ==
  ASSUME NEW S, IsFiniteSet(S), S \subseteq Nat, S # {}
  PROVE  Max(S) \in S /\ \A x \in S : x <= Max(S)
<1> DEFINE U(x) == {y \in S : y > x}
           T == {Cardinality(U(x)) : x \in S}
<1>1. \A x \in S : IsFiniteSet(U(x)) /\ Cardinality(U(x)) \in Nat
  <2> SUFFICES ASSUME NEW x \in S PROVE IsFiniteSet(U(x)) /\ Cardinality(U(x)) \in Nat
    OBVIOUS
  <2>1. U(x) \in SUBSET S
    OBVIOUS
  <2> HIDE DEF U
  <2> QED BY <2>1, FS_Subset, FS_CardinalityType
<1> HIDE DEF U
<1>2. PICK m \in T : \A n \in T : m <= n
  <2>1. T \subseteq Nat /\ T # {}
    BY <1>1
  <2> HIDE DEF T
  <2> QED BY <2>1, LeastNatural
<1>3. PICK x \in S : m = Cardinality(U(x))
  BY <1>2
<1>4. ASSUME NEW y \in U(x) PROVE FALSE
  <2>1. y \in S /\ U(y) \subseteq U(x) /\ y \notin U(y)
    <3>1. y \in S /\ y > x /\ y \in Nat /\ x \in Nat
      BY <1>4 DEF U
    <3>2. \A z \in S : z > y => z > x
      BY <3>1
    <3>3. ~ (y > y)
      BY <3>1
    <3> QED BY <3>1, <3>2, <3>3 DEF U
  <2>2. U(y) \in SUBSET U(x) /\ U(y) # U(x)
    BY <1>4, <2>1
  <2>3. IsFiniteSet(U(x)) /\ Cardinality(U(x)) \in Nat /\ Cardinality(U(y)) \in Nat
    BY <1>1, <2>1
  <2>4. Cardinality(U(y)) <= Cardinality(U(x)) /\ Cardinality(U(y)) # Cardinality(U(x))
    BY <2>2, <2>3, FS_Subset
  <2>5. Cardinality(U(x)) <= Cardinality(U(y))
    BY <1>2, <1>3, <2>1
  <2> QED BY <2>3, <2>4, <2>5
<1>5. \A y \in S : x >= y
  <2>1. ASSUME NEW y \in S PROVE x >= y
    <3>1. x \in Nat /\ y \in Nat /\ y \notin U(x)
      BY <1>4
    <3> QED BY <3>1 DEF U
  <2> QED BY <2>1
<1>6. Max(S) \in S /\ \A y \in S : Max(S) >= y
  BY <1>5 DEF Max
<1> QED BY <1>6

-----------------------------------------------------------------------------
\* Where the value of a name is never looked for in the stream.
Skips(policy, given, name) == policy = "useParameter" /\ name \in DOMAIN given

\* The states of the loop over the header.
ColumnStates(required, header) ==
  [found : Seq(DOMAIN required), indices : Seq(1 .. Len(header)), used : Seq(DOMAIN required),
   missing : SUBSET DOMAIN required, refused : BOOLEAN]

\* A name is among the first n columns.
Occurs(header, n, name) == \E k \in 1 .. n : header[k] = name

\* A name is among the first n columns more than once.
Twice(header, n, name) == \E j, k \in 1 .. n : j < k /\ header[j] = name /\ header[k] = name

\* What the first n names of the header have come to.
Scanned(s, n, required, policy, header, given) ==
  /\ s \in ColumnStates(required, header)
  /\ s.used = <<>> /\ Len(s.indices) = Len(s.found)
  /\ \A k \in 1 .. Len(s.found) :
       /\ s.indices[k] \in 1 .. n /\ header[s.indices[k]] = s.found[k]
       /\ \A j \in 1 .. n : header[j] = s.found[k] => s.indices[k] <= j
  /\ \A j, k \in 1 .. Len(s.found) : s.found[j] = s.found[k] => j = k
  /\ s.missing = DOMAIN required \ Range(s.found)
  /\ \A name \in DOMAIN required :
       name \in Range(s.found) <=> Occurs(header, n, name) /\ ~ Skips(policy, given, name)
  /\ s.refused <=> \E name \in DOMAIN required :
                     ~ Skips(policy, given, name) /\ Twice(header, n, name)

\* The loop over the header begins with no name.
LEMMA ScannedFirst ==
  ASSUME NEW required, NEW policy, NEW header, NEW given
  PROVE  Scanned(NothingFound(required), 0, required, policy, header, given)
<1>1. NothingFound(required) \in ColumnStates(required, header)
  BY DEF NothingFound, ColumnStates
<1>2. Len(<<>>) = 0 /\ Range(<<>>) = {} /\ 1 .. 0 = {}
  BY DEF Range
<1> QED BY <1>1, <1>2 DEF Scanned, NothingFound, Occurs, Twice

\* The loop over the header stays in its states.
LEMMA FindColumnType ==
  ASSUME NEW required, NEW policy, NEW header, NEW given, NEW i \in 1 .. Len(header),
         NEW s \in ColumnStates(required, header)
  PROVE  FindColumn(s, header, policy, given, i) \in ColumnStates(required, header)
<1> DEFINE x == header[i]
           D == DOMAIN required
<1>1. CASE x \in s.missing
  <2> DEFINE f == Append(s.found, x)
             k == Append(s.indices, i)
             m == s.missing \ {x}
  <2>1. f \in Seq(D) /\ k \in Seq(1 .. Len(header)) /\ m \in SUBSET D
    BY <1>1, AppendProperties DEF ColumnStates
  <2>2. \/ FindColumn(s, header, policy, given, i) = s
        \/ FindColumn(s, header, policy, given, i)
             = [s EXCEPT !.found = f, !.indices = k, !.missing = m]
    BY <1>1 DEF FindColumn
  <2> HIDE DEF f, k, m
  <2> QED BY <2>1, <2>2 DEF ColumnStates
<1>2. CASE x \notin s.missing
  <2>1. FindColumn(s, header, policy, given, i)
          = [s EXCEPT !.refused = s.refused \/ x \in Range(s.found)]
    BY <1>2 DEF FindColumn
  <2> QED BY <2>1 DEF ColumnStates
<1> QED BY <1>1, <1>2

\* One more name of the header.
LEMMA ScannedNext ==
  ASSUME NEW required, NEW policy, NEW header, NEW given, NEW n \in Nat, n + 1 \in 1 .. Len(header),
         NEW s, Scanned(s, n, required, policy, header, given)
  PROVE  Scanned(FindColumn(s, header, policy, given, n + 1), n + 1,
                 required, policy, header, given)
<1> DEFINE i == n + 1
           x == header[i]
           D == DOMAIN required
           t == FindColumn(s, header, policy, given, i)
           L == Len(s.found)
<1>1. t \in ColumnStates(required, header)
  BY FindColumnType DEF Scanned
<1>2. /\ s \in ColumnStates(required, header)
      /\ s.used = <<>> /\ Len(s.indices) = L
      /\ \A k \in 1 .. L :
           /\ s.indices[k] \in 1 .. n /\ header[s.indices[k]] = s.found[k]
           /\ \A j \in 1 .. n : header[j] = s.found[k] => s.indices[k] <= j
      /\ \A j, k \in 1 .. L : s.found[j] = s.found[k] => j = k
      /\ s.missing = D \ Range(s.found)
      /\ \A name \in D :
           name \in Range(s.found) <=> Occurs(header, n, name) /\ ~ Skips(policy, given, name)
      /\ s.refused <=> \E name \in D : ~ Skips(policy, given, name) /\ Twice(header, n, name)
  BY DEF Scanned
<1>3. /\ s.found \in Seq(D) /\ s.indices \in Seq(1 .. Len(header)) /\ L \in Nat
      /\ Range(s.found) = {s.found[k] : k \in 1 .. L}
      /\ s = [found |-> s.found, indices |-> s.indices, used |-> s.used,
              missing |-> s.missing, refused |-> s.refused]
  BY <1>2, LenProperties, RangeEquality DEF ColumnStates
<1>4. i \in 1 .. i /\ \A k \in 1 .. i : k \in 1 .. n \/ k = i
  OBVIOUS
<1>5. \A k \in 1 .. n : k \in 1 .. i /\ k < i
  OBVIOUS
<1>6. \A name : Occurs(header, i, name) <=> Occurs(header, n, name) \/ x = name
  BY <1>4, <1>5 DEF Occurs
<1>7. \A name : Twice(header, i, name) <=> Twice(header, n, name) \/ (x = name /\ Occurs(header, n, name))
  <2>1. ASSUME NEW name, Twice(header, i, name)
        PROVE  Twice(header, n, name) \/ (x = name /\ Occurs(header, n, name))
    <3>1. PICK j \in 1 .. i, k \in 1 .. i : j < k /\ header[j] = name /\ header[k] = name
      BY <2>1 DEF Twice
    <3>2. j \in 1 .. n
      BY <3>1
    <3>3. CASE k = i
      BY <3>1, <3>2, <3>3 DEF Occurs
    <3>4. CASE k \in 1 .. n
      BY <3>1, <3>2, <3>4 DEF Twice
    <3> QED BY <1>4, <3>3, <3>4
  <2>2. ASSUME NEW name, Twice(header, n, name) PROVE Twice(header, i, name)
    <3>1. PICK j \in 1 .. n, k \in 1 .. n : j < k /\ header[j] = name /\ header[k] = name
      BY <2>2 DEF Twice
    <3>2. j \in 1 .. i /\ k \in 1 .. i
      BY <1>5
    <3> QED BY <3>1, <3>2 DEF Twice
  <2>3. ASSUME NEW name, x = name, Occurs(header, n, name) PROVE Twice(header, i, name)
    <3>1. PICK j \in 1 .. n : header[j] = name
      BY <2>3 DEF Occurs
    <3>2. j \in 1 .. i /\ i \in 1 .. i /\ j < i
      BY <1>4, <1>5
    <3> QED BY <2>3, <3>1, <3>2 DEF Twice
  <2> QED BY <2>1, <2>2, <2>3
<1>8. \A k \in 1 .. L : s.found[k] = x /\ s.indices[k] \in 1 .. n => s.indices[k] <= i
  BY <1>5
<1>9. t = IF x \notin s.missing THEN [s EXCEPT !.refused = @ \/ x \in Range(s.found)]
          ELSE IF policy = "useParameter" /\ x \in DOMAIN given THEN s
          ELSE [s EXCEPT !.found = Append(@, x), !.indices = Append(@, i), !.missing = @ \ {x}]
  BY Zenon DEF FindColumn
<1> HIDE DEF i, x, t, L
<1>10. CASE x \in s.missing /\ Skips(policy, given, x)
  <2>0. x \in s.missing /\ policy = "useParameter" /\ x \in DOMAIN given
    BY <1>10 DEF Skips
  <2>1. t = s
    BY <1>9, <2>0
  <2>2. x \in D /\ x \notin Range(s.found)
    BY <1>2, <1>10
  <2>3. ASSUME NEW k \in 1 .. L
        PROVE  /\ s.indices[k] \in 1 .. i /\ header[s.indices[k]] = s.found[k]
               /\ \A j \in 1 .. i : header[j] = s.found[k] => s.indices[k] <= j
    <3>1. s.indices[k] \in 1 .. n /\ header[i] # s.found[k]
      BY <1>2, <1>3, <2>2 DEF x
    <3> QED BY <1>2, <1>4, <1>5, <3>1
  <2>4. \A name \in D :
          name \in Range(s.found) <=> Occurs(header, i, name) /\ ~ Skips(policy, given, name)
    BY <1>2, <1>6, <1>10
  <2>5. s.refused <=> \E name \in D : ~ Skips(policy, given, name) /\ Twice(header, i, name)
    BY <1>2, <1>7, <1>10
  <2>6. Scanned(s, i, required, policy, header, given)
    BY <1>2, <2>3, <2>4, <2>5 DEF Scanned, L
  <2> QED BY <2>1, <2>6 DEF t, i
<1>11. CASE x \in s.missing /\ ~ Skips(policy, given, x)
  <2> DEFINE f == Append(s.found, x)
             d == Append(s.indices, i)
             m == s.missing \ {x}
  <2>1. x \in D /\ x \notin Range(s.found) /\ ~ Occurs(header, n, x)
    BY <1>2, <1>11
  <2>2. /\ f \in Seq(D) /\ Len(f) = L + 1 /\ f[L + 1] = x /\ \A k \in 1 .. L : f[k] = s.found[k]
        /\ Range(f) = Range(s.found) \union {x}
    BY <1>3, <2>1, AppendProperties, RangeAppend DEF L
  <2>3. /\ d \in Seq(1 .. Len(header)) /\ Len(d) = L + 1 /\ d[L + 1] = i
        /\ \A k \in 1 .. L : d[k] = s.indices[k]
    <3>1. i \in 1 .. Len(header)
      BY DEF i
    <3> QED BY <1>2, <1>3, <3>1, AppendProperties DEF L
  <2> HIDE DEF f, d, m
  <2>4. t = [s EXCEPT !.found = f, !.indices = d, !.missing = m]
    BY <1>9, <1>11 DEF Skips, f, d, m
  <2>5. t.found = f /\ t.indices = d /\ t.missing = m /\ t.used = s.used /\ t.refused = s.refused
    BY <1>3, <2>4
  <2>6. \A k \in 1 .. L + 1 : k \in 1 .. L \/ k = L + 1
    BY <1>3
  <2>7. ASSUME NEW k \in 1 .. L + 1
        PROVE  /\ d[k] \in 1 .. i /\ header[d[k]] = f[k]
               /\ \A j \in 1 .. i : header[j] = f[k] => d[k] <= j
    <3>1. CASE k = L + 1
      <4>1. \A j \in 1 .. n : header[j] # x
        BY <2>1 DEF Occurs
      <4>2. i <= i
        BY DEF i
      <4> QED BY <1>4, <2>2, <2>3, <3>1, <4>1, <4>2 DEF x
    <3>2. CASE k # L + 1
      <4>1. k \in 1 .. L /\ d[k] = s.indices[k] /\ f[k] = s.found[k]
        BY <2>2, <2>3, <2>6, <3>2
      <4>2. d[k] \in 1 .. n /\ header[i] # f[k]
        BY <1>2, <1>3, <2>1, <4>1 DEF x
      <4> QED BY <1>2, <1>4, <1>5, <4>1, <4>2
    <3> QED BY <3>1, <3>2
  <2>8. ASSUME NEW j \in 1 .. L + 1, NEW k \in 1 .. L + 1, f[j] = f[k] PROVE j = k
    <3>1. \A q \in 1 .. L : f[q] # x
      BY <1>3, <2>1, <2>2
    <3> QED BY <1>2, <2>2, <2>6, <2>8, <3>1
  <2>9. m = D \ Range(f)
    BY <1>2, <2>2 DEF m
  <2>10. \A name \in D :
           name \in Range(f) <=> Occurs(header, i, name) /\ ~ Skips(policy, given, name)
    BY <1>2, <1>6, <1>11, <2>2
  <2>11. s.refused <=> \E name \in D : ~ Skips(policy, given, name) /\ Twice(header, i, name)
    BY <1>2, <1>7, <2>1
  <2>12. Scanned(t, i, required, policy, header, given)
    BY <1>1, <1>2, <2>2, <2>3, <2>5, <2>7, <2>8, <2>9, <2>10, <2>11 DEF Scanned
  <2> QED BY <2>12 DEF t, i
<1>12. CASE x \notin s.missing
  <2> DEFINE v == s.refused \/ x \in Range(s.found)
  <2>1. t = [s EXCEPT !.refused = v]
    BY <1>9, <1>12
  <2>2. x \in D => x \in Range(s.found) /\ Occurs(header, n, x) /\ ~ Skips(policy, given, x)
    BY <1>2, <1>12
  <2>3. v <=> \E name \in D : ~ Skips(policy, given, name) /\ Twice(header, i, name)
    <3>1. Range(s.found) \subseteq D
      BY <1>3, RangeOfSeq
    <3> QED BY <1>2, <1>7, <2>2, <3>1
  <2> HIDE DEF v
  <2>4. t.found = s.found /\ t.indices = s.indices /\ t.missing = s.missing /\ t.used = s.used /\ t.refused = v
    BY <1>3, <2>1
  <2>5. ASSUME NEW k \in 1 .. L
        PROVE  /\ s.indices[k] \in 1 .. i /\ header[s.indices[k]] = s.found[k]
               /\ \A j \in 1 .. i : header[j] = s.found[k] => s.indices[k] <= j
    <3>1. s.indices[k] \in 1 .. n /\ s.indices[k] <= i
      <4>1. s.indices[k] \in 1 .. n
        BY <1>2
      <4> QED BY <4>1 DEF i
    <3> QED BY <1>2, <1>4, <1>5, <3>1
  <2>6. \A name \in D :
          name \in Range(s.found) <=> Occurs(header, i, name) /\ ~ Skips(policy, given, name)
    BY <1>2, <1>6, <2>2
  <2>7. Scanned(t, i, required, policy, header, given)
    BY <1>1, <1>2, <2>3, <2>4, <2>5, <2>6 DEF Scanned, L
  <2> QED BY <2>7 DEF t, i
<1> QED BY <1>10, <1>11, <1>12

-----------------------------------------------------------------------------
\* What the loop over the header comes to.
StreamOf(required, policy, header, given) ==
  LET InStream[n \in 0 .. Len(header)] ==
        IF n = 0 THEN NothingFound(required)
        ELSE FindColumn(InStream[n - 1], header, policy, given, n)
  IN  InStream[Len(header)]

\* The loop over the header has seen the whole header at its end.
LEMMA StreamScanned ==
  ASSUME NEW required, NEW policy, NEW header, NEW given, Len(header) \in Nat
  PROVE  Scanned(StreamOf(required, policy, header, given), Len(header),
                 required, policy, header, given)
<1> DEFINE N == Len(header)
           S == ColumnStates(required, header)
           b == NothingFound(required)
           One(n, x) == FindColumn(x, header, policy, given, n)
           F == [n \in 1 .. N |-> [x \in S |-> One(n, x)]]
           P(h) == h = [n \in 0 .. N |-> IF n = 0 THEN b ELSE One(n, h[n - 1])]
           f == CHOOSE h : P(h)
           Good(n, x) == Scanned(x, n, required, policy, header, given)
<1>1. StreamOf(required, policy, header, given) = f[N]
  BY Zenon DEF StreamOf
<1>2. \A n \in 1 .. N, x \in S : One(n, x) \in S
  BY FindColumnType
<1>3. F \in [1 .. N -> [S -> S]] /\ \A n \in 1 .. N, x \in S : F[n][x] = One(n, x)
  BY <1>2
<1>4. b \in S /\ Good(0, b)
  BY ScannedFirst DEF Scanned
<1>5. ASSUME NEW n \in Nat, n + 1 \in 1 .. N, NEW x, Good(n, x) PROVE Good(n + 1, One(n + 1, x))
  BY <1>5, ScannedNext
<1>6. N \in Nat
  OBVIOUS
<1> HIDE DEF One, b, S, F, N, Good
<1>7. PICK g : IteratesUpto(g, N, b, F, S)
  BY <1>3, <1>4, <1>6, FiniteRecursion
<1>8. g \in [0 .. N -> S] /\ \A n \in 0 .. N : g[n] = IF n = 0 THEN b ELSE F[n][g[n - 1]]
  BY <1>7 DEF IteratesUpto
<1>9. ASSUME NEW n \in 0 .. N, n # 0 PROVE g[n] = One(n, g[n - 1])
  <2>1. n \in 1 .. N /\ n - 1 \in 0 .. N
    BY <1>6, <1>9
  <2>2. g[n - 1] \in S /\ g[n] = F[n][g[n - 1]]
    BY <1>8, <1>9, <2>1
  <2> QED BY <1>3, <2>1, <2>2
<1>10. P(g)
  <2>1. \A n \in 0 .. N : g[n] = IF n = 0 THEN b ELSE One(n, g[n - 1])
    BY <1>8, <1>9
  <2> QED BY <1>8, <2>1
<1>11. P(f)
  <2> HIDE DEF P
  <2> QED BY <1>10
<1>12. \A n \in 0 .. N : f[n] = IF n = 0 THEN b ELSE One(n, f[n - 1])
  <2> HIDE DEF f
  <2> QED BY <1>11
<1> HIDE DEF f, P
<1> DEFINE T == {n \in Nat : n <= N => Good(n, f[n])}
<1>13. 0 \in T
  <2>1. f[0] = b
    BY <1>6, <1>12
  <2> QED BY <1>4, <2>1
<1>14. ASSUME NEW n \in Nat, n \in T PROVE n + 1 \in T
  <2>1. SUFFICES ASSUME n + 1 <= N PROVE Good(n + 1, f[n + 1])
    OBVIOUS
  <2>2. n + 1 \in 0 .. N /\ n + 1 \in 1 .. N /\ n + 1 # 0 /\ (n + 1) - 1 = n /\ n <= N
    BY <1>6, <2>1
  <2>3. f[n + 1] = One(n + 1, f[n])
    BY <1>12, <2>2
  <2>4. Good(n, f[n])
    BY <1>14, <2>2
  <2> QED BY <1>5, <2>2, <2>3, <2>4
<1>15. Good(N, f[N])
  <2>1. Nat \subseteq T
    <3> HIDE DEF T
    <3> QED BY <1>13, <1>14, Induction
  <2> QED BY <1>6, <2>1
<1> QED BY <1>1, <1>15 DEF Good, N

\* What is appended to the second of two sequences is appended to both.
LEMMA AppendToConcat ==
  ASSUME NEW X, NEW p \in Seq(X), NEW q \in Seq(X), NEW x \in X
  PROVE  p \o Append(q, x) = Append(p \o q, x)
<1>1. <<x>> \in Seq(X) /\ Append(q, x) = q \o <<x>>
  BY AppendIsConcat
<1>2. p \o q \in Seq(X) /\ Append(p \o q, x) = (p \o q) \o <<x>>
  BY ConcatProperties, AppendIsConcat
<1>3. (p \o q) \o <<x>> = p \o (q \o <<x>>)
  BY <1>1, ConcatAssociative
<1> QED BY <1>1, <1>2, <1>3

-----------------------------------------------------------------------------
\* What the loop over the given has come to with the names up to n, when it
\* began with the state b.
GivenUpto(s, b, n, required, policy, given) ==
  /\ s.found \in Seq(DOMAIN required) /\ s.used \in Seq(DOMAIN required)
  /\ s = [found |-> s.found, indices |-> b.indices, used |-> s.used, missing |-> s.missing,
          refused |-> s.refused]
  /\ s.refused \in BOOLEAN
  /\ s.found = b.found \o s.used
  /\ \A j, k \in 1 .. Len(s.used) : s.used[j] = s.used[k] => j = k
  /\ s.missing = DOMAIN required \ Range(s.found)
  /\ \A name \in DOMAIN required :
       name \in Range(s.used)
         <=> name \in DOMAIN given /\ name <= n /\ name \notin Range(b.found)
  /\ s.refused <=> \/ b.refused
                   \/ policy # "useColumn"
                        /\ \E name \in DOMAIN given : name <= n /\ name \in Range(b.found)

\* The loop over the parameters begins with no name.
LEMMA GivenFirst ==
  ASSUME NEW required, NEW policy, NEW header, NEW given, NEW b, NEW N \in Nat,
         Scanned(b, N, required, policy, header, given), DOMAIN given \subseteq Nat \ {0}
  PROVE  GivenUpto(b, b, 0, required, policy, given)
<1>1. /\ b \in ColumnStates(required, header) /\ b.used = <<>>
      /\ b.missing = DOMAIN required \ Range(b.found)
  BY DEF Scanned
<1>2. /\ b.found \in Seq(DOMAIN required) /\ b.refused \in BOOLEAN
      /\ b = [found |-> b.found, indices |-> b.indices, used |-> b.used, missing |-> b.missing,
              refused |-> b.refused]
  BY <1>1 DEF ColumnStates
<1>3. b.found = b.found \o <<>> /\ Range(<<>>) = {} /\ Len(<<>>) = 0 /\ 1 .. 0 = {} /\ <<>> \in Seq(DOMAIN required)
  BY <1>2 DEF Range
<1>4. \A name \in DOMAIN given : ~ (name <= 0)
  OBVIOUS
<1> QED BY <1>1, <1>2, <1>3, <1>4 DEF GivenUpto

\* One more name, which may be the name of a parameter.
LEMMA GivenNext ==
  ASSUME NEW required, NEW policy, NEW given, NEW b, NEW n \in Nat, NEW s,
         GivenUpto(s, b, n, required, policy, given), b.found \in Seq(DOMAIN required),
         DOMAIN given \subseteq Nat \ {0}, DOMAIN required \subseteq Nat \ {0}
  PROVE  GivenUpto(IF n + 1 \in DOMAIN given THEN FindParameter(s, policy, n + 1) ELSE s,
                   b, n + 1, required, policy, given)
<1> DEFINE x == n + 1
           D == DOMAIN required
           G == DOMAIN given
           t == FindParameter(s, policy, x)
<1>1. /\ s.found \in Seq(D) /\ s.used \in Seq(D)
      /\ s = [found |-> s.found, indices |-> b.indices, used |-> s.used, missing |-> s.missing,
              refused |-> s.refused]
      /\ s.refused \in BOOLEAN
      /\ s.found = b.found \o s.used
      /\ \A j, k \in 1 .. Len(s.used) : s.used[j] = s.used[k] => j = k
      /\ s.missing = D \ Range(s.found)
      /\ \A name \in D : name \in Range(s.used) <=> name \in G /\ name <= n /\ name \notin Range(b.found)
      /\ s.refused <=> \/ b.refused
                       \/ policy # "useColumn" /\ \E name \in G : name <= n /\ name \in Range(b.found)
  BY DEF GivenUpto
<1>2. Range(s.found) = Range(b.found) \union Range(s.used)
  BY <1>1, RangeConcatenation
<1>3. \A name \in D \union G : name <= x <=> name <= n \/ name = x
  OBVIOUS
<1>4. ~ (x <= n)
  OBVIOUS
<1>5. Range(b.found) \subseteq D /\ Range(s.used) \subseteq D
  BY <1>1, RangeOfSeq
<1>6. t = IF x \in s.missing
            THEN [s EXCEPT !.found = Append(@, x), !.used = Append(@, x), !.missing = @ \ {x}]
            ELSE [s EXCEPT !.refused = @ \/ (x \in Range(s.found) /\ policy # "useColumn")]
  BY Zenon DEF FindParameter
<1>7. x \in D => x \notin Range(s.used)
  BY <1>1, <1>4
<1> HIDE DEF x, t
<1>8. CASE x \in G /\ x \in s.missing
  <2> DEFINE f == Append(s.found, x)
             u == Append(s.used, x)
             m == s.missing \ {x}
             L == Len(s.used)
  <2>1. x \in D /\ x \notin Range(s.found)
    BY <1>1, <1>8
  <2>2. f \in Seq(D) /\ Range(f) = Range(s.found) \union {x}
    BY <1>1, <2>1, AppendProperties, RangeAppend, Zenon
  <2>3. /\ u \in Seq(D) /\ Len(u) = L + 1 /\ u[L + 1] = x /\ \A k \in 1 .. L : u[k] = s.used[k]
        /\ Range(u) = Range(s.used) \union {x} /\ L \in Nat
    BY <1>1, <2>1, AppendProperties, RangeAppend, LenProperties
  <2>4. f = b.found \o u
    <3>1. s.found = b.found \o s.used /\ s.used \in Seq(D) /\ b.found \in Seq(D)
      BY <1>1
    <3> DEFINE p == b.found  q == s.used
    <3>2. p \in Seq(D) /\ q \in Seq(D) /\ x \in D
      BY <2>1, <3>1
    <3> HIDE DEF p, q, D, f, u, m, L
    <3>3. p \o Append(q, x) = Append(p \o q, x)
      BY <3>2, AppendToConcat
    <3> QED BY <3>1, <3>3 DEF p, q, f, u
  <2>5. t = [s EXCEPT !.found = f, !.used = u, !.missing = m]
    BY <1>6, <1>8
  <2>6. \A k \in 1 .. L : s.used[k] \in Range(s.used)
    BY <1>1, LenProperties DEF Range
  <2> HIDE DEF f, u, m, L
  <2>7. /\ t = [found |-> f, indices |-> b.indices, used |-> u, missing |-> m, refused |-> s.refused]
        /\ t.found = f /\ t.used = u /\ t.missing = m /\ t.refused = s.refused
    <3>1. s = [found |-> s.found, indices |-> b.indices, used |-> s.used, missing |-> s.missing,
               refused |-> s.refused]
      BY <1>1
    <3> DEFINE e == s.found  z == s.used  w == s.missing  q == s.refused  h == b.indices
    <3>2. s = [found |-> e, indices |-> h, used |-> z, missing |-> w, refused |-> q]
      BY <3>1
    <3> HIDE DEF e, z, w, h, q
    <3>3. t = [found |-> f, indices |-> h, used |-> u, missing |-> m, refused |-> q]
      BY <3>2, <2>5
    <3> QED BY <3>3 DEF h, q
  <2>8. ASSUME NEW j \in 1 .. L + 1, NEW k \in 1 .. L + 1, u[j] = u[k] PROVE j = k
    <3>1. \A q \in 1 .. L : u[q] # x
      BY <1>7, <2>1, <2>3, <2>6
    <3>2. \A q \in 1 .. L + 1 : q \in 1 .. L \/ q = L + 1
      BY <2>3
    <3> QED BY <1>1, <2>3, <2>8, <3>1, <3>2 DEF L
  <2>9. m = D \ Range(f)
    BY <1>1, <2>2 DEF m
  <2>10. \A name \in D : name \in Range(u) <=> name \in G /\ name <= x /\ name \notin Range(b.found)
    BY <1>1, <1>2, <1>3, <1>8, <2>1, <2>3
  <2>11. s.refused <=> \/ b.refused
                       \/ policy # "useColumn" /\ \E name \in G : name <= x /\ name \in Range(b.found)
    BY <1>1, <1>2, <1>3, <2>1
  <2>12. GivenUpto(t, b, x, required, policy, given)
    BY <1>1, <2>2, <2>3, <2>4, <2>7, <2>8, <2>9, <2>10, <2>11 DEF GivenUpto
  <2> QED BY <1>8, <2>12 DEF x, t
<1>9. CASE x \in G /\ x \notin s.missing
  <2> DEFINE v == s.refused \/ (x \in Range(s.found) /\ policy # "useColumn")
  <2>1. t = [s EXCEPT !.refused = v]
    BY <1>6, <1>9
  <2>2. v \in BOOLEAN
    BY <1>1
  <2>3. x \in Range(s.found) <=> x \in Range(b.found)
    BY <1>2, <1>5, <1>7
  <2>4. v <=> \/ b.refused
              \/ policy # "useColumn" /\ \E name \in G : name <= x /\ name \in Range(b.found)
    BY <1>1, <1>3, <1>9, <2>3
  <2> HIDE DEF v
  <2>5. /\ t = [found |-> s.found, indices |-> b.indices, used |-> s.used, missing |-> s.missing, refused |-> v]
        /\ t.found = s.found /\ t.used = s.used /\ t.missing = s.missing /\ t.refused = v
    <3>1. s = [found |-> s.found, indices |-> b.indices, used |-> s.used, missing |-> s.missing,
               refused |-> s.refused]
      BY <1>1
    <3> QED BY <3>1, <2>1
  <2>6. \A name \in D : name \in Range(s.used) <=> name \in G /\ name <= x /\ name \notin Range(b.found)
    <3>1. x \in D => x \in Range(s.found)
      BY <1>1, <1>9
    <3> QED BY <1>1, <1>2, <1>3, <1>7, <3>1
  <2>7. GivenUpto(t, b, x, required, policy, given)
    BY <1>1, <2>2, <2>4, <2>5, <2>6 DEF GivenUpto
  <2> QED BY <1>9, <2>7 DEF x, t
<1>10. CASE x \notin G
  <2>1. \A name \in D : name \in Range(s.used) <=> name \in G /\ name <= x /\ name \notin Range(b.found)
    BY <1>1, <1>3, <1>10
  <2>2. s.refused <=> \/ b.refused
                      \/ policy # "useColumn" /\ \E name \in G : name <= x /\ name \in Range(b.found)
    BY <1>1, <1>3, <1>10
  <2>3. GivenUpto(s, b, x, required, policy, given)
    BY <1>1, <2>1, <2>2 DEF GivenUpto
  <2> QED BY <1>10, <2>3 DEF x, t
<1> QED BY <1>8, <1>9, <1>10

-----------------------------------------------------------------------------
\* What the loop over the given makes of the state b.
InBothOf(b, policy, given) ==
  InNameOrder(LAMBDA state, name : FindParameter(state, policy, name), b, DOMAIN given)

\* The loop over the parameters stays in its states.
LEMMA FindParameterType ==
  ASSUME NEW required, NEW header, NEW policy, NEW name, NEW s \in ColumnStates(required, header)
  PROVE  FindParameter(s, policy, name) \in ColumnStates(required, header)
<1>1. CASE name \in s.missing
  <2> DEFINE f == Append(s.found, name)
             u == Append(s.used, name)
             m == s.missing \ {name}
  <2>1. f \in Seq(DOMAIN required) /\ u \in Seq(DOMAIN required) /\ m \in SUBSET DOMAIN required
    BY <1>1, AppendProperties DEF ColumnStates
  <2>2. FindParameter(s, policy, name) = [s EXCEPT !.found = f, !.used = u, !.missing = m]
    BY <1>1 DEF FindParameter
  <2> HIDE DEF f, u, m
  <2> QED BY <2>1, <2>2 DEF ColumnStates
<1>2. CASE name \notin s.missing
  <2>1. FindParameter(s, policy, name)
          = [s EXCEPT !.refused = s.refused \/ (name \in Range(s.found) /\ policy # "useColumn")]
    BY <1>2 DEF FindParameter
  <2> QED BY <2>1 DEF ColumnStates
<1> QED BY <1>1, <1>2

\* The loop over the parameters has seen all of them at its end.
LEMMA AllGiven ==
  ASSUME NEW required, NEW policy, NEW header, NEW given, NEW b, NEW N \in Nat,
         Scanned(b, N, required, policy, header, given),
         IsFiniteSet(DOMAIN given), DOMAIN given \subseteq Nat \ {0},
         DOMAIN required \subseteq Nat \ {0}
  PROVE  \E n \in Nat : /\ \A name \in DOMAIN given : name <= n
                        /\ GivenUpto(InBothOf(b, policy, given), b, n, required, policy, given)
<1> DEFINE G == DOMAIN given
           S == ColumnStates(required, header)
           One(n, x) == IF n \in G THEN FindParameter(x, policy, n) ELSE x
           F == [n \in Nat |-> [x \in S |-> One(n, x)]]
           P(h) == h = [n \in Nat |-> IF n = 0 THEN b
                                      ELSE IF n \in G THEN FindParameter(h[n - 1], policy, n)
                                      ELSE h[n - 1]]
           f == CHOOSE h : P(h)
           Good(n, x) == GivenUpto(x, b, n, required, policy, given)
<1>1. InBothOf(b, policy, given) = IF G = {} THEN b ELSE f[Max(G)]
  BY Zenon DEF InBothOf, InNameOrder
<1>2. b \in S /\ Good(0, b) /\ b.found \in Seq(DOMAIN required)
  BY GivenFirst DEF Scanned, ColumnStates
<1>3. F \in [Nat -> [S -> S]] /\ \A n \in Nat, x \in S : F[n][x] = One(n, x)
  BY FindParameterType
<1>4. ASSUME NEW n \in Nat, NEW x, Good(n, x) PROVE Good(n + 1, One(n + 1, x))
  BY <1>2, <1>4, GivenNext
<1>5. \A n, x : One(n, x) = IF n \in G THEN FindParameter(x, policy, n) ELSE x
  OBVIOUS
<1> HIDE DEF One, S, F, Good
<1>6. PICK g : Iterates(g, b, F, S)
  BY <1>2, <1>3, Recursion DEF IsStep
<1>7. g \in [Nat -> S] /\ \A n \in Nat : g[n] = IF n = 0 THEN b ELSE F[n][g[n - 1]]
  BY <1>6 DEF Iterates
<1>8. ASSUME NEW n \in Nat, n # 0 PROVE g[n] = One(n, g[n - 1])
  <2>1. n - 1 \in Nat
    BY <1>8
  <2>2. g[n - 1] \in S /\ g[n] = F[n][g[n - 1]]
    BY <1>7, <1>8, <2>1
  <2> QED BY <1>3, <2>2
<1>9. P(g)
  <2>1. \A n \in Nat : g[n] = IF n = 0 THEN b
                              ELSE IF n \in G THEN FindParameter(g[n - 1], policy, n) ELSE g[n - 1]
    BY <1>5, <1>7, <1>8
  <2> QED BY <1>7, <2>1
<1>10. P(f)
  <2> HIDE DEF P
  <2> QED BY <1>9
<1>11. \A n \in Nat : f[n] = IF n = 0 THEN b ELSE One(n, f[n - 1])
  <2>1. \A n \in Nat : f[n] = IF n = 0 THEN b
                              ELSE IF n \in G THEN FindParameter(f[n - 1], policy, n) ELSE f[n - 1]
    <3> HIDE DEF f
    <3> QED BY <1>10
  <2> HIDE DEF f
  <2> QED BY <1>5, <2>1
<1> HIDE DEF f, P
<1> DEFINE T == {n \in Nat : Good(n, f[n])}
<1>12. 0 \in T
  <2>1. f[0] = b
    BY <1>11
  <2> QED BY <1>2, <2>1
<1>13. ASSUME NEW n \in Nat, n \in T PROVE n + 1 \in T
  <2>1. n + 1 \in Nat /\ n + 1 # 0 /\ (n + 1) - 1 = n
    OBVIOUS
  <2>2. f[n + 1] = One(n + 1, f[n])
    BY <1>11, <2>1
  <2>3. Good(n, f[n])
    BY <1>13
  <2> QED BY <1>4, <2>1, <2>2, <2>3
<1>14. \A n \in Nat : Good(n, f[n])
  <2>1. Nat \subseteq T
    <3> HIDE DEF T
    <3> QED BY <1>12, <1>13, Induction
  <2> QED BY <2>1
<1>15. CASE G = {}
  BY <1>1, <1>2, <1>15 DEF Good
<1>16. CASE G # {}
  <2>1. Max(G) \in G /\ \A x \in G : x <= Max(G)
    BY <1>16, MaxIs
  <2>2. Max(G) \in Nat
    BY <2>1
  <2> HIDE DEF G
  <2>3. Good(Max(G), f[Max(G)])
    BY <1>14, <2>2
  <2> QED BY <1>1, <1>16, <2>1, <2>2, <2>3 DEF Good, G
<1> QED BY <1>15, <1>16

-----------------------------------------------------------------------------
\* How often a name is in a header.
LEMMA TimesInHeader ==
  ASSUME NEW X, NEW header \in Seq(X), NEW name
  PROVE  /\ InHeader(header, name) = 0 <=> ~ Occurs(header, Len(header), name)
         /\ InHeader(header, name) = 1 <=> /\ Occurs(header, Len(header), name)
                                           /\ ~ Twice(header, Len(header), name)
<1> DEFINE N == Len(header)
           I == {n \in DOMAIN header : header[n] = name}
<1>1. N \in Nat /\ DOMAIN header = 1 .. N
  BY LenProperties
<1>2. IsFiniteSet(I)
  <2>1. I \in SUBSET (1 .. N) /\ IsFiniteSet(1 .. N)
    BY <1>1, FS_Interval
  <2> HIDE DEF I
  <2> QED BY <2>1, FS_Subset
<1>3. InHeader(header, name) = Cardinality(I)
  BY DEF InHeader
<1>4. I = {} <=> ~ Occurs(header, N, name)
  BY <1>1 DEF Occurs
<1>5. ASSUME Cardinality(I) = 1 PROVE ~ Twice(header, N, name)
  <2> HIDE DEF I
  <2>1. PICK x : I = {x}
    BY <1>2, <1>5, FS_Singleton
  <2>2. SUFFICES ASSUME NEW j \in 1 .. N, NEW k \in 1 .. N, j < k, header[j] = name, header[k] = name
                 PROVE  FALSE
    BY DEF Twice
  <2>3. j \in I /\ k \in I
    BY <1>1, <2>2 DEF I
  <2> QED BY <2>1, <2>2, <2>3
<1>6. ASSUME Occurs(header, N, name), ~ Twice(header, N, name) PROVE Cardinality(I) = 1
  <2>1. PICK x \in 1 .. N : header[x] = name
    BY <1>6 DEF Occurs
  <2>2. ASSUME NEW y \in I PROVE y = x
    <3>1. y \in 1 .. N /\ header[y] = name
      BY <1>1
    <3>2. ~ (y < x) /\ ~ (x < y)
      BY <1>6, <2>1, <3>1 DEF Twice
    <3> QED BY <1>1, <2>1, <3>1, <3>2
  <2>3. I = {x}
    BY <1>1, <2>1, <2>2
  <2> HIDE DEF I
  <2> QED BY <2>3, FS_Singleton
<1> HIDE DEF I
<1>7. Cardinality(I) = 0 <=> I = {}
  BY <1>2, FS_EmptySet
<1>8. Cardinality(I) = 1 => I # {}
  BY <1>7
<1> QED BY <1>3, <1>4, <1>5, <1>6, <1>7, <1>8 DEF N

-----------------------------------------------------------------------------
\* The state s that Found ends with, when the loop over the header ended with b.
FoundAs(b, s, required, policy, header, given) ==
  /\ Scanned(b, Len(header), required, policy, header, given)
  /\ Found(required, policy, header, given) = s
  /\ s.indices = b.indices /\ s.found = b.found \o s.used
  /\ s.used \in Seq(DOMAIN required)
  /\ \A j, k \in 1 .. Len(s.used) : s.used[j] = s.used[k] => j = k
  /\ \A name \in DOMAIN required :
       name \in Range(s.used) <=> name \in DOMAIN given /\ name \notin Range(b.found)
  /\ s.refused <=> \E name \in DOMAIN required : ~ HasOneSource(policy, header, given, name)

\* What is found, of names that a map can hold.
LEMMA FoundIs ==
  ASSUME NEW X, NEW required, NEW policy, NEW header \in Seq(X), NEW given,
         IsFiniteSet(DOMAIN given), DOMAIN given \subseteq Nat \ {0},
         DOMAIN required \subseteq Nat \ {0}, policy \in Policies
  PROVE  \E b, s : FoundAs(b, s, required, policy, header, given)
<1> DEFINE N == Len(header)
           D == DOMAIN required
           G == DOMAIN given
           b == StreamOf(required, policy, header, given)
           t == InBothOf(b, policy, given)
           s == [t EXCEPT !.refused = @ \/ t.missing # {}]
<1>1. N \in Nat
  BY LenProperties
<1>2. Scanned(b, N, required, policy, header, given)
  BY <1>1, StreamScanned
<1>3. Found(required, policy, header, given) = s
  BY Zenon DEF Found, StreamOf, InBothOf
<1> HIDE DEF b
<1>4. PICK n \in Nat : /\ \A name \in G : name <= n
                       /\ GivenUpto(t, b, n, required, policy, given)
  BY <1>1, <1>2, AllGiven
<1> HIDE DEF t
<1>5. /\ t.found \in Seq(D) /\ t.used \in Seq(D)
      /\ t = [found |-> t.found, indices |-> b.indices, used |-> t.used, missing |-> t.missing,
              refused |-> t.refused]
      /\ t.refused \in BOOLEAN
      /\ t.found = b.found \o t.used
      /\ \A j, k \in 1 .. Len(t.used) : t.used[j] = t.used[k] => j = k
      /\ t.missing = D \ Range(t.found)
      /\ \A name \in D : name \in Range(t.used) <=> name \in G /\ name \notin Range(b.found)
      /\ t.refused <=> \/ b.refused
                       \/ policy # "useColumn" /\ \E name \in G : name \in Range(b.found)
  BY <1>4 DEF GivenUpto
<1>6. /\ b.found \in Seq(D)
      /\ \A name \in D : name \in Range(b.found) <=> Occurs(header, N, name) /\ ~ Skips(policy, given, name)
      /\ b.refused <=> \E name \in D : ~ Skips(policy, given, name) /\ Twice(header, N, name)
  BY <1>2 DEF Scanned, ColumnStates
<1>7. /\ s.found = t.found /\ s.indices = b.indices /\ s.used = t.used
      /\ s.refused <=> t.refused \/ t.missing # {}
  <2> DEFINE v == t.refused \/ t.missing # {}
  <2>1. s = [t EXCEPT !.refused = v]
    OBVIOUS
  <2>2. v \in BOOLEAN /\ (v <=> t.refused \/ t.missing # {})
    BY <1>5
  <2> HIDE DEF v, s
  <2>3. t = [found |-> t.found, indices |-> b.indices, used |-> t.used, missing |-> t.missing,
             refused |-> t.refused]
    BY <1>5
  <2>4. s.found = t.found /\ s.indices = b.indices /\ s.used = t.used /\ s.refused = v
    BY <2>1, <2>3
  <2> QED BY <2>2, <2>4
<1>8. Range(t.found) = Range(b.found) \union Range(t.used)
  BY <1>5, <1>6, RangeConcatenation
<1>9. \A name \in D : name \in t.missing <=> name \notin Range(b.found) /\ name \notin G
  BY <1>5, <1>8
<1>10. Range(b.found) \subseteq D
  BY <1>6, RangeOfSeq
<1> DEFINE Refuses(name) ==
             \/ ~ Skips(policy, given, name) /\ Twice(header, N, name)
             \/ policy # "useColumn" /\ name \in G /\ name \in Range(b.found)
             \/ name \notin Range(b.found) /\ name \notin G
<1> HIDE DEF s
<1>11. s.refused <=> \E name \in D : Refuses(name)
  <2>1. t.missing # {} <=> \E name \in D : name \notin Range(b.found) /\ name \notin G
    BY <1>5, <1>9
  <2>2. (\E name \in G : name \in Range(b.found)) <=> \E name \in D : name \in G /\ name \in Range(b.found)
    BY <1>10
  <2> QED BY <1>5, <1>6, <1>7, <2>1, <2>2
<1>12. ASSUME NEW name \in D
       PROVE  Refuses(name) <=> ~ HasOneSource(policy, header, given, name)
  <2> DEFINE o == Occurs(header, N, name)
             w == Twice(header, N, name)
             times == InHeader(header, name)
  <2>1. (times = 0 <=> ~ o) /\ (times = 1 <=> o /\ ~ w)
    BY TimesInHeader
  <2>2. w => o
    BY DEF Twice, Occurs
  <2>3. name \in Range(b.found) <=> o /\ ~ (policy = "useParameter" /\ name \in G)
    BY <1>6 DEF Skips
  <2>4. Refuses(name) <=> \/ ~ (policy = "useParameter" /\ name \in G) /\ w
                          \/ policy # "useColumn" /\ name \in G /\ name \in Range(b.found)
                          \/ name \notin Range(b.found) /\ name \notin G
    BY DEF Skips
  <2> HIDE DEF o, w, times, Refuses
  <2>5. CASE policy = "fail"
    <3>1. HasOneSource(policy, header, given, name)
            <=> (times = 1 /\ ~ (name \in G)) \/ (times = 0 /\ name \in G)
      BY <2>5 DEF HasOneSource, times
    <3> QED BY <2>1, <2>2, <2>3, <2>4, <2>5, <3>1
  <2>6. CASE policy = "useColumn"
    <3>1. HasOneSource(policy, header, given, name) <=> times = 1 \/ (times = 0 /\ name \in G)
      BY <2>6 DEF HasOneSource, times
    <3> QED BY <2>1, <2>2, <2>3, <2>4, <2>6, <3>1
  <2>7. CASE policy = "useParameter"
    <3>1. HasOneSource(policy, header, given, name) <=> name \in G \/ times = 1
      BY <2>7 DEF HasOneSource, times
    <3> QED BY <2>1, <2>2, <2>3, <2>4, <2>7, <3>1
  <2> QED BY <2>5, <2>6, <2>7 DEF Policies
<1>13. s.refused <=> \E name \in D : ~ HasOneSource(policy, header, given, name)
  BY <1>11, <1>12
<1>14. FoundAs(b, s, required, policy, header, given)
  BY <1>2, <1>3, <1>5, <1>7, <1>13 DEF s, FoundAs
<1> QED BY <1>14

\* Where the first column of a name is.
FirstOf(header, name) == SelectInSeq(header, LAMBDA c : c = name)

\* The column of a name is the first one that has it.
LEMMA FirstColumn ==
  ASSUME NEW X, NEW header \in Seq(X), NEW i \in 1 .. Len(header),
         \A j \in 1 .. Len(header) : header[j] = header[i] => i <= j
  PROVE  FirstOf(header, header[i]) = i
<1> DEFINE I == {j \in 1 .. Len(header) : header[j] = header[i]}
<1>1. FirstOf(header, header[i]) = IF I # {} THEN Min(I) ELSE 0
  BY DEF SelectInSeq, FirstOf
<1>2. i \in I /\ \A j \in I : i <= j
  OBVIOUS
<1>3. \A j \in I : j <= i => j = i
  BY <1>2, LenProperties
<1> HIDE DEF I
<1>4. Min(I) \in I /\ \A j \in I : Min(I) <= j
  BY <1>2 DEF Min
<1> QED BY <1>1, <1>2, <1>3, <1>4

-----------------------------------------------------------------------------
\* The data file of a store that is not refused.
LEMMA StoredAreRight ==
  ASSUME NEW X, NEW Y, NEW required, NEW policy, NEW header \in Seq(X), NEW rows \in Seq(Y),
         NEW given,
         IsFiniteSet(DOMAIN given), DOMAIN given \subseteq Nat \ {0},
         IsFiniteSet(DOMAIN required), DOMAIN required \subseteq Nat \ {0}, policy \in Policies
  PROVE  ColumnsAreRight(required, policy, header, rows, given,
                         StoredTable(required, policy, header, rows, given))
<1> DEFINE N == Len(header)
           D == DOMAIN required
           G == DOMAIN given
           table == StoredTable(required, policy, header, rows, given)
           From(name) == FromParameter(policy, header, given, name)
<1>1. PICK b, s :
           /\ Scanned(b, N, required, policy, header, given)
           /\ Found(required, policy, header, given) = s
           /\ s.indices = b.indices /\ s.found = b.found \o s.used
           /\ s.used \in Seq(D)
           /\ \A j, k \in 1 .. Len(s.used) : s.used[j] = s.used[k] => j = k
           /\ \A name \in D : name \in Range(s.used) <=> name \in G /\ name \notin Range(b.found)
           /\ s.refused <=> \E name \in D : ~ HasOneSource(policy, header, given, name)
  <2>1. PICK b, s : FoundAs(b, s, required, policy, header, given)
    BY FoundIs
  <2> QED BY <2>1 DEF FoundAs
<1> DEFINE F == b.found
           U == s.used
           I == s.indices
           n == Len(F)
           m == Len(U)
<1>2. /\ F \in Seq(D) /\ I \in Seq(1 .. N) /\ Len(I) = n
      /\ \A k \in 1 .. n : /\ I[k] \in 1 .. N /\ header[I[k]] = F[k]
                           /\ \A j \in 1 .. N : header[j] = F[k] => I[k] <= j
      /\ \A j, k \in 1 .. n : F[j] = F[k] => j = k
      /\ \A name \in D : name \in Range(F) <=> Occurs(header, N, name) /\ ~ Skips(policy, given, name)
  <2> HIDE DEF N, D
  <2> QED BY <1>1 DEF Scanned, ColumnStates, N, D
<1>3. /\ U \in Seq(D) /\ s.found = F \o U
      /\ \A j, k \in 1 .. m : U[j] = U[k] => j = k
      /\ \A name \in D : name \in Range(U) <=> name \in G /\ name \notin Range(F)
      /\ s.refused <=> \E name \in D : ~ HasOneSource(policy, header, given, name)
  BY <1>1
<1>4. table = IF s.refused THEN <<>>
               ELSE <<OutputColumns(required, s.found), WriteDataFile(s, rows, given)>>
  <2> HIDE DEF F, U, I
  <2> QED BY <1>1 DEF StoredTable
<1> DEFINE constants == [k \in DOMAIN U |-> given[U[k]]]
           Line(row) == [k \in DOMAIN I |-> row[I[k]]] \o constants
           lines == IF I = <<>> THEN <<constants>> ELSE [k \in DOMAIN rows |-> Line(rows[k])]
           columns == [k \in DOMAIN s.found |-> required[s.found[k]]]
<1>5. ~ s.refused => table = <<columns, lines>>
  BY Zenon, <1>4 DEF OutputColumns, WriteDataFile
<1>6. (table # <<>>) <=> ~ s.refused
  <2> HIDE DEF columns, lines, table
  <2> QED BY <1>4, <1>5
<1>7. n \in Nat /\ m \in Nat /\ N \in Nat /\ DOMAIN F = 1 .. n /\ DOMAIN U = 1 .. m /\ DOMAIN I = 1 .. n
  BY <1>2, <1>3, LenProperties
<1>8. /\ s.found \in Seq(D) /\ Len(s.found) = n + m /\ DOMAIN s.found = 1 .. n + m
      /\ \A k \in 1 .. n + m : s.found[k] = IF k <= n THEN F[k] ELSE U[k - n]
  <2>1. F \in Seq(D) /\ U \in Seq(D) /\ s.found = F \o U
    BY <1>2, <1>3
  <2>2. n = Len(F) /\ m = Len(U)
    OBVIOUS
  <2> HIDE DEF F, U, D, n, m
  <2>3. /\ F \o U \in Seq(D) /\ Len(F \o U) = n + m
        /\ \A k \in 1 .. n + m : (F \o U)[k] = IF k <= n THEN F[k] ELSE U[k - n]
    BY <2>1, <2>2, ConcatProperties
  <2>4. s.found \in Seq(D)
    BY <2>1, <2>3
  <2>5. DOMAIN s.found = 1 .. Len(s.found)
    BY <2>4, LenProperties
  <2> QED BY <2>1, <2>3, <2>4, <2>5
<1>9. Range(F) = {F[k] : k \in 1 .. n} /\ Range(U) = {U[k] : k \in 1 .. m}
  BY <1>7 DEF Range
<1> HIDE DEF F, U, I, n, m, N
<1>10. ASSUME NEW j \in 1 .. n + m, NEW k \in 1 .. n + m, s.found[j] = s.found[k] PROVE j = k
  <2>1. ASSUME NEW i \in 1 .. n + m, ~ (i <= n)
        PROVE  i - n \in 1 .. m /\ s.found[i] \in Range(U) /\ s.found[i] = U[i - n] /\ s.found[i] \in D
    <3>1. i - n \in 1 .. m
      BY <1>7, <2>1
    <3> QED BY <1>3, <1>7, <1>8, <1>9, <2>1, <3>1
  <2>2. ASSUME NEW i \in 1 .. n + m, i <= n
        PROVE  i \in 1 .. n /\ s.found[i] \in Range(F) /\ s.found[i] = F[i]
    <3>1. i \in 1 .. n
      BY <1>7, <2>2
    <3> QED BY <1>8, <1>9, <2>2, <3>1
  <2>3. CASE j <= n /\ k <= n
    BY <1>2, <1>10, <2>2, <2>3
  <2>4. CASE ~ (j <= n) /\ ~ (k <= n)
    <3>1. j - n \in 1 .. m /\ k - n \in 1 .. m /\ U[j - n] = U[k - n]
      BY <1>10, <2>1, <2>4
    <3>2. j - n = k - n
      BY <1>3, <3>1
    <3> QED BY <1>7, <3>2
  <2>5. CASE (j <= n /\ ~ (k <= n)) \/ (k <= n /\ ~ (j <= n))
    BY <1>3, <1>10, <2>1, <2>2, <2>5
  <2> QED BY <2>3, <2>4, <2>5
<1>11. ASSUME NEW name \in D PROVE name \in G \/ ~ HasOneSource(policy, header, given, name) \/ name \in Range(F)
  <2>1. (InHeader(header, name) = 0 <=> ~ Occurs(header, N, name))
        /\ (InHeader(header, name) = 1 => Occurs(header, N, name))
    BY TimesInHeader DEF N
  <2> DEFINE times == InHeader(header, name)
  <2>2. HasOneSource(policy, header, given, name) => name \in G \/ times = 1
    <3> HIDE DEF times
    <3>1. CASE policy = "fail"
      BY <3>1 DEF HasOneSource, times
    <3>2. CASE policy = "useColumn"
      BY <3>2 DEF HasOneSource, times
    <3>3. CASE policy = "useParameter"
      BY <3>3 DEF HasOneSource, times
    <3> QED BY <3>1, <3>2, <3>3 DEF Policies
  <2> QED BY <1>2, <2>1, <2>2 DEF Skips
<1>12. ASSUME ~ s.refused, NEW name \in D
       PROVE  /\ name \in Range(F) <=> ~ From(name)
              /\ name \in Range(U) <=> From(name)
  <2>1. InHeader(header, name) = 0 <=> ~ Occurs(header, N, name)
    BY TimesInHeader DEF N
  <2>2. From(name) <=> name \in G /\ (policy = "useParameter" \/ ~ Occurs(header, N, name))
    BY <2>1 DEF FromParameter
  <2>3. name \in G \/ name \in Range(F)
    BY <1>3, <1>11, <1>12
  <2> HIDE DEF From
  <2> QED BY <1>2, <1>3, <2>2, <2>3 DEF Skips
<1>13. Range(F) \subseteq D /\ Range(U) \subseteq D
  BY <1>2, <1>3, RangeOfSeq
<1> DEFINE allGiven == \A name \in D : From(name)
<1>14. ~ s.refused => (allGiven <=> I = <<>>)
  <2>1. I = <<>> <=> n = 0
    BY <1>2, <1>7, EmptySeq
  <2>2. n = 0 <=> Range(F) = {}
    <3>1. CASE n = 0
      <4>1. 1 .. n = {}
        BY <3>1
      <4> QED BY <1>9, <3>1, <4>1
    <3>2. CASE n # 0
      <4>1. 1 \in 1 .. n
        BY <1>7, <3>2
      <4>2. F[1] \in Range(F)
        BY <1>9, <4>1
      <4> QED BY <3>2, <4>2
    <3> QED BY <3>1, <3>2
  <2> HIDE DEF From
  <2> QED BY <1>12, <1>13, <2>1, <2>2
<1>15. ASSUME ~ s.refused PROVE Len(table[1]) = Cardinality(D)
  <2>1. {s.found[k] : k \in 1 .. n + m} = D
    <3>1. \A k \in 1 .. n + m : s.found[k] \in D
      BY <1>8, <1>7
    <3>2. ASSUME NEW name \in D PROVE \E k \in 1 .. n + m : s.found[k] = name
      <4>1. CASE name \in Range(F)
        <5>1. PICK k \in 1 .. n : F[k] = name
          BY <1>9, <4>1
        <5>2. k \in 1 .. n + m /\ k <= n
          BY <1>7
        <5> QED BY <1>8, <5>1, <5>2
      <4>2. CASE name \in Range(U)
        <5>1. PICK k \in 1 .. m : U[k] = name
          BY <1>9, <4>2
        <5>2. k + n \in 1 .. n + m /\ ~ (k + n <= n) /\ (k + n) - n = k
          BY <1>7
        <5> QED BY <1>8, <5>1, <5>2
      <4> QED BY <1>12, <1>15, <4>1, <4>2
    <3> QED BY <3>1, <3>2
  <2>2. Cardinality(D) = n + m
    <3> DEFINE g == [k \in 1 .. n + m |-> s.found[k]]
    <3>1. g \in Bijection(1 .. n + m, D)
      BY <1>10, <2>1 DEF Bijection, Injection, Surjection, IsInjective
    <3>2. n + m \in Nat
      BY <1>7
    <3>3. ExistsBijection(1 .. n + m, D)
      <4> HIDE DEF g
      <4> QED BY <3>1 DEF ExistsBijection
    <3> HIDE DEF g, D
    <3> QED BY <3>2, <3>3, FS_CountingElements
  <2>3. Len(columns) = n + m
    <3>1. columns = [k \in 1 .. n + m |-> required[s.found[k]]]
      BY <1>8
    <3>2. n + m \in Nat
      BY <1>7
    <3> HIDE DEF columns
    <3> QED BY <3>1, <3>2
  <2> HIDE DEF columns, lines, table
  <2> QED BY <1>5, <1>15, <2>2, <2>3
<1>16. ASSUME ~ s.refused PROVE Len(table[2]) = IF allGiven THEN 1 ELSE Len(rows)
  <2>1. Len(rows) \in Nat /\ DOMAIN rows = 1 .. Len(rows)
    BY LenProperties
  <2>2. Len([k \in 1 .. Len(rows) |-> Line(rows[k])]) = Len(rows)
    <3> HIDE DEF Line
    <3> QED BY <2>1
  <2>3. Len(lines) = IF I = <<>> THEN 1 ELSE Len(rows)
    <3> HIDE DEF Line, constants
    <3> QED BY <2>1, <2>2
  <2>4. table[2] = lines
    <3> HIDE DEF columns, lines, table
    <3> QED BY <1>5, <1>16
  <2> HIDE DEF columns, lines, table, allGiven
  <2> QED BY <1>14, <1>16, <2>3, <2>4
<1>17. ASSUME NEW row
       PROVE  /\ \A i \in 1 .. n : Line(row)[i] = row[I[i]]
              /\ \A i \in 1 .. m : Line(row)[n + i] = given[U[i]]
  <2> DEFINE Z == {row[I[k]] : k \in 1 .. n} \union {given[U[k]] : k \in 1 .. m}
             p == [k \in DOMAIN I |-> row[I[k]]]
  <2>1. p \in [1 .. n -> Z] /\ constants \in [1 .. m -> Z]
    BY <1>7
  <2>2. /\ \A i \in 1 .. n : p[i] = row[I[i]]
        /\ \A i \in 1 .. m : constants[i] = given[U[i]]
    BY <1>7
  <2>3. Line(row) = p \o constants
    OBVIOUS
  <2> HIDE DEF Z, p, constants, Line
  <2>4. p \in Seq(Z) /\ constants \in Seq(Z)
    BY <1>7, <2>1, SeqDef
  <2>5. Len(p) = n /\ Len(constants) = m
    BY <1>7, <2>1, <2>4, LenProperties
  <2>6. \A i \in 1 .. n + m : (p \o constants)[i] = IF i <= n THEN p[i] ELSE constants[i - n]
    BY <2>4, <2>5, ConcatProperties
  <2>7. \A i \in 1 .. n : i \in 1 .. n + m /\ i <= n
    BY <1>7
  <2>8. \A i \in 1 .. m : n + i \in 1 .. n + m /\ ~ (n + i <= n) /\ (n + i) - n = i
    BY <1>7
  <2> QED BY <2>2, <2>3, <2>6, <2>7, <2>8
<1> DEFINE Value(name, row) == IF From(name) THEN given[name]
                               ELSE row[SelectInSeq(header, LAMBDA c : c = name)]
           Right(name, i) ==
             /\ table[1][i] = required[name]
             /\ \A k \in DOMAIN table[2] :
                  table[2][k][i] = IF allGiven THEN given[name] ELSE Value(name, rows[k])
<1>18. ASSUME ~ s.refused, NEW i \in 1 .. n + m
       PROVE  i \in DOMAIN table[1] /\ table[1][i] = required[s.found[i]]
  <2>1. DOMAIN columns = 1 .. n + m /\ columns[i] = required[s.found[i]]
    BY <1>8
  <2>2. table[1] = columns
    <3> HIDE DEF columns, lines, table
    <3> QED BY <1>5, <1>18
  <2> HIDE DEF columns, table
  <2> QED BY <2>1, <2>2
<1>19. ASSUME ~ s.refused, NEW name \in D, From(name)
       PROVE  \E i \in DOMAIN table[1] : Right(name, i)
  <2>1. PICK j \in 1 .. m : U[j] = name
    <3> HIDE DEF From
    <3> QED BY <1>9, <1>12, <1>19
  <2>2. n + j \in 1 .. n + m /\ s.found[n + j] = name
    <3>1. n + j \in 1 .. n + m /\ ~ (n + j <= n) /\ (n + j) - n = j
      BY <1>7
    <3> QED BY <1>8, <2>1, <3>1
  <2>3. n + j \in DOMAIN table[1] /\ table[1][n + j] = required[name]
    BY <1>18, <1>19, <2>2
  <2>4. table[2] = lines
    <3> HIDE DEF columns, lines, table
    <3> QED BY <1>5, <1>19
  <2>5. CASE I = <<>>
    <3>1. n = 0 /\ n + j = j
      <4>1. n = 0
        BY <1>2, <2>5 DEF n, I
      <4> QED BY <4>1
    <3>2. DOMAIN lines = {1} /\ lines[1] = constants
      <4> HIDE DEF constants, Line
      <4> QED BY <2>5
    <3>3. constants[j] = given[name]
      BY <1>7, <2>1
    <3>4. \A k \in DOMAIN table[2] : table[2][k][n + j] = given[name]
      <4> HIDE DEF constants, lines, table
      <4> QED BY <2>4, <3>1, <3>2, <3>3
    <3>5. Value(name, 0) = given[name] /\ \A row : Value(name, row) = given[name]
      BY <1>19
    <3> HIDE DEF table, Value, allGiven
    <3> QED BY <2>3, <3>4, <3>5
  <2>6. CASE I # <<>>
    <3>1. \A k \in DOMAIN lines : lines[k] = Line(rows[k])
      <4> HIDE DEF constants, Line
      <4> QED BY <2>6
    <3>2. \A row : Line(row)[n + j] = given[name]
      <4> HIDE DEF Line
      <4> QED BY <1>17, <2>1
    <3>3. \A k \in DOMAIN table[2] : table[2][k][n + j] = given[name]
      <4> HIDE DEF Line, lines, table
      <4> QED BY <2>4, <3>1, <3>2
    <3>4. \A row : Value(name, row) = given[name]
      BY <1>19
    <3> HIDE DEF table, Value, allGiven
    <3> QED BY <2>3, <3>3, <3>4
  <2> QED BY <2>5, <2>6
<1>20. ASSUME ~ s.refused, NEW name \in D, ~ From(name)
       PROVE  \E i \in DOMAIN table[1] : Right(name, i)
  <2>1. PICK j \in 1 .. n : F[j] = name
    <3> HIDE DEF From
    <3> QED BY <1>9, <1>12, <1>20
  <2>2. j \in 1 .. n + m /\ s.found[j] = name
    <3>1. j \in 1 .. n + m /\ j <= n
      BY <1>7
    <3> QED BY <1>8, <2>1, <3>1
  <2>3. j \in DOMAIN table[1] /\ table[1][j] = required[name]
    BY <1>18, <1>20, <2>2
  <2>4. table[2] = lines
    <3> HIDE DEF columns, lines, table
    <3> QED BY <1>5, <1>20
  <2>5. SelectInSeq(header, LAMBDA c : c = name) = I[j]
    <3>1. /\ I[j] \in 1 .. Len(header) /\ header[I[j]] = name
          /\ \A q \in 1 .. Len(header) : header[q] = header[I[j]] => I[j] <= q
      BY <1>2, <2>1 DEF N
    <3>2. FirstOf(header, header[I[j]]) = I[j]
      BY <3>1, FirstColumn
    <3>3. FirstOf(header, name) = I[j]
      BY <3>1, <3>2
    <3> QED BY Zenon, <3>3 DEF FirstOf
  <2>6. ~ allGiven /\ I # <<>>
    <3> HIDE DEF From
    <3> QED BY <1>14, <1>20
  <2>7. \A k \in DOMAIN lines : lines[k] = Line(rows[k])
    <3> HIDE DEF constants, Line
    <3> QED BY <2>6
  <2>8. \A row : Line(row)[j] = row[I[j]]
    <3> HIDE DEF Line
    <3> QED BY <1>17
  <2>9. \A row : Value(name, row) = row[I[j]]
    <3> HIDE DEF From
    <3> QED BY <1>20, <2>5
  <2>10. \A k \in DOMAIN table[2] : table[2][k][j] = Value(name, rows[k])
    <3> HIDE DEF Line, lines, table, Value
    <3> QED BY <2>4, <2>7, <2>8, <2>9
  <2> HIDE DEF table, Value, allGiven
  <2> QED BY <2>3, <2>6, <2>10
<1>21. ASSUME ~ s.refused, NEW name \in D PROVE \E i \in DOMAIN table[1] : Right(name, i)
  <2> HIDE DEF From, Right, table
  <2> QED BY <1>19, <1>20, <1>21
<1>22. (table # <<>>) <=> \A name \in D : HasOneSource(policy, header, given, name)
  <2> HIDE DEF table
  <2> QED BY <1>3, <1>6
<1>23. table # <<>> =>
         /\ Len(table[1]) = Cardinality(D)
         /\ Len(table[2]) = IF allGiven THEN 1 ELSE Len(rows)
         /\ \A name \in D : \E i \in DOMAIN table[1] : Right(name, i)
  <2> HIDE DEF table, allGiven, Right
  <2> QED BY <1>6, <1>15, <1>16, <1>21
<1> HIDE DEF table
<1>24. ColumnsAreRight(required, policy, header, rows, given, table)
  BY Zenon, <1>22, <1>23 DEF ColumnsAreRight
<1> QED BY <1>24 DEF table

-----------------------------------------------------------------------------
\* Names and what decides their values, as a state of the loops; late are the
\* delayed names.
Deciding(d, late) ==
  [out |-> [x \in {y \in DOMAIN d : d[y] # <<>>} |-> Meaning(d[x])], delayed |-> late]

\* The names whose values wait for the data.
Late(d) == {x \in DOMAIN d : d[x] # <<>> /\ IsDelayed(d[x][1])}

\* The delayed names once x has the template t.
LateWith(late, x, t) == IF IsDelayed(t) THEN late \union {x} ELSE late

\* Of e and d only the entry for x differs.
DiffersAt(e, d, x) ==
  DOMAIN e = DOMAIN d /\ x \in DOMAIN d /\ \A y \in DOMAIN d : y # x => e[y] = d[y]

\* A template and the value it is applied to.
LEMMA PairIs ==
  ASSUME NEW t, NEW v
  PROVE  <<t, v>> # <<>> /\ Meaning(<<t, v>>) = EvalTemplate(t, v) /\ <<t, v>>[1] = t
<1>1. Len(<<t, v>>) = 2 /\ Len(<<>>) = 0
  OBVIOUS
<1>2. <<t, v>> # <<>>
  BY <1>1
<1>3. <<t, v>>[1] = t /\ <<t, v>>[2] = v
  OBVIOUS
<1> QED BY <1>2, <1>3 DEF Meaning

\* What is in such a state.
LEMMA DecidingHas ==
  ASSUME NEW d, NEW late
  PROVE  /\ DOMAIN Deciding(d, late).out = {x \in DOMAIN d : d[x] # <<>>}
         /\ \A x \in DOMAIN d : d[x] # <<>> => Deciding(d, late).out[x] = Meaning(d[x])
         /\ Deciding(d, late).delayed = late
BY DEF Deciding

\* A value that is put down becomes what decides its name.
LEMMA PutDecides ==
  ASSUME NEW d, NEW late, NEW e, NEW x, NEW t, NEW v, DiffersAt(e, d, x), e[x] = <<t, v>>
  PROVE  Put(Deciding(d, late), x, EvalTemplate(t, v), t)
           = Deciding(e, LateWith(late, x, t))
<1> DEFINE o == Deciding(d, late).out
           D == {y \in DOMAIN d : d[y] # <<>>}
           E == {y \in DOMAIN e : e[y] # <<>>}
           m == EvalTemplate(t, v)
<1>1. DOMAIN o = D /\ Deciding(d, late).delayed = late
      /\ \A y \in D : o[y] = Meaning(d[y])
  BY DecidingHas
<1>2. e[x] # <<>> /\ Meaning(e[x]) = m
  BY PairIs
<1>3. E = D \union {x}
  BY <1>2 DEF DiffersAt
<1>4. \A y \in E : Meaning(e[y]) = IF y = x THEN m ELSE o[y]
  <2>1. \A y \in E : y # x => y \in D /\ e[y] = d[y]
    BY <1>3 DEF DiffersAt
  <2> HIDE DEF o, m, D, E
  <2> QED BY <1>1, <1>2, <2>1
<1>5. [y \in E |-> Meaning(e[y])] = [y \in D \union {x} |-> IF y = x THEN m ELSE o[y]]
  <2> HIDE DEF o, m, D, E
  <2> QED BY <1>3, <1>4
<1>6. Deciding(e, LateWith(late, x, t))
        = [out |-> [y \in E |-> Meaning(e[y])],
           delayed |-> IF IsDelayed(t) THEN late \union {x} ELSE late]
  BY DEF Deciding, LateWith
<1>7. Put(Deciding(d, late), x, m, t)
        = [out |-> [y \in DOMAIN o \union {x} |-> IF y = x THEN m ELSE o[y]],
           delayed |-> IF IsDelayed(t) THEN Deciding(d, late).delayed \union {x}
                       ELSE Deciding(d, late).delayed]
  BY Zenon DEF Put
<1> HIDE DEF o, m, D, E
<1> QED BY <1>1, <1>5, <1>6, <1>7 DEF m

\* A value that is put down only where there is none.
LEMMA PutMissingDecides ==
  ASSUME NEW d, NEW late, NEW e, NEW x, NEW t, NEW v, DiffersAt(e, d, x),
         e[x] = OrElse(d[x], <<t, v>>)
  PROVE  /\ d[x] = <<>> => PutMissing(Deciding(d, late), x, EvalTemplate(t, v), t)
                              = Deciding(e, LateWith(late, x, t))
         /\ d[x] # <<>> => PutMissing(Deciding(d, late), x, EvalTemplate(t, v), t)
                              = Deciding(e, late)
<1>1. x \in DOMAIN Deciding(d, late).out <=> d[x] # <<>>
  BY DecidingHas DEF DiffersAt
<1>2. CASE d[x] # <<>>
  <2>1. DOMAIN e = DOMAIN d /\ \A y \in DOMAIN d : e[y] = d[y]
    BY <1>2 DEF DiffersAt, OrElse
  <2>2. Deciding(e, late) = Deciding(d, late)
    <3>1. {y \in DOMAIN e : e[y] # <<>>} = {y \in DOMAIN d : d[y] # <<>>}
      BY <2>1
    <3>2. [y \in {z \in DOMAIN e : e[z] # <<>>} |-> Meaning(e[y])]
            = [y \in {z \in DOMAIN d : d[z] # <<>>} |-> Meaning(d[y])]
      BY <2>1, <3>1
    <3> QED BY <3>2 DEF Deciding
  <2> QED BY <1>1, <1>2, <2>2 DEF PutMissing
<1>3. CASE d[x] = <<>>
  <2>1. e[x] = <<t, v>>
    BY <1>3 DEF OrElse
  <2>2. Put(Deciding(d, late), x, EvalTemplate(t, v), t)
          = Deciding(e, LateWith(late, x, t))
    BY <2>1, PutDecides
  <2>3. PutMissing(Deciding(d, late), x, EvalTemplate(t, v), t)
          = Put(Deciding(d, late), x, EvalTemplate(t, v), t)
    BY <1>1, <1>3, Zenon DEF PutMissing
  <2> QED BY <1>3, <2>2, <2>3
<1> QED BY <1>2, <1>3

\* A state is what its names say.
LEMMA SameDeciding ==
  ASSUME NEW d, NEW e, NEW late, DOMAIN e = DOMAIN d, \A x \in DOMAIN d : e[x] = d[x]
  PROVE  Deciding(e, late) = Deciding(d, late) /\ Late(e) = Late(d)
<1>1. {y \in DOMAIN e : e[y] # <<>>} = {y \in DOMAIN d : d[y] # <<>>}
  OBVIOUS
<1>2. [y \in {z \in DOMAIN e : e[z] # <<>>} |-> Meaning(e[y])]
        = [y \in {z \in DOMAIN d : d[z] # <<>>} |-> Meaning(d[y])]
  BY <1>1
<1> QED BY <1>2 DEF Deciding, Late

\* The delayed names when one name is decided.
LEMMA LateAt ==
  ASSUME NEW d, NEW e, NEW x, NEW t, NEW v, DiffersAt(e, d, x), e[x] = <<t, v>>,
         ~ IsDelayed(t) => x \notin Late(d)
  PROVE  Late(e) = LateWith(Late(d), x, t)
<1>1. e[x] # <<>> /\ e[x][1] = t
  BY PairIs
<1>2. \A y \in DOMAIN d : y # x => (y \in Late(e) <=> y \in Late(d))
  BY DEF DiffersAt, Late
<1>3. x \in Late(e) <=> IsDelayed(t)
  BY <1>1 DEF DiffersAt, Late
<1>4. Late(e) \subseteq DOMAIN d /\ Late(d) \subseteq DOMAIN d /\ x \in DOMAIN d
  BY DEF DiffersAt, Late
<1> QED BY <1>2, <1>3, <1>4 DEF LateWith

-----------------------------------------------------------------------------
\* What the first loop applies to a value that goes to the name x.
TemplateOf(ps, x) ==
  LET p == Parameter(ps, x)
  IN  IF Configured(ps, x) /\ HasTranslator(p)
        THEN IF Override(p) THEN p.valueOverride[1] ELSE p.valueTranslator[1]
        ELSE AsIs

\* The last of some names, in the order of the loop.
LatestOf(names) == CHOOSE n \in names : \A k \in names : k <= n

\* The parameters of the request, up to n, that end up under x.
BringingUpto(ps, input, n, x) == {k \in Bringing(ps, input, x) : k <= n}

\* What the parameters of the request decide about x, those up to n.
BroughtUpto(ps, input, n, x) ==
  IF BringingUpto(ps, input, n, x) = {} \/ IsSilenced(ps, x) THEN <<>>
  ELSE <<TemplateOf(ps, x), input[LatestOf(BringingUpto(ps, input, n, x))]>>

\* The same for every name.
Brought(ps, input, n) == [x \in Mentioned(ps, input) |-> BroughtUpto(ps, input, n, x)]

\* The first loop after n.
WithRequest(ps, input, n) == Deciding(Brought(ps, input, n), Late(Brought(ps, input, n)))

\* The greatest number of a set is its last.
LEMMA LatestIs ==
  ASSUME NEW S, S \subseteq Nat, NEW m \in S, \A k \in S : k <= m
  PROVE  LatestOf(S) = m
<1>1. LatestOf(S) \in S /\ \A k \in S : k <= LatestOf(S)
  BY DEF LatestOf
<1>2. LatestOf(S) <= m /\ m <= LatestOf(S) /\ m \in Nat /\ LatestOf(S) \in Nat
  BY <1>1
<1> HIDE DEF LatestOf
<1> QED BY <1>2

\* What one more parameter of the request changes.
LEMMA BroughtBy ==
  ASSUME NEW ps, NEW input, NEW n \in Nat, DOMAIN input \subseteq Nat, NEW x
  PROVE  /\ n + 1 \notin Bringing(ps, input, x) =>
              BroughtUpto(ps, input, n + 1, x) = BroughtUpto(ps, input, n, x)
         /\ n + 1 \in Bringing(ps, input, x) /\ ~ IsSilenced(ps, x) =>
              BroughtUpto(ps, input, n + 1, x) = <<TemplateOf(ps, x), input[n + 1]>>
<1> DEFINE B == Bringing(ps, input, x)
           b == BringingUpto(ps, input, n, x)
           c == BringingUpto(ps, input, n + 1, x)
<1>1. B \subseteq Nat
  BY DEF Bringing
<1>2. b = {k \in B : k <= n} /\ c = {k \in B : k <= n + 1}
  BY DEF BringingUpto
<1>3. ASSUME n + 1 \notin B PROVE c = b
  <2>1. \A k \in B : k <= n <=> k <= n + 1
    <3> SUFFICES ASSUME NEW k \in B PROVE k <= n <=> k <= n + 1
      OBVIOUS
    <3>1. k \in Nat /\ k # n + 1
      BY <1>1, <1>3
    <3> HIDE DEF B
    <3> QED BY <3>1
  <2> QED BY <1>2, <2>1
<1>4. ASSUME n + 1 \in B PROVE c # {} /\ LatestOf(c) = n + 1
  <2>1. n + 1 \in Nat /\ n + 1 <= n + 1
    OBVIOUS
  <2>2. n + 1 \in c /\ c \subseteq Nat /\ \A k \in c : k <= n + 1
    BY <1>1, <1>2, <1>4, <2>1
  <2> HIDE DEF c
  <2> QED BY <2>2, LatestIs
<1> QED BY <1>3, <1>4 DEF BroughtUpto

\* The first loop puts a parameter down where the rule says, whether it is renamed,
\* silenced or translated.
LEMMA RequestStep ==
  ASSUME NEW ps, NEW input, NEW n \in Nat, n + 1 \in DOMAIN input, DOMAIN input \subseteq Nat,
         input[n + 1] \in Seq(STRING)
  PROVE  TranslateInput(ps, input, WithRequest(ps, input, n), n + 1) = WithRequest(ps, input, n + 1)
<1> DEFINE m == n + 1
           v == input[m]
           U == Mentioned(ps, input)
           d == Brought(ps, input, n)
           e == Brought(ps, input, m)
           s == WithRequest(ps, input, n)
           ren == Configured(ps, m) /\ Renamed(Parameter(ps, m))
           tgt == IF ren THEN Parameter(ps, m).translatedName[1] ELSE m
           T == TemplateOf(ps, tgt)
           t == IF HasTranslator(Parameter(ps, tgt))
                  THEN (IF Override(Parameter(ps, tgt)) THEN Parameter(ps, tgt).valueOverride[1]
                        ELSE Parameter(ps, tgt).valueTranslator[1])
                  ELSE AsIs
<1>1. TranslateInput(ps, input, s, m) =
        IF ren /\ tgt \in DOMAIN input THEN s
        ELSE IF ~ Configured(ps, tgt) THEN Put(s, tgt, v, AsIs)
        ELSE IF IsSilenced(ps, tgt) THEN [s EXCEPT !.delayed = @ \ {tgt}]
        ELSE Put(s, tgt, EvalTemplate(t, v), t)
  BY Zenon DEF TranslateInput
<1>2. T = IF Configured(ps, tgt) THEN t ELSE AsIs
  BY DEF TemplateOf
<1>3. \A x : m \in Bringing(ps, input, x) <=> x = tgt /\ ~ (ren /\ tgt \in DOMAIN input)
  BY DEF Bringing
<1>4. DOMAIN d = U /\ DOMAIN e = U
      /\ \A x \in U : d[x] = BroughtUpto(ps, input, n, x) /\ e[x] = BroughtUpto(ps, input, m, x)
  BY DEF Brought
<1>5. \A x \in U : m \notin Bringing(ps, input, x) => e[x] = d[x]
  BY <1>4, BroughtBy
<1>6. m \in Bringing(ps, input, tgt) /\ tgt \in U /\ ~ IsSilenced(ps, tgt) => e[tgt] = <<T, v>>
  BY <1>4, BroughtBy
<1>7. tgt \in U
  <2>1. CASE ren
    <3>1. \E k \in DOMAIN ps : Parameter(ps, m) = ps[k] /\ Renamed(ps[k])
      BY <2>1 DEF Configured, Parameter, Plain
    <3> QED BY <2>1, <3>1 DEF Mentioned
  <2>2. CASE ~ ren
    BY <2>2 DEF Mentioned
  <2> QED BY <2>1, <2>2
<1>8. d[tgt] # <<>> => d[tgt][1] = T
  <2>1. d[tgt] = BroughtUpto(ps, input, n, tgt)
    BY <1>4, <1>7
  <2> HIDE DEF d, tgt
  <2> DEFINE w == input[LatestOf(BringingUpto(ps, input, n, tgt))]
  <2>2. d[tgt] # <<>> => d[tgt] = <<T, w>>
    BY <2>1 DEF BroughtUpto
  <2> HIDE DEF w, T
  <2>3. <<T, w>>[1] = T
    BY PairIs
  <2> QED BY <2>2, <2>3
<1>9. s = Deciding(d, Late(d)) /\ WithRequest(ps, input, m) = Deciding(e, Late(e))
  BY DEF WithRequest
<1> HIDE DEF m, d, e, s, ren, T, t, U, v
<1>10. CASE ren /\ tgt \in DOMAIN input
  <2>1. \A x \in U : e[x] = d[x]
    BY <1>3, <1>5, <1>10
  <2> HIDE DEF tgt
  <2>2. Deciding(e, Late(d)) = Deciding(d, Late(d)) /\ Late(e) = Late(d)
    BY <1>4, <2>1, SameDeciding
  <2>3. TranslateInput(ps, input, s, m) = s
    BY <1>1, <1>10
  <2> QED BY <1>9, <2>2, <2>3 DEF m, s
<1>11. CASE ~ (ren /\ tgt \in DOMAIN input) /\ IsSilenced(ps, tgt)
  <2>1. Configured(ps, tgt)
    BY <1>11 DEF IsSilenced
  <2>2. d[tgt] = <<>> /\ e[tgt] = <<>>
    BY <1>4, <1>7, <1>11 DEF BroughtUpto
  <2>3. \A x \in U : e[x] = d[x]
    BY <1>3, <1>5, <2>2
  <2>4. tgt \notin Late(d)
    BY <2>2 DEF Late
  <2>5. TranslateInput(ps, input, s, m) = [s EXCEPT !.delayed = @ \ {tgt}]
    BY <1>1, <1>11, <2>1
  <2>6. s = [out |-> s.out, delayed |-> Late(d)] /\ Late(d) \ {tgt} = Late(d)
    BY <1>9, <2>4 DEF Deciding
  <2>7. [s EXCEPT !.delayed = @ \ {tgt}] = s
    BY <2>6
  <2> HIDE DEF tgt
  <2>8. Deciding(e, Late(d)) = Deciding(d, Late(d)) /\ Late(e) = Late(d)
    BY <1>4, <2>3, SameDeciding
  <2> QED BY <1>9, <2>5, <2>7, <2>8 DEF m, s
<1>12. CASE ~ (ren /\ tgt \in DOMAIN input) /\ ~ IsSilenced(ps, tgt)
  <2>1. e[tgt] = <<T, v>>
    BY <1>3, <1>6, <1>7, <1>12
  <2>2. DiffersAt(e, d, tgt)
    BY <1>3, <1>4, <1>5, <1>7 DEF DiffersAt
  <2>3. TranslateInput(ps, input, s, m) = Put(s, tgt, EvalTemplate(T, v), T)
    <3>1. EvalTemplate(AsIs, v) = v
      <4>1. v \in Seq(STRING)
        BY DEF v, m
      <4>2. EvalTemplate(AsIs, v) = <<>> \o v
        BY DEF EvalTemplate, AsIs, IsDelayed
      <4> QED BY <4>1, <4>2, ConcatEmptySeq
    <3> HIDE DEF tgt
    <3> QED BY <1>1, <1>2, <1>12, <3>1
  <2>4. Put(s, tgt, EvalTemplate(T, v), T) = Deciding(e, LateWith(Late(d), tgt, T))
    <3> HIDE DEF tgt
    <3> QED BY <1>9, <2>1, <2>2, PutDecides
  <2>5. Late(e) = LateWith(Late(d), tgt, T)
    <3>1. ~ IsDelayed(T) => tgt \notin Late(d)
      BY <1>8 DEF Late
    <3> HIDE DEF tgt
    <3> QED BY <2>1, <2>2, <3>1, LateAt
  <2> HIDE DEF tgt
  <2> QED BY <1>9, <2>3, <2>4, <2>5 DEF m, s
<1> HIDE DEF tgt
<1> QED BY <1>10, <1>11, <1>12

-----------------------------------------------------------------------------
\* Two functions with the same beginning and the same steps are equal.
LEMMA SameRecursion ==
  ASSUME NEW f, NEW g, f[0] = g[0], \A n \in Nat : f[n] = g[n] => f[n + 1] = g[n + 1]
  PROVE  \A n \in Nat : f[n] = g[n]
<1> DEFINE T == {n \in Nat : f[n] = g[n]}
<1>1. 0 \in T /\ \A n \in Nat : n \in T => n + 1 \in T
  OBVIOUS
<1>2. Nat \subseteq T
  <2> HIDE DEF T
  <2> QED BY <1>1, Induction
<1> QED BY <1>2

\* The first loop.
TheRequest(ps, input) ==
  InNameOrder(LAMBDA st, n : TranslateInput(ps, input, st, n), NothingTranslated, DOMAIN input)

\* The first loop begins with no name.
LEMMA RequestFirst ==
  ASSUME NEW ps, NEW input, DOMAIN input \subseteq Nat \ {0}
  PROVE  WithRequest(ps, input, 0) = NothingTranslated
<1> DEFINE d == Brought(ps, input, 0)
<1>1. \A x : BringingUpto(ps, input, 0, x) = {}
  BY DEF BringingUpto, Bringing
<1>2. \A x \in DOMAIN d : d[x] = <<>>
  BY <1>1 DEF Brought, BroughtUpto
<1>3. WithRequest(ps, input, 0) = Deciding(d, Late(d))
  BY DEF WithRequest
<1> HIDE DEF d
<1>4. Late(d) = {} /\ {y \in DOMAIN d : d[y] # <<>>} = {}
  BY <1>2 DEF Late
<1>5. [x \in {y \in DOMAIN d : d[y] # <<>>} |-> Meaning(d[x])] = <<>>
  <2>1. <<>> \in Seq({}) /\ Len(<<>>) = 0
    OBVIOUS
  <2>2. <<>> \in [1 .. 0 -> {}]
    BY <2>1, LenProperties
  <2> QED BY <1>4, <2>2
<1> QED BY <1>3, <1>4, <1>5 DEF Deciding, NothingTranslated

\* The first loop has seen the whole request at its end.
LEMMA RequestIs ==
  ASSUME NEW ps, NEW input, DOMAIN input \subseteq Nat \ {0}, IsFiniteSet(DOMAIN input),
         \A n \in DOMAIN input : input[n] \in Seq(STRING)
  PROVE  \E n \in Nat : /\ \A x \in DOMAIN input : x <= n
                        /\ TheRequest(ps, input) = WithRequest(ps, input, n)
<1> DEFINE D == DOMAIN input
           first == NothingTranslated
           g == [n \in Nat |-> WithRequest(ps, input, n)]
           P(h) == h = [n \in Nat |-> IF n = 0 THEN first
                                      ELSE IF n \in D THEN TranslateInput(ps, input, h[n - 1], n)
                                      ELSE h[n - 1]]
           f == CHOOSE h : P(h)
<1>1. TheRequest(ps, input) = IF D = {} THEN first ELSE f[Max(D)]
  BY Zenon DEF TheRequest, InNameOrder
<1>2. WithRequest(ps, input, 0) = first
  BY RequestFirst
<1>3. ASSUME NEW n \in Nat
      PROVE  WithRequest(ps, input, n + 1)
               = IF n + 1 \in D THEN TranslateInput(ps, input, WithRequest(ps, input, n), n + 1)
                 ELSE WithRequest(ps, input, n)
  <2>1. CASE n + 1 \in D
    BY <2>1, RequestStep
  <2>2. CASE n + 1 \notin D
    <3>1. \A x : n + 1 \notin Bringing(ps, input, x)
      BY <2>2 DEF Bringing
    <3>2. \A x : BroughtUpto(ps, input, n + 1, x) = BroughtUpto(ps, input, n, x)
      BY <3>1, BroughtBy
    <3>3. Brought(ps, input, n + 1) = Brought(ps, input, n)
      BY <3>2 DEF Brought
    <3> QED BY <2>2, <3>3 DEF WithRequest
  <2> QED BY <2>1, <2>2
<1>4. \A n \in Nat : g[n] = WithRequest(ps, input, n)
  OBVIOUS
<1>5. P(g)
  <2>1. ASSUME NEW n \in Nat
        PROVE  g[n] = IF n = 0 THEN first
                      ELSE IF n \in D THEN TranslateInput(ps, input, g[n - 1], n) ELSE g[n - 1]
    <3>1. CASE n = 0
      BY <1>2, <1>4, <3>1
    <3>2. CASE n # 0
      <4>1. n - 1 \in Nat /\ (n - 1) + 1 = n
        BY <3>2
      <4> HIDE DEF g, D
      <4> QED BY <1>3, <1>4, <3>2, <4>1
    <3> QED BY <3>1, <3>2
  <2> QED BY <2>1
<1>6. P(f)
  <2> HIDE DEF P
  <2> QED BY <1>5
<1>7. \A n \in Nat : f[n] = IF n = 0 THEN first
                            ELSE IF n \in D THEN TranslateInput(ps, input, f[n - 1], n) ELSE f[n - 1]
  <2> HIDE DEF f
  <2> QED BY <1>6
<1> HIDE DEF f, g, P
<1>8. \A n \in Nat : f[n] = g[n]
  <2>1. f[0] = g[0]
    BY <1>2, <1>4, <1>7
  <2>2. ASSUME NEW n \in Nat, f[n] = g[n] PROVE f[n + 1] = g[n + 1]
    <3>1. n + 1 \in Nat /\ n + 1 # 0 /\ (n + 1) - 1 = n
      OBVIOUS
    <3> HIDE DEF D
    <3> QED BY <1>3, <1>4, <1>7, <2>2, <3>1
  <2> QED BY <2>1, <2>2, SameRecursion
<1>9. CASE D = {}
  BY <1>1, <1>2, <1>9
<1>10. CASE D # {}
  <2>1. Max(D) \in D /\ (\A x \in D : x <= Max(D)) /\ Max(D) \in Nat
    BY <1>10, MaxIs
  <2> HIDE DEF D
  <2> QED BY <1>1, <1>4, <1>8, <1>10, <2>1 DEF D
<1> QED BY <1>9, <1>10

-----------------------------------------------------------------------------
\* A state of the last three loops; early are the names that were delayed before them.
StateOf(d, early) == Deciding(d, early \union Late(d))

\* A state is what its names say.
LEMMA SameState ==
  ASSUME NEW d, NEW e, NEW early, DOMAIN e = DOMAIN d, \A x \in DOMAIN d : e[x] = d[x]
  PROVE  StateOf(e, early) = StateOf(d, early)
<1> DEFINE late == early \union Late(d)
<1>1. Deciding(e, late) = Deciding(d, late) /\ Late(e) = Late(d)
  <2> HIDE DEF late
  <2> QED BY SameDeciding
<1> QED BY <1>1 DEF StateOf

\* x may be delayed only if it was delayed before.
IsEarly(x, d, early) == x \in Late(d) => x \in early

\* A value that replaces another one; a name stays delayed only if it was before.
LEMMA PutKeeps ==
  ASSUME NEW d, NEW early, NEW e, NEW x, NEW t, NEW v, DiffersAt(e, d, x), e[x] = <<t, v>>,
         IsEarly(x, d, early)
  PROVE  Put(StateOf(d, early), x, EvalTemplate(t, v), t) = StateOf(e, early)
<1> DEFINE late == early \union Late(d)
<1>1. Put(Deciding(d, late), x, EvalTemplate(t, v), t) = Deciding(e, LateWith(late, x, t))
  <2> HIDE DEF late
  <2> QED BY PutDecides
<1>2. LateWith(late, x, t) = early \union Late(e)
  <2>1. e[x] # <<>> /\ e[x][1] = t
    BY PairIs
  <2>2. \A y \in DOMAIN d : y # x => (y \in Late(e) <=> y \in Late(d))
    BY DEF DiffersAt, Late
  <2>3. x \in Late(e) <=> IsDelayed(t)
    BY <2>1 DEF DiffersAt, Late
  <2>4. Late(e) \subseteq DOMAIN d /\ Late(d) \subseteq DOMAIN d /\ x \in DOMAIN d
    BY DEF DiffersAt, Late
  <2> QED BY <2>2, <2>3, <2>4 DEF LateWith, IsEarly
<1> QED BY <1>1, <1>2 DEF StateOf

\* A value that is put down only if the name has none.
LEMMA FillKeeps ==
  ASSUME NEW d, NEW early, NEW e, NEW x, NEW t, NEW v, DiffersAt(e, d, x),
         e[x] = OrElse(d[x], <<t, v>>)
  PROVE  PutMissing(StateOf(d, early), x, EvalTemplate(t, v), t) = StateOf(e, early)
<1>1. CASE d[x] = <<>>
  <2>1. e[x] = <<t, v>> /\ IsEarly(x, d, early)
    BY <1>1 DEF OrElse, Late, IsEarly
  <2>2. x \notin DOMAIN StateOf(d, early).out
    BY <1>1, DecidingHas DEF StateOf
  <2>3. Put(StateOf(d, early), x, EvalTemplate(t, v), t) = StateOf(e, early)
    BY <2>1, PutKeeps
  <2> QED BY <2>2, <2>3 DEF PutMissing
<1>2. CASE d[x] # <<>>
  <2>1. DOMAIN e = DOMAIN d /\ \A y \in DOMAIN d : e[y] = d[y]
    BY <1>2 DEF DiffersAt, OrElse
  <2>2. x \in DOMAIN StateOf(d, early).out
    BY <1>2, DecidingHas DEF StateOf, DiffersAt
  <2>3. StateOf(e, early) = StateOf(d, early)
    BY <2>1, SameState
  <2> QED BY <2>2, <2>3 DEF PutMissing
<1> QED BY <1>1, <1>2

-----------------------------------------------------------------------------
\* The names of the elements.
NamesOf(ps) == {ps[n].name : n \in DOMAIN ps}

\* What the configurations are assumed to be.
HasNames(ps) == ps \in Seq(Range(ps)) /\ \A n \in DOMAIN ps : ps[n].name \in Nat \ {0}

\* The names that the last three loops go through are names of elements.
LEMMA NamesAre ==
  ASSUME NEW ps, NEW input, HasNames(ps)
  PROVE  /\ IsFiniteSet(NamesOf(ps)) /\ NamesOf(ps) \subseteq Nat \ {0}
         /\ NamesOf(ps) \subseteq Mentioned(ps, input)
         /\ PrimaryNames(ps) \subseteq NamesOf(ps)
         /\ DerivedNames(ps) \subseteq NamesOf(ps)
         /\ SecondaryNames(ps) \subseteq NamesOf(ps)
<1>1. IsFiniteSet(NamesOf(ps))
  <2> DEFINE f == [n \in DOMAIN ps |-> ps[n].name]
  <2>1. DOMAIN ps = 1 .. Len(ps) /\ Len(ps) \in Nat
    BY LenProperties DEF HasNames
  <2>2. IsFiniteSet(DOMAIN ps)
    BY <2>1, FS_Interval
  <2>3. f \in Surjection(DOMAIN ps, NamesOf(ps))
    BY DEF Surjection, NamesOf
  <2> QED BY <2>2, <2>3, FS_Surjection
<1>2. NamesOf(ps) \subseteq Nat \ {0}
  BY DEF NamesOf, HasNames
<1>3. NamesOf(ps) \subseteq Mentioned(ps, input)
  BY DEF NamesOf, Mentioned, Range
<1>4. PrimaryNames(ps) \subseteq NamesOf(ps)
  BY DEF PrimaryNames, PrimaryDefault, Elements, NamesOf
<1>5. DerivedNames(ps) \subseteq NamesOf(ps)
  BY DEF DerivedNames, Elements, NamesOf
<1>6. SecondaryNames(ps) \subseteq NamesOf(ps)
  BY DEF SecondaryNames, Elements, NamesOf
<1> QED BY <1>1, <1>2, <1>3, <1>4, <1>5, <1>6

\* They have a greatest one.
LEMMA SomeNamesAre ==
  ASSUME NEW ps, HasNames(ps), NEW S, S \subseteq NamesOf(ps)
  PROVE  IsFiniteSet(S) /\ S \subseteq Nat \ {0}
BY NamesAre, FS_Subset

-----------------------------------------------------------------------------
\* v, if the loop over the names that has come to n has met x.
By(n, x, v) == IF x \in Nat /\ x <= n THEN v ELSE <<>>

\* Only the name n + 1 is met between n and n + 1.
LEMMA ByNext ==
  ASSUME NEW n \in Nat, NEW x, NEW v
  PROVE  /\ x # n + 1 => By(n + 1, x, v) = By(n, x, v)
         /\ By(n, n + 1, v) = <<>> /\ By(n + 1, n + 1, v) = v
<1>1. x \in Nat /\ x # n + 1 => (x <= n + 1 <=> x <= n)
  OBVIOUS
<1>2. n + 1 \in Nat /\ ~ (n + 1 <= n) /\ n + 1 <= n + 1
  OBVIOUS
<1> QED BY <1>1, <1>2 DEF By

\* A name that nothing decides.
LEMMA ByNone == ASSUME NEW n, NEW x PROVE By(n, x, <<>>) = <<>>
BY DEF By

\* Before the first name.
LEMMA ByZero ==
  ASSUME NEW x, NEW v, v # <<>> => x \in Nat \ {0}
  PROVE  By(0, x, v) = <<>>
<1>1. CASE v = <<>>
  BY <1>1 DEF By
<1>2. CASE v # <<>>
  <2>1. x \in Nat \ {0}
    BY <1>2
  <2>2. ~ (x <= 0)
    BY <2>1
  <2> QED BY <2>2 DEF By
<1> QED BY <1>1, <1>2

\* After the last name.
LEMMA ByAll ==
  ASSUME NEW n, NEW x, NEW v, v # <<>> => x \in Nat /\ x <= n
  PROVE  By(n, x, v) = v
BY DEF By

-----------------------------------------------------------------------------
\* The second loop.
TheDefaults(ps, first) ==
  InNameOrder(LAMBDA st, n : FillDefault(ps, st, n), first, PrimaryNames(ps))

\* What decides each name when the second loop has come to n.
DefaultedUpto(ps, input, n) ==
  [x \in Mentioned(ps, input) |-> OrElse(FromRequest(ps, input, x), By(n, x, FromDefault(ps, x)))]

\* The state of the second loop after n.
WithDefaults(ps, input, n) == StateOf(DefaultedUpto(ps, input, n), {})

\* The second loop fills a name only if the request has not brought it.
LEMMA DefaultStep ==
  ASSUME NEW ps, NEW input, HasNames(ps), NEW n \in Nat, n + 1 \in PrimaryNames(ps)
  PROVE  WithDefaults(ps, input, n + 1) = FillDefault(ps, WithDefaults(ps, input, n), n + 1)
<1> DEFINE m == n + 1
           U == Mentioned(ps, input)
           d == DefaultedUpto(ps, input, n)
           e == DefaultedUpto(ps, input, m)
           t == PrimaryValue(ps, m)
           v == <<"%v">>
<1>1. m \in U
  BY NamesAre
<1>2. DOMAIN d = U /\ DOMAIN e = U
      /\ \A x \in U : /\ d[x] = OrElse(FromRequest(ps, input, x), By(n, x, FromDefault(ps, x)))
                      /\ e[x] = OrElse(FromRequest(ps, input, x), By(m, x, FromDefault(ps, x)))
  BY DEF DefaultedUpto
<1>3. FromDefault(ps, m) = <<t, v>>
  BY DEF FromDefault
<1> HIDE DEF d, e, U, t, v
<1>4. \A x \in U : x # m => e[x] = d[x]
  BY <1>2, ByNext
<1>5. e[m] = OrElse(FromRequest(ps, input, m), <<t, v>>) /\ d[m] = OrElse(FromRequest(ps, input, m), <<>>)
  BY <1>1, <1>2, <1>3, ByNext
<1>6. e[m] = OrElse(d[m], <<t, v>>)
  BY <1>5 DEF OrElse
<1>7. DiffersAt(e, d, m)
  BY <1>1, <1>2, <1>4 DEF DiffersAt
<1>8. FillDefault(ps, StateOf(d, {}), m) = PutMissing(StateOf(d, {}), m, EvalTemplate(t, v), t)
  BY Zenon DEF FillDefault, t, v
<1> HIDE DEF m
<1>9. PutMissing(StateOf(d, {}), m, EvalTemplate(t, v), t) = StateOf(e, {})
  BY <1>6, <1>7, FillKeeps
<1> QED BY <1>8, <1>9 DEF WithDefaults, d, e, m

\* A name without a default.
LEMMA DefaultSkip ==
  ASSUME NEW ps, NEW input, NEW n \in Nat, n + 1 \notin PrimaryNames(ps)
  PROVE  WithDefaults(ps, input, n + 1) = WithDefaults(ps, input, n)
<1>1. FromDefault(ps, n + 1) = <<>>
  BY DEF FromDefault
<1>2. ASSUME NEW x PROVE By(n + 1, x, FromDefault(ps, x)) = By(n, x, FromDefault(ps, x))
  BY <1>1, ByNext, ByNone
<1> QED BY <1>2 DEF WithDefaults, DefaultedUpto

\* The second loop has filled every name at its end.
LEMMA DefaultsAre ==
  ASSUME NEW ps, NEW input, HasNames(ps)
  PROVE  \E n \in Nat : /\ \A x \in PrimaryNames(ps) : x <= n
                        /\ TheDefaults(ps, WithDefaults(ps, input, 0)) = WithDefaults(ps, input, n)
<1> DEFINE D == PrimaryNames(ps)
           first == WithDefaults(ps, input, 0)
           g == [n \in Nat |-> WithDefaults(ps, input, n)]
           P(h) == h = [n \in Nat |-> IF n = 0 THEN first
                                      ELSE IF n \in D THEN FillDefault(ps, h[n - 1], n) ELSE h[n - 1]]
           f == CHOOSE h : P(h)
<1>1. TheDefaults(ps, first) = IF D = {} THEN first ELSE f[Max(D)]
  BY Zenon DEF TheDefaults, InNameOrder
<1>2. ASSUME NEW n \in Nat
      PROVE  WithDefaults(ps, input, n + 1)
               = IF n + 1 \in D THEN FillDefault(ps, WithDefaults(ps, input, n), n + 1) ELSE WithDefaults(ps, input, n)
  BY DefaultStep, DefaultSkip
<1>3. \A n \in Nat : g[n] = WithDefaults(ps, input, n)
  OBVIOUS
<1>4. P(g)
  <2>1. ASSUME NEW n \in Nat
        PROVE  g[n] = IF n = 0 THEN first
                      ELSE IF n \in D THEN FillDefault(ps, g[n - 1], n) ELSE g[n - 1]
    <3>1. CASE n = 0
      BY <1>3, <3>1
    <3>2. CASE n # 0
      <4>1. n - 1 \in Nat /\ (n - 1) + 1 = n
        BY <3>2
      <4> HIDE DEF g, D
      <4> QED BY <1>2, <1>3, <3>2, <4>1
    <3> QED BY <3>1, <3>2
  <2> QED BY <2>1
<1>5. P(f)
  <2> HIDE DEF P
  <2> QED BY <1>4
<1>6. \A n \in Nat : f[n] = IF n = 0 THEN first
                            ELSE IF n \in D THEN FillDefault(ps, f[n - 1], n) ELSE f[n - 1]
  <2> HIDE DEF f
  <2> QED BY <1>5
<1> HIDE DEF f, g, P
<1>7. \A n \in Nat : f[n] = g[n]
  <2>1. f[0] = g[0]
    BY <1>3, <1>6
  <2>2. ASSUME NEW n \in Nat, f[n] = g[n] PROVE f[n + 1] = g[n + 1]
    <3>1. n + 1 \in Nat /\ n + 1 # 0 /\ (n + 1) - 1 = n
      OBVIOUS
    <3> HIDE DEF D
    <3> QED BY <1>2, <1>3, <1>6, <2>2, <3>1
  <2> QED BY <2>1, <2>2, SameRecursion
<1>8. CASE D = {}
  BY <1>1, <1>8
<1>9. CASE D # {}
  <2>1. IsFiniteSet(D) /\ D \subseteq Nat
    BY NamesAre, SomeNamesAre
  <2>2. Max(D) \in D /\ (\A x \in D : x <= Max(D)) /\ Max(D) \in Nat
    BY <1>9, <2>1, MaxIs
  <2> HIDE DEF D
  <2> QED BY <1>1, <1>3, <1>7, <1>9, <2>2 DEF D
<1> QED BY <1>8, <1>9

-----------------------------------------------------------------------------
\* A name that has a value and may get one derived from others.
Deriving(ps, x, plainly, derived) ==
  IF derived # <<>> /\ Override(DerivedValue(ps, x)) THEN derived ELSE OrElse(plainly, derived)

\* What the first two loops decide.
AllPlain(ps, input) == [x \in Mentioned(ps, input) |-> Plainly(ps, input, x)]

\* The names that are delayed when the third loop begins.
Early(ps, input) == Late(AllPlain(ps, input))

\* The third loop.
TheDerived(ps, first) ==
  InNameOrder(LAMBDA st, n : Derive(ps, st, n), first, DerivedNames(ps))

\* What decides each name when the third loop has come to n.
DerivedUpto(ps, input, n) ==
  [x \in Mentioned(ps, input) |->
     Deriving(ps, x, Plainly(ps, input, x), By(n, x, FromSources(ps, input, x)))]

\* The state of the third loop after n.
WithDerived(ps, input, n) == StateOf(DerivedUpto(ps, input, n), Early(ps, input))

\* Nothing decides a name that neither the request nor an element mentions.
LEMMA NotMentioned ==
  ASSUME NEW ps, NEW input, HasNames(ps), NEW x, x \notin Mentioned(ps, input)
  PROVE  Plainly(ps, input, x) = <<>>
<1>1. ASSUME NEW k \in Bringing(ps, input, x) PROVE FALSE
  <2>1. CASE Configured(ps, k) /\ Renamed(Parameter(ps, k))
    <3>1. Parameter(ps, k).translatedName[1] = x
      BY <1>1, <2>1 DEF Bringing
    <3>2. \E j \in DOMAIN ps : Parameter(ps, k) = ps[j] /\ Renamed(ps[j])
      BY <2>1 DEF Configured, Parameter, Plain
    <3> QED BY <3>1, <3>2 DEF Mentioned
  <2>2. CASE ~ (Configured(ps, k) /\ Renamed(Parameter(ps, k)))
    BY <1>1, <2>2 DEF Bringing, Mentioned
  <2> QED BY <2>1, <2>2
<1>2. Bringing(ps, input, x) = {}
  BY <1>1
<1>3. FromRequest(ps, input, x) = <<>>
  BY <1>2 DEF FromRequest
<1>4. x \notin PrimaryNames(ps)
  BY NamesAre
<1>5. FromDefault(ps, x) = <<>>
  BY <1>4 DEF FromDefault
<1> QED BY <1>3, <1>5 DEF Plainly, OrElse

\* A source of a derived value is not derived itself, so the third loop does not
\* change it.
LEMMA DerivedHas ==
  ASSUME NEW ps, NEW input, NEW n, NEW y, HasNames(ps), y \notin DerivedNames(ps)
  PROVE  /\ y \in DOMAIN WithDerived(ps, input, n).out <=> Plainly(ps, input, y) # <<>>
         /\ Plainly(ps, input, y) # <<>> =>
              WithDerived(ps, input, n).out[y] = Meaning(Plainly(ps, input, y))
<1> DEFINE d == DerivedUpto(ps, input, n)
           U == Mentioned(ps, input)
           late == Early(ps, input) \union Late(d)
<1>1. FromSources(ps, input, y) = <<>>
  BY DEF FromSources
<1>2. DOMAIN d = U
      /\ \A x \in U : d[x] = Deriving(ps, x, Plainly(ps, input, x), By(n, x, FromSources(ps, input, x)))
  BY DEF DerivedUpto
<1>3. y \in U => d[y] = Plainly(ps, input, y)
  BY <1>1, <1>2, ByNone DEF Deriving, OrElse
<1>4. y \notin U => Plainly(ps, input, y) = <<>>
  BY NotMentioned
<1>5. WithDerived(ps, input, n) = Deciding(d, late)
  BY DEF WithDerived, StateOf
<1> HIDE DEF d, late, U
<1>6. /\ DOMAIN Deciding(d, late).out = {x \in DOMAIN d : d[x] # <<>>}
      /\ \A x \in DOMAIN d : d[x] # <<>> => Deciding(d, late).out[x] = Meaning(d[x])
  BY DecidingHas
<1> QED BY <1>2, <1>3, <1>4, <1>5, <1>6

\* The third loop derives a value from what the first two left of its sources; an
\* override replaces a value, a translator does not.
LEMMA DeriveStep ==
  ASSUME NEW ps, NEW input, HasNames(ps), Accepts(ps), NEW n \in Nat, n + 1 \in DerivedNames(ps)
  PROVE  WithDerived(ps, input, n + 1) = Derive(ps, WithDerived(ps, input, n), n + 1)
<1> DEFINE m == n + 1
           U == Mentioned(ps, input)
           early == Early(ps, input)
           d == DerivedUpto(ps, input, n)
           e == DerivedUpto(ps, input, m)
           s == WithDerived(ps, input, n)
           p == DerivedValue(ps, m)
           t == Derivation(p)
           from == SourceNames(p)
           v == FlattenSeq([k \in DOMAIN from |-> s.out[from[k]]])
           w == FlattenSeq([k \in DOMAIN from |-> Meaning(Plainly(ps, input, from[k]))])
           plainly == Plainly(ps, input, m)
<1>1. Derive(ps, s, m) = IF ~ (Sources(p) \subseteq DOMAIN s.out) THEN s
                         ELSE IF Override(p) THEN Put(s, m, EvalTemplate(t, v), t)
                         ELSE PutMissing(s, m, EvalTemplate(t, v), t)
  BY Zenon DEF Derive
<1>2. Sources(p) = {from[k] : k \in DOMAIN from}
  BY DEF Sources, Range
<1>3. \A y \in Sources(p) : y \notin DerivedNames(ps)
  BY DEF Accepts
<1>4. \A y \in Sources(p) : /\ y \in DOMAIN s.out <=> Plainly(ps, input, y) # <<>>
                            /\ Plainly(ps, input, y) # <<>> => s.out[y] = Meaning(Plainly(ps, input, y))
  BY <1>3, DerivedHas
<1>5. FromSources(ps, input, m) =
        IF \E y \in Sources(p) : Plainly(ps, input, y) = <<>> THEN <<>> ELSE <<t, w>>
  BY DEF FromSources, Sources
<1>6. DOMAIN d = U /\ DOMAIN e = U
      /\ \A x \in U :
           /\ d[x] = Deriving(ps, x, Plainly(ps, input, x), By(n, x, FromSources(ps, input, x)))
           /\ e[x] = Deriving(ps, x, Plainly(ps, input, x), By(m, x, FromSources(ps, input, x)))
  BY DEF DerivedUpto
<1>7. m \in U
  BY NamesAre
<1>8. \A x : x # m => By(m, x, FromSources(ps, input, x)) = By(n, x, FromSources(ps, input, x))
  BY ByNext
<1>9. By(n, m, FromSources(ps, input, m)) = <<>>
      /\ By(m, m, FromSources(ps, input, m)) = FromSources(ps, input, m)
  BY ByNext
<1>10. s = StateOf(d, early) /\ WithDerived(ps, input, m) = StateOf(e, early)
  BY DEF WithDerived
<1>11. IsEarly(m, d, early)
  <2>1. d[m] = plainly
    BY <1>6, <1>7, <1>9 DEF Deriving, OrElse
  <2>2. early = Late(AllPlain(ps, input)) /\ DOMAIN AllPlain(ps, input) = U
        /\ AllPlain(ps, input)[m] = plainly
    BY <1>7 DEF Early, AllPlain
  <2> HIDE DEF d, early, plainly, U
  <2> QED BY <1>7, <2>1, <2>2 DEF Late, IsEarly
<1> HIDE DEF m, U, early, d, e, s, p, t, from, v, w
<1>12. DiffersAt(e, d, m)
  BY <1>6, <1>7, <1>8 DEF DiffersAt
<1>13. d[m] = Deriving(ps, m, plainly, <<>>)
       /\ e[m] = Deriving(ps, m, plainly, FromSources(ps, input, m))
  BY <1>6, <1>7, <1>9
<1> HIDE DEF plainly
<1>14. CASE ~ (Sources(p) \subseteq DOMAIN s.out)
  <2>1. FromSources(ps, input, m) = <<>>
    BY <1>4, <1>5, <1>14
  <2>2. \A x \in U : e[x] = d[x]
    BY <1>12, <1>13, <2>1, <1>6 DEF DiffersAt
  <2>3. StateOf(e, early) = StateOf(d, early)
    BY <1>6, <2>2, SameState
  <2> QED BY <1>1, <1>10, <1>14, <2>3 DEF m, s
<1>15. CASE Sources(p) \subseteq DOMAIN s.out
  <2>1. FromSources(ps, input, m) = <<t, w>>
    BY <1>4, <1>5, <1>15
  <2>2. v = w
    <3>1. \A k \in DOMAIN from : s.out[from[k]] = Meaning(Plainly(ps, input, from[k]))
      BY <1>2, <1>4, <1>15
    <3> QED BY <3>1 DEF v, w
  <2>3. <<t, w>> # <<>>
    BY PairIs
  <2>4. CASE Override(p)
    <3>1. e[m] = <<t, w>>
      BY <1>13, <2>1, <2>3, <2>4 DEF Deriving, p
    <3>2. Put(StateOf(d, early), m, EvalTemplate(t, w), t) = StateOf(e, early)
      BY <1>11, <1>12, <3>1, PutKeeps
    <3> QED BY <1>1, <1>10, <1>15, <2>2, <2>4, <3>2 DEF m, s
  <2>5. CASE ~ Override(p)
    <3>1. e[m] = OrElse(plainly, <<t, w>>) /\ d[m] = OrElse(plainly, <<>>)
      BY <1>13, <2>1, <2>5 DEF Deriving, p
    <3>2. e[m] = OrElse(d[m], <<t, w>>)
      BY <3>1 DEF OrElse
    <3>3. PutMissing(StateOf(d, early), m, EvalTemplate(t, w), t) = StateOf(e, early)
      BY <1>12, <3>2, FillKeeps
    <3> QED BY <1>1, <1>10, <1>15, <2>2, <2>5, <3>3 DEF m, s
  <2> QED BY <2>4, <2>5
<1> QED BY <1>14, <1>15

\* A name that is not derived.
LEMMA DeriveSkip ==
  ASSUME NEW ps, NEW input, NEW n \in Nat, n + 1 \notin DerivedNames(ps)
  PROVE  WithDerived(ps, input, n + 1) = WithDerived(ps, input, n)
<1>1. FromSources(ps, input, n + 1) = <<>>
  BY DEF FromSources
<1>2. ASSUME NEW x PROVE By(n + 1, x, FromSources(ps, input, x)) = By(n, x, FromSources(ps, input, x))
  BY <1>1, ByNext, ByNone
<1> QED BY <1>2 DEF WithDerived, DerivedUpto

\* The third loop has derived every name at its end.
LEMMA DerivedAre ==
  ASSUME NEW ps, NEW input, HasNames(ps), Accepts(ps)
  PROVE  \E n \in Nat : /\ \A x \in DerivedNames(ps) : x <= n
                        /\ TheDerived(ps, WithDerived(ps, input, 0)) = WithDerived(ps, input, n)
<1> DEFINE D == DerivedNames(ps)
           first == WithDerived(ps, input, 0)
           g == [n \in Nat |-> WithDerived(ps, input, n)]
           P(h) == h = [n \in Nat |-> IF n = 0 THEN first
                                      ELSE IF n \in D THEN Derive(ps, h[n - 1], n) ELSE h[n - 1]]
           f == CHOOSE h : P(h)
<1>1. TheDerived(ps, first) = IF D = {} THEN first ELSE f[Max(D)]
  BY Zenon DEF TheDerived, InNameOrder
<1>2. ASSUME NEW n \in Nat
      PROVE  WithDerived(ps, input, n + 1)
               = IF n + 1 \in D THEN Derive(ps, WithDerived(ps, input, n), n + 1) ELSE WithDerived(ps, input, n)
  BY DeriveStep, DeriveSkip
<1>3. \A n \in Nat : g[n] = WithDerived(ps, input, n)
  OBVIOUS
<1>4. P(g)
  <2>1. ASSUME NEW n \in Nat
        PROVE  g[n] = IF n = 0 THEN first
                      ELSE IF n \in D THEN Derive(ps, g[n - 1], n) ELSE g[n - 1]
    <3>1. CASE n = 0
      BY <1>3, <3>1
    <3>2. CASE n # 0
      <4>1. n - 1 \in Nat /\ (n - 1) + 1 = n
        BY <3>2
      <4> HIDE DEF g, D
      <4> QED BY <1>2, <1>3, <3>2, <4>1
    <3> QED BY <3>1, <3>2
  <2> QED BY <2>1
<1>5. P(f)
  <2> HIDE DEF P
  <2> QED BY <1>4
<1>6. \A n \in Nat : f[n] = IF n = 0 THEN first
                            ELSE IF n \in D THEN Derive(ps, f[n - 1], n) ELSE f[n - 1]
  <2> HIDE DEF f
  <2> QED BY <1>5
<1> HIDE DEF f, g, P
<1>7. \A n \in Nat : f[n] = g[n]
  <2>1. f[0] = g[0]
    BY <1>3, <1>6
  <2>2. ASSUME NEW n \in Nat, f[n] = g[n] PROVE f[n + 1] = g[n + 1]
    <3>1. n + 1 \in Nat /\ n + 1 # 0 /\ (n + 1) - 1 = n
      OBVIOUS
    <3> HIDE DEF D
    <3> QED BY <1>2, <1>3, <1>6, <2>2, <3>1
  <2> QED BY <2>1, <2>2, SameRecursion
<1>8. CASE D = {}
  BY <1>1, <1>8
<1>9. CASE D # {}
  <2>1. IsFiniteSet(D) /\ D \subseteq Nat
    BY NamesAre, SomeNamesAre
  <2>2. Max(D) \in D /\ (\A x \in D : x <= Max(D)) /\ Max(D) \in Nat
    BY <1>9, <2>1, MaxIs
  <2> HIDE DEF D
  <2> QED BY <1>1, <1>3, <1>7, <1>9, <2>2 DEF D
<1> QED BY <1>8, <1>9

-----------------------------------------------------------------------------
\* The fourth loop.
TheLast(ps, first) ==
  InNameOrder(LAMBDA st, n : FillLast(ps, st, n), first, SecondaryNames(ps))

\* What the first three loops decide.
Derivable(ps, input, x) == Deriving(ps, x, Plainly(ps, input, x), FromSources(ps, input, x))

\* What decides each name when the fourth loop has come to n.
LastUpto(ps, input, n) ==
  [x \in Mentioned(ps, input) |->
     OrElse(Derivable(ps, input, x), By(n, x, FromLast(ps, x)))]

\* The state of the fourth loop after n.
WithLast(ps, input, n) == StateOf(LastUpto(ps, input, n), Early(ps, input))

\* The fourth loop fills a derived name only if it has no value yet.
LEMMA LastStep ==
  ASSUME NEW ps, NEW input, HasNames(ps), NEW n \in Nat, n + 1 \in SecondaryNames(ps)
  PROVE  WithLast(ps, input, n + 1) = FillLast(ps, WithLast(ps, input, n), n + 1)
<1> DEFINE m == n + 1
           U == Mentioned(ps, input)
           early == Early(ps, input)
           d == LastUpto(ps, input, n)
           e == LastUpto(ps, input, m)
           t == SecondaryValue(ps, m)
           v == <<"%v">>
<1>1. m \in U
  BY NamesAre
<1>2. DOMAIN d = U /\ DOMAIN e = U
      /\ \A x \in U : /\ d[x] = OrElse(Derivable(ps, input, x), By(n, x, FromLast(ps, x)))
                      /\ e[x] = OrElse(Derivable(ps, input, x), By(m, x, FromLast(ps, x)))
  BY DEF LastUpto
<1>3. FromLast(ps, m) = <<t, v>>
  BY DEF FromLast
<1> HIDE DEF d, e, U, t, v, early
<1>4. \A x \in U : x # m => e[x] = d[x]
  BY <1>2, ByNext
<1>5. e[m] = OrElse(Derivable(ps, input, m), <<t, v>>) /\ d[m] = OrElse(Derivable(ps, input, m), <<>>)
  BY <1>1, <1>2, <1>3, ByNext
<1>6. e[m] = OrElse(d[m], <<t, v>>)
  BY <1>5 DEF OrElse
<1>7. DiffersAt(e, d, m)
  BY <1>1, <1>2, <1>4 DEF DiffersAt
<1>8. FillLast(ps, StateOf(d, early), m) = PutMissing(StateOf(d, early), m, EvalTemplate(t, v), t)
  BY Zenon DEF FillLast, t, v
<1> HIDE DEF m
<1>9. PutMissing(StateOf(d, early), m, EvalTemplate(t, v), t) = StateOf(e, early)
  BY <1>6, <1>7, FillKeeps
<1> QED BY <1>8, <1>9 DEF WithLast, d, e, m, early

\* A name without such a default.
LEMMA LastSkip ==
  ASSUME NEW ps, NEW input, NEW n \in Nat, n + 1 \notin SecondaryNames(ps)
  PROVE  WithLast(ps, input, n + 1) = WithLast(ps, input, n)
<1>1. FromLast(ps, n + 1) = <<>>
  BY DEF FromLast
<1>2. ASSUME NEW x PROVE By(n + 1, x, FromLast(ps, x)) = By(n, x, FromLast(ps, x))
  BY <1>1, ByNext, ByNone
<1> QED BY <1>2 DEF WithLast, LastUpto

\* The fourth loop has filled every name at its end.
LEMMA LastAre ==
  ASSUME NEW ps, NEW input, HasNames(ps)
  PROVE  \E n \in Nat : /\ \A x \in SecondaryNames(ps) : x <= n
                        /\ TheLast(ps, WithLast(ps, input, 0)) = WithLast(ps, input, n)
<1> DEFINE D == SecondaryNames(ps)
           first == WithLast(ps, input, 0)
           g == [n \in Nat |-> WithLast(ps, input, n)]
           P(h) == h = [n \in Nat |-> IF n = 0 THEN first
                                      ELSE IF n \in D THEN FillLast(ps, h[n - 1], n) ELSE h[n - 1]]
           f == CHOOSE h : P(h)
<1>1. TheLast(ps, first) = IF D = {} THEN first ELSE f[Max(D)]
  BY Zenon DEF TheLast, InNameOrder
<1>2. ASSUME NEW n \in Nat
      PROVE  WithLast(ps, input, n + 1)
               = IF n + 1 \in D THEN FillLast(ps, WithLast(ps, input, n), n + 1) ELSE WithLast(ps, input, n)
  BY LastStep, LastSkip
<1>3. \A n \in Nat : g[n] = WithLast(ps, input, n)
  OBVIOUS
<1>4. P(g)
  <2>1. ASSUME NEW n \in Nat
        PROVE  g[n] = IF n = 0 THEN first
                      ELSE IF n \in D THEN FillLast(ps, g[n - 1], n) ELSE g[n - 1]
    <3>1. CASE n = 0
      BY <1>3, <3>1
    <3>2. CASE n # 0
      <4>1. n - 1 \in Nat /\ (n - 1) + 1 = n
        BY <3>2
      <4> HIDE DEF g, D
      <4> QED BY <1>2, <1>3, <3>2, <4>1
    <3> QED BY <3>1, <3>2
  <2> QED BY <2>1
<1>5. P(f)
  <2> HIDE DEF P
  <2> QED BY <1>4
<1>6. \A n \in Nat : f[n] = IF n = 0 THEN first
                            ELSE IF n \in D THEN FillLast(ps, f[n - 1], n) ELSE f[n - 1]
  <2> HIDE DEF f
  <2> QED BY <1>5
<1> HIDE DEF f, g, P
<1>7. \A n \in Nat : f[n] = g[n]
  <2>1. f[0] = g[0]
    BY <1>3, <1>6
  <2>2. ASSUME NEW n \in Nat, f[n] = g[n] PROVE f[n + 1] = g[n + 1]
    <3>1. n + 1 \in Nat /\ n + 1 # 0 /\ (n + 1) - 1 = n
      OBVIOUS
    <3> HIDE DEF D
    <3> QED BY <1>2, <1>3, <1>6, <2>2, <3>1
  <2> QED BY <2>1, <2>2, SameRecursion
<1>8. CASE D = {}
  BY <1>1, <1>8
<1>9. CASE D # {}
  <2>1. IsFiniteSet(D) /\ D \subseteq Nat
    BY NamesAre, SomeNamesAre
  <2>2. Max(D) \in D /\ (\A x \in D : x <= Max(D)) /\ Max(D) \in Nat
    BY <1>9, <2>1, MaxIs
  <2> HIDE DEF D
  <2> QED BY <1>1, <1>3, <1>7, <1>9, <2>2 DEF D
<1> QED BY <1>8, <1>9

-----------------------------------------------------------------------------
\* All four.
AllDecided(ps, input) == [x \in Mentioned(ps, input) |-> Decided(ps, input, x)]

\* The end of the first loop is the beginning of the second.
LEMMA RequestToDefaults ==
  ASSUME NEW ps, NEW input, HasNames(ps), NEW n \in Nat, DOMAIN input \subseteq Nat,
         \A x \in DOMAIN input : x <= n
  PROVE  WithRequest(ps, input, n) = WithDefaults(ps, input, 0)
<1> DEFINE d == Brought(ps, input, n)
           e == DefaultedUpto(ps, input, 0)
           U == Mentioned(ps, input)
<1>1. ASSUME NEW x \in U PROVE e[x] = d[x]
  <2>1. BringingUpto(ps, input, n, x) = Bringing(ps, input, x)
    BY DEF BringingUpto, Bringing
  <2>2. FromRequest(ps, input, x) = BroughtUpto(ps, input, n, x)
    <3>1. BroughtUpto(ps, input, n, x) =
            IF Bringing(ps, input, x) = {} \/ IsSilenced(ps, x) THEN <<>>
            ELSE <<TemplateOf(ps, x), input[LatestOf(Bringing(ps, input, x))]>>
      BY <2>1 DEF BroughtUpto
    <3>2. FromRequest(ps, input, x) =
            IF Bringing(ps, input, x) = {} \/ IsSilenced(ps, x) THEN <<>>
            ELSE <<TemplateOf(ps, x), input[LatestOf(Bringing(ps, input, x))]>>
      <4> DEFINE w == input[LatestOf(Bringing(ps, input, x))]
                 p == Parameter(ps, x)
                 q == IF Override(p) THEN p.valueOverride[1] ELSE p.valueTranslator[1]
                 own == Configured(ps, x) /\ HasTranslator(p)
                 none == Bringing(ps, input, x) = {} \/ IsSilenced(ps, x)
      <4>1. FromRequest(ps, input, x) =
              IF none THEN <<>> ELSE IF own THEN <<q, w>> ELSE <<AsIs, w>>
        BY Zenon DEF FromRequest, LatestOf
      <4>2. TemplateOf(ps, x) = IF own THEN q ELSE AsIs
        BY Zenon DEF TemplateOf
      <4> HIDE DEF w, q, own, none
      <4>3. <<TemplateOf(ps, x), w>> = IF own THEN <<q, w>> ELSE <<AsIs, w>>
        BY <4>2
      <4> QED BY <4>1, <4>3 DEF w, none
    <3> QED BY <3>1, <3>2
  <2>3. FromDefault(ps, x) # <<>> => x \in Nat \ {0}
    BY NamesAre DEF FromDefault
  <2>4. By(0, x, FromDefault(ps, x)) = <<>>
    BY <2>3, ByZero
  <2> QED BY <2>2, <2>4 DEF DefaultedUpto, Brought, OrElse
<1>2. DOMAIN d = U /\ DOMAIN e = U
  BY DEF DefaultedUpto, Brought
<1>3. WithDefaults(ps, input, 0) = Deciding(e, {} \union Late(e)) /\ WithRequest(ps, input, n) = Deciding(d, Late(d))
  BY DEF WithDefaults, StateOf, WithRequest
<1> HIDE DEF d, e, U
<1>4. {} \union Late(e) = Late(e)
  OBVIOUS
<1>5. Deciding(e, Late(d)) = Deciding(d, Late(d)) /\ Late(e) = Late(d)
  BY <1>1, <1>2, SameDeciding
<1> QED BY <1>3, <1>4, <1>5

\* The end of the second loop is the beginning of the third.
LEMMA DefaultsToDerived ==
  ASSUME NEW ps, NEW input, HasNames(ps), NEW n \in Nat, \A x \in PrimaryNames(ps) : x <= n
  PROVE  WithDefaults(ps, input, n) = WithDerived(ps, input, 0)
<1> DEFINE c == AllPlain(ps, input)
           d == DefaultedUpto(ps, input, n)
           e == DerivedUpto(ps, input, 0)
           U == Mentioned(ps, input)
<1>1. ASSUME NEW x \in U PROVE d[x] = c[x] /\ e[x] = c[x]
  <2>1. FromDefault(ps, x) # <<>> => x \in Nat /\ x <= n
    BY NamesAre DEF FromDefault
  <2>2. By(n, x, FromDefault(ps, x)) = FromDefault(ps, x)
    BY <2>1, ByAll
  <2>3. FromSources(ps, input, x) # <<>> => x \in Nat \ {0}
    BY NamesAre DEF FromSources
  <2>4. By(0, x, FromSources(ps, input, x)) = <<>>
    BY <2>3, ByZero
  <2>5. d[x] = Plainly(ps, input, x) /\ c[x] = Plainly(ps, input, x)
    BY <2>2 DEF DefaultedUpto, AllPlain, Plainly
  <2>6. e[x] = Plainly(ps, input, x)
    BY <2>4 DEF DerivedUpto, Deriving, OrElse
  <2> QED BY <2>5, <2>6
<1>2. DOMAIN c = U /\ DOMAIN d = U /\ DOMAIN e = U
  BY DEF DefaultedUpto, DerivedUpto, AllPlain
<1>3. /\ WithDefaults(ps, input, n) = Deciding(d, {} \union Late(d))
      /\ WithDerived(ps, input, 0) = Deciding(e, Late(c) \union Late(e))
  BY DEF WithDefaults, StateOf, WithDerived, Early
<1> HIDE DEF c, d, e, U
<1>4. Deciding(d, Late(c)) = Deciding(c, Late(c)) /\ Late(d) = Late(c)
  BY <1>1, <1>2, SameDeciding
<1>5. Deciding(e, Late(c)) = Deciding(c, Late(c)) /\ Late(e) = Late(c)
  BY <1>1, <1>2, SameDeciding
<1>6. {} \union Late(d) = Late(c) /\ Late(c) \union Late(e) = Late(c)
  BY <1>4, <1>5
<1> QED BY <1>3, <1>4, <1>5, <1>6

\* The end of the third loop is the beginning of the fourth.
LEMMA DerivedToLast ==
  ASSUME NEW ps, NEW input, HasNames(ps), NEW n \in Nat, \A x \in DerivedNames(ps) : x <= n
  PROVE  WithDerived(ps, input, n) = WithLast(ps, input, 0)
<1> DEFINE d == DerivedUpto(ps, input, n)
           e == LastUpto(ps, input, 0)
           U == Mentioned(ps, input)
<1>1. ASSUME NEW x \in U PROVE e[x] = d[x]
  <2>1. FromSources(ps, input, x) # <<>> => x \in Nat /\ x <= n
    BY NamesAre DEF FromSources
  <2>2. By(n, x, FromSources(ps, input, x)) = FromSources(ps, input, x)
    BY <2>1, ByAll
  <2>3. FromLast(ps, x) # <<>> => x \in Nat \ {0}
    BY NamesAre DEF FromLast
  <2>4. By(0, x, FromLast(ps, x)) = <<>>
    BY <2>3, ByZero
  <2>5. d[x] = Derivable(ps, input, x)
    BY <2>2 DEF DerivedUpto, Derivable
  <2>6. e[x] = Derivable(ps, input, x)
    BY <2>4 DEF LastUpto, OrElse
  <2> QED BY <2>5, <2>6
<1>2. DOMAIN d = U /\ DOMAIN e = U
  BY DEF DerivedUpto, LastUpto
<1> HIDE DEF d, e, U
<1>3. StateOf(e, Early(ps, input)) = StateOf(d, Early(ps, input))
  BY <1>1, <1>2, SameState
<1> QED BY <1>3 DEF WithDerived, WithLast, d, e

\* The end of the fourth loop is what the rule says.
LEMMA LastToDecided ==
  ASSUME NEW ps, NEW input, HasNames(ps), NEW n \in Nat, \A x \in SecondaryNames(ps) : x <= n
  PROVE  WithLast(ps, input, n) = StateOf(AllDecided(ps, input), Early(ps, input))
<1> DEFINE d == LastUpto(ps, input, n)
           e == AllDecided(ps, input)
           U == Mentioned(ps, input)
<1>1. ASSUME NEW x \in U PROVE d[x] = e[x]
  <2>1. FromLast(ps, x) # <<>> => x \in Nat /\ x <= n
    BY NamesAre DEF FromLast
  <2>2. By(n, x, FromLast(ps, x)) = FromLast(ps, x)
    BY <2>1, ByAll
  <2>3. d[x] = OrElse(Derivable(ps, input, x), FromLast(ps, x)) /\ e[x] = Decided(ps, input, x)
    BY <2>2 DEF LastUpto, AllDecided
  <2>4. Decided(ps, input, x) = OrElse(Derivable(ps, input, x), FromLast(ps, x))
    BY DEF Decided, Derivable, Deriving, OrElse
  <2> QED BY <2>3, <2>4
<1>2. DOMAIN d = U /\ DOMAIN e = U
  BY DEF LastUpto, AllDecided
<1> HIDE DEF d, e, U
<1>3. StateOf(d, Early(ps, input)) = StateOf(e, Early(ps, input))
  BY <1>1, <1>2, SameState
<1> QED BY <1>3 DEF WithLast, d, e

\* The four loops come to what the rule for one name says of every name.
LEMMA TranslatedIs ==
  ASSUME NEW ps, NEW input, HasNames(ps), Accepts(ps),
         DOMAIN input \subseteq Nat \ {0}, IsFiniteSet(DOMAIN input),
         \A n \in DOMAIN input : input[n] \in Seq(STRING)
  PROVE  Translated(ps, input) = StateOf(AllDecided(ps, input), Early(ps, input))
<1>1. Translated(ps, input) = TheLast(ps, TheDerived(ps, TheDefaults(ps, TheRequest(ps, input))))
  BY Zenon DEF Translated, TheLast, TheDerived, TheDefaults, TheRequest
<1>2. PICK j \in Nat : (\A x \in DOMAIN input : x <= j) /\ TheRequest(ps, input) = WithRequest(ps, input, j)
  BY RequestIs
<1>3. TheRequest(ps, input) = WithDefaults(ps, input, 0)
  BY <1>2, RequestToDefaults
<1>4. PICK k \in Nat : /\ \A x \in PrimaryNames(ps) : x <= k
                       /\ TheDefaults(ps, WithDefaults(ps, input, 0)) = WithDefaults(ps, input, k)
  BY DefaultsAre
<1>5. TheDefaults(ps, WithDefaults(ps, input, 0)) = WithDerived(ps, input, 0)
  BY <1>4, DefaultsToDerived
<1>6. PICK l \in Nat : /\ \A x \in DerivedNames(ps) : x <= l
                       /\ TheDerived(ps, WithDerived(ps, input, 0)) = WithDerived(ps, input, l)
  BY DerivedAre
<1>7. TheDerived(ps, WithDerived(ps, input, 0)) = WithLast(ps, input, 0)
  BY <1>6, DerivedToLast
<1>8. PICK m \in Nat : /\ \A x \in SecondaryNames(ps) : x <= m
                       /\ TheLast(ps, WithLast(ps, input, 0)) = WithLast(ps, input, m)
  BY LastAre
<1>9. TheLast(ps, WithLast(ps, input, 0)) = StateOf(AllDecided(ps, input), Early(ps, input))
  BY <1>8, LastToDecided
<1> QED BY <1>1, <1>3, <1>5, <1>7, <1>9

-----------------------------------------------------------------------------
\* The loops together: the names that have a value, and the names of the delayed ones.
TranslationIs(ps, input, out, late) ==
  /\ out = [n \in DOMAIN out |-> out[n]]
  /\ DOMAIN out = {n \in Mentioned(ps, input) : Decided(ps, input, n) # <<>>}
  /\ \A n \in DOMAIN out : out[n] = Meaning(Decided(ps, input, n))
  /\ late \subseteq DOMAIN out
  /\ \A n \in DOMAIN out : IsDelayed(Decided(ps, input, n)[1]) => n \in late
  /\ \A n \in late : IsDelayed(Decided(ps, input, n)[1]) \/ Outdated(ps, input, n)

\* What a request and its second call may rely on.
LEMMA TranslatedHas ==
  ASSUME NEW ps \in Translations, Accepts(ps), NEW input \in Inputs
  PROVE  TranslationIs(ps, input, Translated(ps, input).out, Translated(ps, input).delayed)
<1> DEFINE d == AllDecided(ps, input)
           U == Mentioned(ps, input)
           late == Early(ps, input) \union Late(d)
           D(n) == Decided(ps, input, n)
           F(n) == Plainly(ps, input, n)
<1>1. /\ HasNames(ps) /\ DOMAIN input \subseteq Nat \ {0} /\ IsFiniteSet(DOMAIN input)
      /\ \A n \in DOMAIN input : input[n] \in Seq(STRING)
  BY TranslatorAssumption DEF HasNames
<1>2. Translated(ps, input) = StateOf(d, Early(ps, input))
  BY <1>1, TranslatedIs
<1>3. Translated(ps, input) = Deciding(d, late)
  BY <1>2 DEF StateOf
<1>4. DOMAIN d = U /\ \A n \in U : d[n] = D(n)
  BY DEF AllDecided
<1>5. Early(ps, input) = {n \in U : F(n) # <<>> /\ IsDelayed(F(n)[1])}
  BY DEF Early, Late, AllPlain
<1>6. \A n : F(n) # <<>> => D(n) # <<>>
  BY DEF Decided, OrElse
<1>7. Late(d) = {n \in U : D(n) # <<>> /\ IsDelayed(D(n)[1])}
  BY <1>4 DEF Late
<1>8. \A n \in Early(ps, input) : IsDelayed(D(n)[1]) \/ Outdated(ps, input, n)
  BY <1>5 DEF Outdated
<1> HIDE DEF d, U, D, F
<1>9. \A n \in late : IsDelayed(D(n)[1]) \/ Outdated(ps, input, n)
  BY <1>7, <1>8
<1>10. late \subseteq {n \in U : D(n) # <<>>}
  BY <1>5, <1>6, <1>7
<1>11. \A n \in U : D(n) # <<>> /\ IsDelayed(D(n)[1]) => n \in late
  BY <1>7
<1> HIDE DEF late
<1>12. /\ DOMAIN Deciding(d, late).out = {x \in DOMAIN d : d[x] # <<>>}
       /\ \A x \in DOMAIN d : d[x] # <<>> => Deciding(d, late).out[x] = Meaning(d[x])
       /\ Deciding(d, late).delayed = late
  BY DecidingHas
<1>13. DOMAIN Deciding(d, late).out = {n \in U : D(n) # <<>>}
  BY <1>4, <1>12
<1>14. \A n \in DOMAIN Deciding(d, late).out : Deciding(d, late).out[n] = Meaning(D(n))
  BY <1>4, <1>12
<1>16. Deciding(d, late).out = [n \in DOMAIN Deciding(d, late).out |-> Deciding(d, late).out[n]]
  BY DEF Deciding
<1> HIDE DEF Deciding
<1>15. TranslationIs(ps, input, Deciding(d, late).out, late)
  BY <1>9, <1>10, <1>11, <1>13, <1>14, <1>16 DEF TranslationIs, D, U
<1> QED BY <1>3, <1>12, <1>15

-----------------------------------------------------------------------------
\* The values that the second call of c puts down.
WithData(c, out, late) == [n \in DOMAIN out \union late |-> IF n \in late THEN <<c>> ELSE out[n]]

\* A request as the translator sees it: what it has put down so far, and what is
\* left, unless another has come in between.
AskedIs(c, a, ps, late) ==
  LET state == Translated(ps, a.input)
  IN  /\ a.stage \in {"new", "translating", "translated", "filling", "done", "failed"}
      /\ a.stage \in Busy \union {"done"} => a.input \in Inputs
      /\ a.stage \in {"translating", "translated"} => a.out = state.out /\ a.filled = {}
      /\ a.stage = "translating" /\ ~ a.crossed =>
           late \union a.puts = state.delayed /\ late \cap a.erases = {}
      /\ a.stage \in {"translated", "filling"} /\ ~ a.crossed => late = state.delayed
      /\ a.stage = "filling" /\ ~ a.crossed =>
           a.filled \subseteq late /\ a.out = WithData(c, state.out, a.filled)
      /\ a.stage = "done" /\ ~ a.crossed => a.out = WithData(c, state.out, state.delayed)

\* A record with the fields of a request.
IsEntry(a) ==
  a \in [stage : {a.stage}, input : {a.input}, out : {a.out}, erases : {a.erases},
         puts : {a.puts}, filled : {a.filled}, crossed : {a.crossed}]

\* One request as the translator sees it.
AskedOK(c) == IsEntry(asked[c]) /\ AskedIs(c, asked[c], parameters, delayed)

\* What holds of the requests of a translator.
TranslatorInv ==
  /\ parameters \in Translations /\ Accepts(parameters)
  /\ asked = [c \in Caller |-> asked[c]]
  /\ \A c \in Caller : AskedOK(c)

\* It holds of the first state.
LEMMA TranslatorFirst == TranslatorInit => TranslatorInv
<1> SUFFICES ASSUME TranslatorInit PROVE TranslatorInv
  OBVIOUS
<1> DEFINE fresh == [stage |-> "new", input |-> <<>>, out |-> <<>>, erases |-> {},
                     puts |-> {}, filled |-> {}, crossed |-> FALSE]
<1>1. asked = [c \in Caller |-> fresh] /\ parameters \in Translations /\ Accepts(parameters)
  BY DEF TranslatorInit
<1>2. IsEntry(fresh) /\ fresh.stage = "new"
  BY DEF IsEntry
<1> HIDE DEF fresh
<1>3. ASSUME NEW c \in Caller PROVE AskedOK(c)
  <2>1. asked[c] = fresh
    BY <1>1
  <2>2. AskedIs(c, fresh, parameters, delayed)
    BY <1>2 DEF AskedIs, Busy
  <2> QED BY <1>2, <2>1, <2>2 DEF AskedOK
<1>4. asked = [c \in Caller |-> asked[c]]
  BY <1>1
<1> QED BY <1>1, <1>3, <1>4 DEF TranslatorInv

\* What the change of the shared names by c does to a request that is under way.
LEMMA OthersCross ==
  ASSUME TranslatorInv, UNCHANGED parameters, NEW d \in Caller,
         asked'[d] = [asked[d] EXCEPT !.crossed = @ \/ asked[d].stage \in Busy]
  PROVE  AskedOK(d)'
<1> DEFINE a == asked[d]
           crossing == a.crossed \/ a.stage \in Busy
           b == [a EXCEPT !.crossed = crossing]
<1>1. IsEntry(a) /\ AskedIs(d, a, parameters, delayed)
  BY DEF TranslatorInv, AskedOK
<1>0. IsEntry(a)
  BY <1>1
<1>2. asked'[d] = b
  OBVIOUS
<1> HIDE DEF crossing
<1>3. /\ b.crossed = crossing /\ b.stage = a.stage /\ b.input = a.input /\ b.out = a.out
      /\ b.erases = a.erases /\ b.puts = a.puts /\ b.filled = a.filled
      /\ IsEntry(b)
  BY <1>0 DEF b, IsEntry
<1> HIDE DEF a, b
<1>4. (b.stage \in Busy => b.crossed) /\ (~ b.crossed => ~ a.crossed)
  BY <1>3 DEF crossing
<1>5. AskedIs(d, b, parameters, delayed')
  BY <1>1, <1>3, <1>4 DEF AskedIs, Busy
<1>6. AskedIs(d, asked'[d], parameters', delayed')
  BY <1>2, <1>5
<1> QED BY <1>2, <1>3, <1>6 DEF AskedOK

\* A change of the shared names leaves the invariant to the request that made it.
LEMMA ChangeKeeps ==
  ASSUME TranslatorInv, UNCHANGED parameters, NEW c \in Caller, NEW entry, Changes(c, entry),
         IsEntry(entry), AskedIs(c, entry, parameters, delayed')
  PROVE  TranslatorInv'
<1>1. asked' = [d \in Caller |-> IF d = c THEN entry
                  ELSE [asked[d] EXCEPT !.crossed = @ \/ asked[d].stage \in Busy]]
  BY DEF Changes
<1>2. asked'[c] = entry
  BY <1>1
<1>3. AskedOK(c)'
  BY <1>2 DEF AskedOK
<1>4. ASSUME NEW d \in Caller, d # c PROVE AskedOK(d)'
  <2>1. asked'[d] = [asked[d] EXCEPT !.crossed = @ \/ asked[d].stage \in Busy]
    BY <1>1, <1>4
  <2> QED BY <2>1, OthersCross
<1>5. asked' = [d \in Caller |-> asked'[d]]
  BY <1>1
<1>6. \A d \in Caller : AskedOK(d)'
  BY <1>3, <1>4
<1> QED BY <1>5, <1>6 DEF TranslatorInv

\* A step of c alone.
LEMMA OwnStepKeeps ==
  ASSUME TranslatorInv, UNCHANGED <<parameters, delayed>>, NEW c \in Caller, NEW entry,
         asked' = [asked EXCEPT ![c] = entry],
         IsEntry(entry), AskedIs(c, entry, parameters, delayed)
  PROVE  TranslatorInv'
<1>1. asked = [d \in Caller |-> asked[d]]
  BY DEF TranslatorInv
<1>2. asked'[c] = entry /\ asked' = [d \in Caller |-> asked'[d]]
  BY <1>1
<1>3. AskedOK(c)'
  BY <1>2 DEF AskedOK
<1>4. ASSUME NEW d \in Caller, d # c PROVE AskedOK(d)'
  <2>1. asked'[d] = asked[d]
    BY <1>1, <1>4
  <2>2. AskedOK(d)
    BY DEF TranslatorInv
  <2> QED BY <2>1, <2>2 DEF AskedOK
<1>5. \A d \in Caller : AskedOK(d)'
  BY <1>3, <1>4
<1> QED BY <1>2, <1>5 DEF TranslatorInv

\* A first call that begins empties what is shared: all others that are under way are
\* crossed.
LEMMA TranslateKeeps ==
  ASSUME TranslatorInv, NEW c \in Caller, Translate(c)
  PROVE  TranslatorInv'
<1>1. PICK input \in Inputs :
        LET state == Translated(parameters, input)
        IN  Changes(c, [stage |-> "translating", input |-> input, out |-> state.out,
                        erases |-> Silenced(parameters, input), puts |-> state.delayed,
                        filled |-> {}, crossed |-> FALSE])
  BY DEF Translate
<1>2. delayed' = {} /\ UNCHANGED parameters
  BY DEF Translate
<1> DEFINE state == Translated(parameters, input)
           entry == [stage |-> "translating", input |-> input, out |-> state.out,
                     erases |-> Silenced(parameters, input), puts |-> state.delayed,
                     filled |-> {}, crossed |-> FALSE]
<1>3. Changes(c, entry)
  BY <1>1
<1>4. IsEntry(entry)
  BY DEF IsEntry
<1>5. /\ entry.stage = "translating" /\ entry.input = input /\ entry.filled = {}
      /\ entry.out = state.out /\ entry.puts = state.delayed
  OBVIOUS
<1> HIDE DEF entry
<1>6. AskedIs(c, entry, parameters, delayed')
  BY <1>2, <1>5 DEF AskedIs
<1> QED BY <1>2, <1>3, <1>4, <1>6, ChangeKeeps

\* The first call puts one name down: in its own parameters, or in the shared ones.
LEMMA TranslateOnKeeps ==
  ASSUME TranslatorInv, NEW c \in Caller, TranslateOn(c)
  PROVE  TranslatorInv'
<1> DEFINE a == asked[c]
<1>1. IsEntry(a) /\ AskedIs(c, a, parameters, delayed) /\ a.stage = "translating"
      /\ UNCHANGED parameters
  BY DEF TranslatorInv, AskedOK, TranslateOn
<1>0. IsEntry(a)
  BY <1>1
<1>2. ASSUME NEW n \in a.erases, Changes(c, [a EXCEPT !.erases = @ \ {n}]),
             delayed' = delayed \ {n}
      PROVE  TranslatorInv'
  <2> DEFINE e == a.erases \ {n}
             b == [a EXCEPT !.erases = e]
  <2>1. Changes(c, b)
    BY <1>2
  <2> HIDE DEF a, e
  <2>2. /\ b.erases = e /\ b.crossed = a.crossed /\ b.input = a.input /\ b.out = a.out
        /\ b.stage = a.stage /\ b.puts = a.puts /\ b.filled = a.filled
        /\ IsEntry(b)
    BY <1>0 DEF b, IsEntry
  <2> HIDE DEF b
  <2>3. e \subseteq a.erases /\ (delayed \cap a.erases = {} => delayed' = delayed)
    BY <1>2 DEF e
  <2>4. AskedIs(c, b, parameters, delayed')
    BY <1>1, <2>2, <2>3 DEF AskedIs
  <2> QED BY <1>1, <2>1, <2>2, <2>4, ChangeKeeps
<1>3. ASSUME NEW n \in a.puts \ a.erases, Changes(c, [a EXCEPT !.puts = @ \ {n}]),
             delayed' = delayed \union {n}
      PROVE  TranslatorInv'
  <2> DEFINE e == a.puts \ {n}
             b == [a EXCEPT !.puts = e]
  <2>1. Changes(c, b)
    BY <1>3
  <2> HIDE DEF a, e
  <2>2. /\ b.puts = e /\ b.crossed = a.crossed /\ b.input = a.input /\ b.out = a.out
        /\ b.stage = a.stage /\ b.erases = a.erases /\ b.filled = a.filled
        /\ IsEntry(b)
    BY <1>0 DEF b, IsEntry
  <2> HIDE DEF b
  <2>3. delayed' \union e = delayed \union a.puts
        /\ (delayed \cap a.erases = {} => delayed' \cap a.erases = {})
    BY <1>3 DEF e
  <2>4. AskedIs(c, b, parameters, delayed')
    BY <1>1, <2>2, <2>3 DEF AskedIs
  <2> QED BY <1>1, <2>1, <2>2, <2>4, ChangeKeeps
<1> QED BY <1>2, <1>3 DEF TranslateOn

\* The first call ends with what it has put down and what is left.
LEMMA TranslateEndsKeeps ==
  ASSUME TranslatorInv, NEW c \in Caller, TranslateEnds(c)
  PROVE  TranslatorInv'
<1> DEFINE a == asked[c]
           b == [a EXCEPT !.stage = "translated"]
<1>1. IsEntry(a) /\ AskedIs(c, a, parameters, delayed) /\ a.stage = "translating"
      /\ a.puts = {} /\ UNCHANGED <<parameters, delayed>>
  BY DEF TranslatorInv, AskedOK, TranslateEnds
<1>0. IsEntry(a)
  BY <1>1
<1>2. asked' = [asked EXCEPT ![c] = b]
  BY DEF TranslateEnds
<1> HIDE DEF a
<1>3. /\ b.stage = "translated" /\ b.crossed = a.crossed /\ b.input = a.input
      /\ b.out = a.out /\ b.filled = a.filled /\ IsEntry(b)
  BY <1>0 DEF b, IsEntry
<1> HIDE DEF b
<1>4. AskedIs(c, b, parameters, delayed)
  BY <1>1, <1>3 DEF AskedIs, Busy
<1> QED BY <1>1, <1>2, <1>3, <1>4, OwnStepKeeps

\* So does a first call that throws.
LEMMA TranslateFailsKeeps ==
  ASSUME TranslatorInv, NEW c \in Caller, TranslateFails(c)
  PROVE  TranslatorInv'
<1> DEFINE a == asked[c]
           b == [a EXCEPT !.stage = "failed"]
<1>1. IsEntry(a) /\ UNCHANGED <<parameters, delayed>>
  BY DEF TranslatorInv, AskedOK, TranslateFails
<1>0. IsEntry(a)
  BY <1>1
<1>2. asked' = [asked EXCEPT ![c] = b]
  BY DEF TranslateFails
<1> HIDE DEF a
<1>3. b.stage = "failed" /\ IsEntry(b)
  BY <1>0 DEF b, IsEntry
<1> HIDE DEF b
<1>4. AskedIs(c, b, parameters, delayed)
  BY <1>3 DEF AskedIs, Busy
<1> QED BY <1>1, <1>2, <1>3, <1>4, OwnStepKeeps

\* The second call fills in one shared name.
LEMMA FillDelayedKeeps ==
  ASSUME TranslatorInv, NEW c \in Caller, FillDelayed(c)
  PROVE  TranslatorInv'
<1> DEFINE a == asked[c]
           state == Translated(parameters, a.input)
<1>1. /\ IsEntry(a) /\ AskedIs(c, a, parameters, delayed)
      /\ a.stage \in {"translated", "filling"} /\ UNCHANGED <<parameters, delayed>>
      /\ parameters \in Translations /\ Accepts(parameters)
  BY DEF TranslatorInv, AskedOK, FillDelayed
<1>0. IsEntry(a)
  BY <1>1
<1>2. PICK n \in delayed \ a.filled :
        asked' = [asked EXCEPT ![c].stage = "filling", ![c].filled = @ \union {n},
                    ![c].out = [m \in DOMAIN @ \union {n} |-> IF m = n THEN <<c>> ELSE @[m]]]
  BY DEF FillDelayed
<1> DEFINE more == a.filled \union {n}
           out == [m \in DOMAIN a.out \union {n} |-> IF m = n THEN <<c>> ELSE a.out[m]]
           b == [a EXCEPT !.stage = "filling", !.filled = more, !.out = out]
<1>3. asked' = [asked EXCEPT ![c] = b]
  BY <1>2
<1>4. a.input \in Inputs
  BY <1>1 DEF AskedIs, Busy
<1>5. TranslationIs(parameters, a.input, state.out, state.delayed)
  BY <1>1, <1>4, TranslatedHas
<1>6. state.out = WithData(c, state.out, {})
  BY <1>5 DEF TranslationIs, WithData
<1>7. ~ a.crossed => delayed = state.delayed /\ a.filled \subseteq delayed
                     /\ a.out = WithData(c, state.out, a.filled)
  BY <1>1, <1>6 DEF AskedIs
<1>8. ~ a.crossed => out = WithData(c, state.out, more)
  <2>1. SUFFICES ASSUME ~ a.crossed PROVE out = WithData(c, state.out, more)
    OBVIOUS
  <2>2. a.out = WithData(c, state.out, a.filled)
    BY <1>7, <2>1
  <2> HIDE DEF a, state
  <2> QED BY <2>2 DEF WithData
<1>9. more \subseteq delayed \/ ~ (a.filled \subseteq delayed)
  OBVIOUS
<1> HIDE DEF a, more, out
<1>10. /\ b.stage = "filling" /\ b.filled = more /\ b.out = out
       /\ b.crossed = a.crossed /\ b.input = a.input /\ IsEntry(b)
  BY <1>0 DEF b, IsEntry
<1> HIDE DEF b
<1>11. AskedIs(c, b, parameters, delayed)
  BY <1>4, <1>7, <1>8, <1>9, <1>10 DEF AskedIs, state
<1> QED BY <1>1, <1>3, <1>10, <1>11, OwnStepKeeps

\* The second call puts the data under the delayed names.
LEMMA TranslateDelayedKeeps ==
  ASSUME TranslatorInv, NEW c \in Caller, TranslateDelayedParameters(c)
  PROVE  TranslatorInv'
<1> DEFINE a == asked[c]
           state == Translated(parameters, a.input)
           b == [a EXCEPT !.stage = "done"]
<1>1. /\ IsEntry(a) /\ AskedIs(c, a, parameters, delayed)
      /\ a.stage \in {"translated", "filling"} /\ UNCHANGED <<parameters, delayed>>
      /\ parameters \in Translations /\ Accepts(parameters)
      /\ (delayed \subseteq a.filled \/ a.crossed)
  BY DEF TranslatorInv, AskedOK, TranslateDelayedParameters
<1>0. IsEntry(a)
  BY <1>1
<1>2. asked' = [asked EXCEPT ![c] = b]
  BY DEF TranslateDelayedParameters
<1>3. a.input \in Inputs
  BY <1>1 DEF AskedIs, Busy
<1>4. TranslationIs(parameters, a.input, state.out, state.delayed)
  BY <1>1, <1>3, TranslatedHas
<1>5. state.out = WithData(c, state.out, {})
  BY <1>4 DEF TranslationIs, WithData
<1>6. ~ a.crossed => delayed = state.delayed /\ a.filled \subseteq delayed
                     /\ a.out = WithData(c, state.out, a.filled)
  BY <1>1, <1>5 DEF AskedIs
<1>7. ~ a.crossed => a.out = WithData(c, state.out, state.delayed)
  <2>1. SUFFICES ASSUME ~ a.crossed PROVE a.out = WithData(c, state.out, state.delayed)
    OBVIOUS
  <2>2. a.filled = state.delayed
    BY <1>1, <1>6, <2>1
  <2> QED BY <1>6, <2>1, <2>2
<1> HIDE DEF a
<1>8. /\ b.stage = "done" /\ b.crossed = a.crossed /\ b.input = a.input
      /\ b.out = a.out /\ IsEntry(b)
  BY <1>0 DEF b, IsEntry
<1> HIDE DEF b
<1>9. AskedIs(c, b, parameters, delayed)
  BY <1>3, <1>7, <1>8 DEF AskedIs, state
<1> QED BY <1>1, <1>2, <1>8, <1>9, OwnStepKeeps

\* Every step of a translator keeps it.
LEMMA TranslatorKeeps ==
  ASSUME TranslatorInv, NEW c \in Caller, TranslatorStep(c)
  PROVE  TranslatorInv'
BY TranslateKeeps, TranslateOnKeeps, TranslateEndsKeeps, TranslateFailsKeeps, FillDelayedKeeps,
   TranslateDelayedKeeps DEF TranslatorStep

\* So does a step of another part.
LEMMA TranslatorKept ==
  ASSUME TranslatorInv, UNCHANGED translatorVars
  PROVE  TranslatorInv'
<1>1. parameters' = parameters /\ delayed' = delayed /\ asked' = asked
  BY DEF translatorVars
<1> QED BY <1>1 DEF TranslatorInv, AskedOK

\* It is strong enough for the promise of the translator.
LEMMA TranslatorInvIsRight == TranslatorInv => TranslationIsRight
<1> SUFFICES ASSUME TranslatorInv, NEW c \in Caller,
                    asked[c].stage = "translated" \/ (asked[c].stage = "done" /\ ~ asked[c].crossed)
             PROVE  LET in == asked[c].input
                        Due(name) == LET x == Decided(parameters, in, name)
                                     IN  IF asked[c].stage = "done" /\ IsDelayed(x[1]) THEN <<c>>
                                         ELSE Meaning(x)
                        decided == {n \in Mentioned(parameters, in) : Decided(parameters, in, n) # <<>>}
                    IN  /\ DOMAIN asked[c].out = decided
                        /\ \A n \in decided :
                             asked[c].out[n] = Due(n)
                               \/ (asked[c].stage = "done" /\ Outdated(parameters, in, n))
  BY DEF TranslationIsRight
<1> DEFINE a == asked[c]
           stage == a.stage
           in == a.input
           result == a.out
           o == Translated(parameters, in).out
           late == Translated(parameters, in).delayed
           D(n) == Decided(parameters, in, n)
           U == {n \in Mentioned(parameters, in) : D(n) # <<>>}
<1>1. in \in Inputs /\ parameters \in Translations /\ Accepts(parameters)
      /\ (stage = "translated" => result = o)
      /\ (stage = "done" => result = WithData(c, o, late))
      /\ (stage = "translated" \/ stage = "done")
  BY DEF TranslatorInv, AskedOK, AskedIs, Busy
<1>2. TranslationIs(parameters, in, o, late)
  BY <1>1, TranslatedHas
<1>3. /\ DOMAIN o = U
      /\ \A n \in DOMAIN o : o[n] = Meaning(D(n))
      /\ late \subseteq DOMAIN o
      /\ \A n \in DOMAIN o : IsDelayed(D(n)[1]) => n \in late
      /\ \A n \in late : IsDelayed(D(n)[1]) \/ Outdated(parameters, in, n)
  BY <1>2 DEF TranslationIs
<1> HIDE DEF o, late, U, D, a, stage, in, result
<1>4. ASSUME stage = "translated"
      PROVE  DOMAIN result = U /\ \A n \in U : result[n] = Meaning(D(n))
  BY <1>1, <1>3, <1>4
<1>5. ASSUME stage = "done"
      PROVE  /\ DOMAIN result = U
             /\ \A n \in U : \/ result[n] = IF IsDelayed(D(n)[1]) THEN <<c>> ELSE Meaning(D(n))
                             \/ Outdated(parameters, in, n)
  <2>1. result = [n \in DOMAIN o \union late |-> IF n \in late THEN <<c>> ELSE o[n]]
    BY <1>1, <1>5 DEF WithData
  <2>2. DOMAIN o \union late = U
    BY <1>3
  <2>3. result = [n \in U |-> IF n \in late THEN <<c>> ELSE o[n]]
    BY <2>1, <2>2
  <2>4. DOMAIN result = U /\ \A n \in U : result[n] = IF n \in late THEN <<c>> ELSE o[n]
    BY <2>3
  <2>5. ASSUME NEW n \in U
        PROVE  \/ result[n] = IF IsDelayed(D(n)[1]) THEN <<c>> ELSE Meaning(D(n))
               \/ Outdated(parameters, in, n)
    BY <1>3, <2>4
  <2> QED BY <2>4, <2>5
<1> QED BY <1>1, <1>4, <1>5 DEF U, D, a, stage, in, result

-----------------------------------------------------------------------------
\* A step that leaves the streams and all requests but one.
LEMMA OneAppends ==
  ASSUME JoinInv, AppendInv, NEW r \in Request, NEW call, Update(r, call),
         UNCHANGED <<side, content>>,
         call.stage = "append" =>
           /\ side.behavior = "append" /\ call.next - 1 \in 0 .. Len(side.joins)
           /\ call.broken \/ call.out = MainStream \o FlattenSeq(AddedUpto(call.next - 1)),
         call.stage \in {"main", "streams"} => side.behavior = "columnJoin" /\ side.joins # <<>>,
         call.stage \in {"store", "done"} /\ (side.joins = <<>> \/ side.behavior = "append") =>
           call.broken \/ call.out = MainStream \o FlattenSeq(AddedUpto(Len(side.joins)))
  PROVE  AppendInv'
<1>1. calls'[r] = call /\ \A q \in Request : q # r => calls'[q] = calls[q]
  BY DEF JoinInv, Update
<1>2. MainStream' = MainStream /\ \A n : AddedUpto(n)' = AddedUpto(n)
  BY DEF MainStream, AddedUpto
<1>3. AppendOK(r)'
  BY <1>1, <1>2 DEF AppendOK, Call
<1>4. ASSUME NEW q \in Request, q # r PROVE AppendOK(q)'
  <2>1. AppendOK(q)
    BY DEF AppendInv
  <2> QED BY <1>1, <1>2, <1>4, <2>1 DEF AppendOK, Call
<1> QED BY <1>3, <1>4 DEF AppendInv

\* It holds of the first state.
LEMMA AppendFirst == JoinInit => AppendInv
BY DEF JoinInit, AppendInv, AppendOK, Call, NewCall

\* A step of another part keeps it.
LEMMA AppendInvKept ==
  ASSUME AppendInv, UNCHANGED joinVars
  PROVE  AppendInv'
<1>1. side' = side /\ content' = content /\ calls' = calls
  BY DEF joinVars
<1>2. MainStream' = MainStream /\ \A n : AddedUpto(n)' = AddedUpto(n)
  BY <1>1 DEF MainStream, AddedUpto
<1> QED BY <1>1, <1>2 DEF AppendInv, AppendOK, Call

\* A request that fails claims nothing.
LEMMA FailAppends ==
  ASSUME JoinInv, AppendInv, NEW r \in Request, Fail(r) PROVE AppendInv'
<1> DEFINE call == [calls[r] EXCEPT !.stage = "failed"]
<1>1. Update(r, call) /\ UNCHANGED <<side, content>>
  BY DEF Fail, Call
<1>2. CallOK(calls[r])
  BY DEF JoinInv
<1>3. call.stage = "failed"
  BY <1>2 DEF CallOK, CallFields
<1> HIDE DEF call
<1> QED BY <1>1, <1>3, OneAppends

\* Without joins the answer is the main stream.
LEMMA ForwardAppends ==
  ASSUME JoinInv, AppendInv, NEW r \in Request, Forward(r) PROVE AppendInv'
<1> DEFINE to == Onward
           call == [calls[r] EXCEPT !.stage = to, !.out = MainStream]
<1>1. Update(r, call) /\ UNCHANGED <<side, content>> /\ side.joins = <<>>
  BY DEF Forward, Call, Onward
<1>2. CallOK(calls[r])
  BY DEF JoinInv
<1>3. call.stage = to /\ call.out = MainStream /\ to \notin {"append", "main", "streams"}
  BY <1>2 DEF CallOK, CallFields, Onward
<1>4. Len(side.joins) = 0
  BY <1>1
<1>5. call.out = MainStream \o FlattenSeq(AddedUpto(Len(side.joins)))
  BY <1>3, <1>4, AddedFirst
<1> HIDE DEF call, to
<1> QED BY <1>1, <1>3, <1>5, OneAppends

\* A request that begins to join has a behavior that joins.
LEMMA BeginJoinAppends ==
  ASSUME JoinInv, AppendInv, NEW r \in Request, BeginJoin(r) PROVE AppendInv'
<1> DEFINE several == Len(keys[1]) > 1
           call == [calls[r] EXCEPT !.stage = "main", !.multi = several]
<1>1. UNCHANGED <<side, content>> /\ side.joins # <<>> /\ side.behavior = "columnJoin"
      /\ Update(r, call)
  BY DEF BeginJoin, Call
<1>2. CallOK(calls[r])
  BY DEF JoinInv
<1> HIDE DEF several
<1>3. call.stage = "main"
  BY <1>2 DEF CallOK, CallFields
<1> HIDE DEF call
<1> QED BY <1>1, <1>3, OneAppends

\* Taking a key leaves what was appended.
LEMMA TakeKeyAppends ==
  ASSUME JoinInv, AppendInv, NEW r \in Request, NEW stream, NEW n, TakeKey(r, stream, n),
         calls[r].stage \in {"main", "streams"}
  PROVE  AppendInv'
<1> DEFINE taken == keys[n]
           call == [calls[r] EXCEPT !.joinKey = taken]
<1>1. UNCHANGED <<side, content>> /\ Update(r, call)
  BY DEF TakeKey, Call
<1>2. CallOK(calls[r]) /\ AppendOK(r)
  BY DEF JoinInv, AppendInv
<1> HIDE DEF taken
<1>3. call.stage \in {"main", "streams"}
  BY <1>2 DEF CallOK, CallFields
<1>4. side.joins # <<>> /\ side.behavior = "columnJoin"
  BY <1>2 DEF AppendOK, Call
<1> HIDE DEF call
<1> QED BY <1>1, <1>3, <1>4, OneAppends

\* So has one that has loaded its main stream.
LEMMA LoadMainAppends ==
  ASSUME JoinInv, AppendInv, NEW r \in Request, LoadMain(r) PROVE AppendInv'
<1> DEFINE failed == [calls[r] EXCEPT !.stage = "failed"]
<1>2. CallOK(calls[r]) /\ AppendOK(r)
  BY DEF JoinInv, AppendInv
<1>1. UNCHANGED <<side, content>> /\ side.joins # <<>> /\ side.behavior = "columnJoin"
  BY <1>2 DEF LoadMain, AppendOK, Call
<1>3. PICK main, index, header :
        \/ Update(r, failed)
        \/ Update(r, [calls[r] EXCEPT !.stage = "streams", !.joinKey = <<>>, !.main = main,
                                      !.keyIndex = index, !.outHeader = header])
  BY Zenon DEF LoadMain, Call
<1> DEFINE call == [calls[r] EXCEPT !.stage = "streams", !.joinKey = <<>>, !.main = main,
                                    !.keyIndex = index, !.outHeader = header]
<1>4. failed.stage = "failed" /\ call.stage = "streams"
  BY <1>2 DEF CallOK, CallFields
<1>5. Update(r, failed) \/ Update(r, call)
  BY <1>3
<1> HIDE DEF failed, call
<1> QED BY <1>1, <1>4, <1>5, OneAppends

\* One stream more to join is nothing to append.
LEMMA JoinStreamAppends ==
  ASSUME JoinInv, AppendInv, NEW r \in Request, JoinStream(r) PROVE AppendInv'
<1> DEFINE c == calls[r]
           n == c.next
           join == side.joins[n]
           loaded == content[join.node]
           stream == IF c.multi THEN WriteMultiKeyStream(loaded, c.joinKey) ELSE loaded
           key == IF c.multi THEN RewrittenKey(keys[n + 1]) ELSE keys[n + 1]
           header == Head(stream)
           keyIndex == KeyIndex(header, key[1])
           columns == IncludeColumns(header, join.columns, 0)
           command == [right |-> keyIndex, pairs |-> Pairs(join.type),
                       alone |-> Alone(join.type),
                       list |-> TrivialColumnList(Len(c.outHeader), c.keyIndex)
                                  \o ColumnList(header, keyIndex, columns)]
           names == AddedNames(c.outHeader, columns, key[1], join.node)
           failed == [c EXCEPT !.stage = "failed"]
<1>1. UNCHANGED <<side, content>> /\ c.stage = "streams"
  BY Zenon DEF JoinStream, Call
<1>2. CallOK(c) /\ AppendOK(r)
  BY DEF JoinInv, AppendInv
<1>3. side.behavior = "columnJoin" /\ side.joins # <<>>
  BY <1>1, <1>2, Zenon DEF AppendOK, Call
<1>4. \E cut : Update(r, failed) \/ Update(r, [c EXCEPT !.next = n + 1, !.joinKey = <<>>, !.cut = cut,
                        !.joinCommand = Append(c.joinCommand, command), !.outHeader = names])
  BY Zenon DEF JoinStream, Call
<1>6. PICK cut : Update(r, failed) \/ Update(r, [c EXCEPT !.next = n + 1, !.joinKey = <<>>, !.cut = cut,
                        !.joinCommand = Append(c.joinCommand, command), !.outHeader = names])
  BY <1>4, Zenon
<1> DEFINE call == [c EXCEPT !.next = n + 1, !.joinKey = <<>>, !.cut = cut,
                        !.joinCommand = Append(c.joinCommand, command), !.outHeader = names]
<1>7. Update(r, failed) \/ Update(r, call)
  BY <1>6
<1> HIDE DEF command, names
<1>5. failed.stage = "failed" /\ call.stage = "streams"
  BY <1>1, <1>2 DEF CallOK, CallFields
<1> HIDE DEF failed, call
<1> QED BY <1>1, <1>3, <1>5, <1>7, OneAppends

\* Neither is the result of a join.
LEMMA ExecuteJoinAppends ==
  ASSUME JoinInv, AppendInv, NEW r \in Request, ExecuteJoin(r) PROVE AppendInv'
<1> DEFINE to == Onward
<1>1. UNCHANGED <<side, content>> /\ calls[r].stage = "streams"
  BY Zenon DEF ExecuteJoin, Call
<1>2. CallOK(calls[r]) /\ AppendOK(r)
  BY DEF JoinInv, AppendInv
<1>3. side.behavior = "columnJoin" /\ side.joins # <<>>
  BY <1>1, <1>2 DEF AppendOK, Call
<1>4. PICK out, cut : Update(r, [calls[r] EXCEPT !.stage = to, !.cut = cut, !.out = out])
  BY Zenon DEF ExecuteJoin, Call, Onward
<1> DEFINE call == [calls[r] EXCEPT !.stage = to, !.cut = cut, !.out = out]
<1>5. call.stage = to /\ to \notin {"append", "main", "streams"}
  BY <1>2 DEF CallOK, CallFields, Onward
<1>6. Update(r, call)
  BY <1>4
<1> HIDE DEF call, to
<1> QED BY <1>1, <1>3, <1>5, <1>6, OneAppends, Zenon

\* The main stream comes first, and nothing is behind it yet.
LEMMA LoadMainToAppendAppends ==
  ASSUME JoinInv, AppendInv, NEW r \in Request, LoadMainToAppend(r) PROVE AppendInv'
<1> DEFINE call == [calls[r] EXCEPT !.stage = "append", !.out = MainStream]
<1>1. UNCHANGED <<side, content>> /\ calls[r].stage = "new" /\ side.behavior = "append" /\ Update(r, call)
  BY DEF LoadMainToAppend, Call
<1>2. CallOK(calls[r])
  BY DEF JoinInv
<1>3. call.stage = "append" /\ call.out = MainStream /\ call.next = 1
  BY <1>1, <1>2 DEF CallOK, CallFields
<1>4. call.next - 1 = 0 /\ Len(side.joins) \in Nat
  BY <1>3, JoinsAre
<1>5. call.out = MainStream \o FlattenSeq(AddedUpto(call.next - 1))
  BY <1>3, <1>4, AddedFirst
<1> HIDE DEF call
<1> QED BY <1>1, <1>3, <1>4, <1>5, OneAppends

\* The loop appends one stream more, without the lines to skip; when it met a stream
\* that is too short, nothing more is claimed.
LEMMA AppendStreamAppends ==
  ASSUME JoinInv, AppendInv, NEW r \in Request, AppendStream(r) PROVE AppendInv'
<1> DEFINE c == calls[r]
           n == c.next
           join == side.joins[n]
           loaded == content[join.node]
           less == LinesAfter(loaded, join.skipLines)
           short == Len(loaded) < join.skipLines
<1>1. UNCHANGED <<side, content>> /\ c.stage = "append" /\ n \in DOMAIN side.joins
  BY DEF AppendStream, Call
<1>2. CallOK(c) /\ AppendOK(r)
  BY DEF JoinInv, AppendInv
<1>3. PICK added \in IF c.broken THEN {loaded, <<>>} ELSE {less} :
        Update(r, [c EXCEPT !.next = @ + 1, !.out = @ \o added,
                            !.broken = @ \/ (side.op = "store" /\ short)])
  BY Zenon DEF AppendStream, Call
<1> DEFINE out == c.out \o added
           broken == c.broken \/ (side.op = "store" /\ short)
           call == [c EXCEPT !.next = n + 1, !.out = out, !.broken = broken]
<1>4. Update(r, call)
  BY <1>3
<1>5. side.behavior = "append" /\ n - 1 \in 0 .. Len(side.joins)
      /\ (c.broken \/ c.out = MainStream \o FlattenSeq(AddedUpto(n - 1)))
  BY <1>1, <1>2 DEF AppendOK, Call
<1>6. n \in Nat \ {0} /\ n - 1 \in Nat /\ (n - 1) + 1 = n /\ (n + 1) - 1 = n
  BY <1>2 DEF CallOK
<1>7. n \in 0 .. Len(side.joins)
  BY <1>1, <1>6, JoinsAre
<1>8. ~ c.broken => out = MainStream \o FlattenSeq(AddedUpto(n))
  <2>1. MainStream \o FlattenSeq(AddedUpto((n - 1) + 1)) = (MainStream \o FlattenSeq(AddedUpto(n - 1))) \o less
    <3> DEFINE k == n - 1
    <3>1. k \in Nat /\ k + 1 = n /\ k + 1 \in DOMAIN side.joins
      BY <1>1, <1>6
    <3> HIDE DEF k
    <3>2. MainStream \o FlattenSeq(AddedUpto(k + 1)) =
            (MainStream \o FlattenSeq(AddedUpto(k)))
              \o LinesAfter(content[side.joins[k + 1].node], side.joins[k + 1].skipLines)
      BY <3>1, AddedNext
    <3> QED BY <3>1, <3>2, Zenon DEF k
  <2> HIDE DEF less
  <2> QED BY <1>3, <1>5, <1>6, <2>1
<1>9. call.stage = "append" /\ call.next = n + 1 /\ call.out = out /\ call.broken = broken
  <2> HIDE DEF out, broken, n
  <2> QED BY <1>1, <1>2 DEF CallOK, CallFields
<1>10. call.broken \/ call.out = MainStream \o FlattenSeq(AddedUpto(n))
  BY <1>8, <1>9
<1>11. call.next - 1 = n
  BY <1>6, <1>9
<1> HIDE DEF call, out, broken, n
<1> QED BY <1>1, <1>4, <1>5, <1>7, <1>9, <1>10, <1>11, OneAppends

\* At the end of the loop every stream is there.
LEMMA AppendedAppends ==
  ASSUME JoinInv, AppendInv, NEW r \in Request, Appended(r) PROVE AppendInv'
<1> DEFINE c == calls[r]
           to == Onward
           call == [c EXCEPT !.stage = to]
           L == Len(side.joins)
<1>1. UNCHANGED <<side, content>> /\ c.stage = "append" /\ c.next \notin DOMAIN side.joins
      /\ Update(r, call)
  BY DEF Appended, Call, Onward
<1>2. CallOK(c) /\ AppendOK(r)
  BY DEF JoinInv, AppendInv
<1>3. c.next - 1 \in 0 .. L /\ (c.broken \/ c.out = MainStream \o FlattenSeq(AddedUpto(c.next - 1)))
  BY <1>1, <1>2 DEF AppendOK, Call
<1>4. c.next - 1 = L
  <2>1. c.next \in Nat \ {0} /\ c.next \notin 1 .. L /\ L \in Nat
    BY <1>1, <1>2, JoinsAre DEF CallOK
  <2> HIDE DEF L
  <2> QED BY <1>3, <2>1
<1>5. call.stage = to /\ call.out = c.out /\ call.broken = c.broken /\ to \notin {"append", "main", "streams"}
  BY <1>2 DEF CallOK, CallFields, Onward
<1>6. call.broken \/ call.out = MainStream \o FlattenSeq(AddedUpto(L))
  <2> HIDE DEF L
  <2> QED BY <1>3, <1>4, <1>5
<1> HIDE DEF call, to
<1> QED BY <1>1, <1>5, <1>6, OneAppends

\* The answer of the endpoint changes nothing.
LEMMA StoredAppends ==
  ASSUME JoinInv, AppendInv, NEW r \in Request, Stored(r) PROVE AppendInv'
<1> DEFINE c == calls[r]
           call == [c EXCEPT !.stage = "done"]
<1>1. UNCHANGED <<side, content>> /\ c.stage = "store" /\ Update(r, call)
  BY DEF Stored, Call
<1>2. CallOK(c) /\ AppendOK(r)
  BY DEF JoinInv, AppendInv
<1>3. call.stage = "done" /\ call.out = c.out /\ call.broken = c.broken
  BY <1>2 DEF CallOK, CallFields
<1>4. side.joins = <<>> \/ side.behavior = "append" =>
        call.broken \/ call.out = MainStream \o FlattenSeq(AddedUpto(Len(side.joins)))
  BY <1>1, <1>2, <1>3 DEF AppendOK, Call
<1> HIDE DEF call
<1> QED BY <1>1, <1>3, <1>4, OneAppends

\* Every step of the pipeline keeps it.
LEMMA AppendInvKeeps ==
  ASSUME JoinInv, AppendInv, NEW r \in Request, JoinThenPartition(r) PROVE AppendInv'
<1>4. CASE TakeMainKey(r) \/ TakeStreamKey(r)
  <2>1. PICK stream, n : TakeKey(r, stream, n)
    BY <1>4, Zenon DEF TakeMainKey, TakeStreamKey
  <2>2. calls[r].stage \in {"main", "streams"}
    BY <1>4, Zenon DEF TakeMainKey, TakeStreamKey, Call
  <2> QED BY <2>1, <2>2, TakeKeyAppends
<1>1. CASE JoinStep(r)
  BY <1>1, <1>4, FailAppends, ForwardAppends, BeginJoinAppends, LoadMainAppends, JoinStreamAppends, ExecuteJoinAppends,
     LoadMainToAppendAppends, AppendStreamAppends, AppendedAppends DEF JoinStep
<1>2. CASE SendOn(r) \/ SplitOn(r)
  BY <1>2, AppendInvKept DEF SendOn, SplitOn
<1>3. CASE Answered(r)
  BY <1>3, StoredAppends, FailAppends DEF Answered
<1> QED BY <1>1, <1>2, <1>3 DEF JoinThenPartition

\* It is strong enough for the promise of the behavior append.
LEMMA AppendInvIsRight == JoinInv /\ AppendInv => AppendIsRight
<1> SUFFICES ASSUME JoinInv, AppendInv, NEW r \in Request,
                    Call(r).stage \in {"store", "done"},
                    side.joins = <<>> \/ side.behavior = "append"
             PROVE  Call(r).broken \/ IsTheSequence(Call(r).out)
  BY DEF AppendIsRight
<1>1. Call(r).broken \/ Call(r).out = MainStream \o FlattenSeq(AddedUpto(Len(side.joins)))
  BY DEF AppendInv, AppendOK
<1> QED BY <1>1, AddedIsTheSequence

-----------------------------------------------------------------------------
\* The steps of SumAt.
AddsUp(g, s, P) ==
  /\ g \in [0 .. Len(s) -> Int] /\ g[0] = 0
  /\ \A n \in 1 .. Len(s) : g[n] = IF n \in P THEN g[n - 1] + s[n] ELSE g[n - 1]

\* Whatever adds up the numbers as SumAt does ends where SumAt ends.
LEMMA AddsUpTheSame ==
  ASSUME NEW s \in Seq(Int), NEW P, NEW g, AddsUp(g, s, P)
  PROVE  SumAt(s, P) = g[Len(s)]
<1> DEFINE L == Len(s)
           C(h) == h = [n \in 0 .. L |->
                          IF n = 0 THEN 0
                          ELSE IF n \in P THEN h[n - 1] + s[n] ELSE h[n - 1]]
           f == CHOOSE h : C(h)
<1>1. L \in Nat
  BY LenProperties
<1>2. SumAt(s, P) = f[L]
  BY Zenon DEF SumAt, L, f, C
<1>3. C(g)
  <2>1. g = [n \in 0 .. L |-> g[n]]
    BY DEF AddsUp
  <2>2. ASSUME NEW n \in 0 .. L
        PROVE  g[n] = IF n = 0 THEN 0 ELSE IF n \in P THEN g[n - 1] + s[n] ELSE g[n - 1]
    <3>1. n = 0 \/ n \in 1 .. L
      BY <1>1
    <3> QED BY <3>1 DEF AddsUp
  <2> QED BY <2>1, <2>2
<1>4. C(f)
  <2> HIDE DEF C
  <2> QED BY <1>3
<1> HIDE DEF f
<1>5. StepsAlike(f, g, L)
  <2>1. f[0] = 0 /\ g[0] = 0
    BY <1>1, <1>4 DEF AddsUp
  <2>2. ASSUME NEW n \in 1 .. L, f[n - 1] = g[n - 1] PROVE f[n] = g[n]
    <3>1. n \in 0 .. L /\ n # 0
      BY <1>1
    <3> QED BY <1>4, <2>2, <3>1 DEF AddsUp
  <2> QED BY <2>1, <2>2 DEF StepsAlike
<1>6. \A n \in 0 .. L : f[n] = g[n]
  <2> HIDE DEF L, C
  <2> QED BY <1>1, <1>5, SameSteps
<1> QED BY <1>1, <1>2, <1>6

\* There is such a recursion: SumAt has a value for every sequence of numbers.
LEMMA SumSteps ==
  ASSUME NEW s \in Seq(Int), NEW P
  PROVE  \E g : AddsUp(g, s, P)
<1> DEFINE L == Len(s)
           One(n, x) == IF n \in P THEN x + s[n] ELSE x
           F == [n \in 1 .. L |-> [x \in Int |-> One(n, x)]]
<1>1. L \in Nat /\ \A n \in 1 .. L : s[n] \in Int
  BY LenProperties
<1>2. \A n \in 1 .. L, x \in Int : One(n, x) \in Int
  BY <1>1
<1>3. F \in [1 .. L -> [Int -> Int]] /\ \A n \in 1 .. L, x \in Int : F[n][x] = One(n, x)
  BY <1>2
<1>5. \A n, x : One(n, x) = IF n \in P THEN x + s[n] ELSE x
  OBVIOUS
<1> HIDE DEF F, L, One
<1>6. PICK g : IteratesUpto(g, L, 0, F, Int)
  <2>1. 0 \in Int
    OBVIOUS
  <2> QED BY <1>1, <1>3, <2>1, FiniteRecursion
<1>7. g \in [0 .. L -> Int] /\ \A n \in 0 .. L : g[n] = IF n = 0 THEN 0 ELSE F[n][g[n - 1]]
  BY <1>6 DEF IteratesUpto
<1>8. ASSUME NEW n \in 1 .. L PROVE g[n] = One(n, g[n - 1])
  <2>1. n \in 0 .. L /\ n # 0 /\ n - 1 \in 0 .. L
    BY <1>1
  <2>2. g[n - 1] \in Int /\ g[n] = F[n][g[n - 1]]
    BY <1>7, <2>1
  <2> QED BY <1>3, <2>2
<1>9. g[0] = 0
  <2>1. 0 \in 0 .. L
    BY <1>1
  <2> HIDE DEF L
  <2> QED BY <1>7, <2>1
<1> QED BY <1>5, <1>7, <1>8, <1>9 DEF AddsUp, L

\* The sum of no value, and with one value more.
LEMMA SumNone ==
  ASSUME NEW s \in Seq(Int)
  PROVE  SumAt(s, {}) = 0
<1> DEFINE g == [n \in 0 .. Len(s) |-> 0]
<1>0. Len(s) \in Nat
  BY LenProperties
<1>1. AddsUp(g, s, {})
  BY <1>0 DEF AddsUp
<1>2. g[Len(s)] = 0
  BY <1>0
<1> HIDE DEF g
<1> QED BY <1>1, <1>2, AddsUpTheSame

\* A place more adds its number, wherever the place is.
LEMMA SumMore ==
  ASSUME NEW s \in Seq(Int), NEW P, NEW m \in 1 .. Len(s), m \notin P
  PROVE  SumAt(s, P \union {m}) = SumAt(s, P) + s[m] /\ SumAt(s, P) \in Int
<1> DEFINE L == Len(s)
<1>0. L \in Nat /\ s[m] \in Int /\ m \in Nat /\ m >= 1
  BY LenProperties
<1>1. PICK g : AddsUp(g, s, P)
  BY SumSteps
<1> DEFINE h == [n \in 0 .. L |-> IF n < m THEN g[n] ELSE g[n] + s[m]]
<1>2. \A n \in 0 .. L : g[n] \in Int
  BY <1>1 DEF AddsUp
<1>3. AddsUp(h, s, P \union {m})
  <2>1. h \in [0 .. L -> Int]
    BY <1>0, <1>2
  <2>2. h[0] = 0
    BY <1>0, <1>1 DEF AddsUp
  <2>3. ASSUME NEW n \in 1 .. L
        PROVE  h[n] = IF n \in P \union {m} THEN h[n - 1] + s[n] ELSE h[n - 1]
    <3>1. n \in 0 .. L /\ n - 1 \in 0 .. L /\ s[n] \in Int
      BY <1>0, LenProperties
    <3>2. g[n] = IF n \in P THEN g[n - 1] + s[n] ELSE g[n - 1]
      BY <1>1 DEF AddsUp
    <3>3. /\ h[n] = IF n < m THEN g[n] ELSE g[n] + s[m]
          /\ h[n - 1] = IF n - 1 < m THEN g[n - 1] ELSE g[n - 1] + s[m]
      BY <3>1
    <3>4. g[n] \in Int /\ g[n - 1] \in Int
      BY <1>2, <3>1
    <3> HIDE DEF h, L
    <3>5. CASE n = m
      BY <1>0, <3>1, <3>2, <3>3, <3>4, <3>5
    <3>6. CASE n < m
      BY <1>0, <3>1, <3>2, <3>3, <3>4, <3>6
    <3>7. CASE n > m
      BY <1>0, <3>1, <3>2, <3>3, <3>4, <3>7
    <3> QED BY <1>0, <3>5, <3>6, <3>7
  <2> QED BY <2>1, <2>2, <2>3 DEF AddsUp
<1>4. SumAt(s, P) = g[L] /\ SumAt(s, P \union {m}) = h[L]
  <2> HIDE DEF h
  <2> QED BY <1>1, <1>3, AddsUpTheSame
<1>5. h[L] = g[L] + s[m] /\ g[L] \in Int
  BY <1>0, <1>2
<1> QED BY <1>4, <1>5

\* A change of the order of the values.
Reorders(p, N) == /\ p \in [1 .. N -> 1 .. N]
                  /\ \A m, n \in 1 .. N : p[m] = p[n] => m = n
                  /\ \A k \in 1 .. N : \E n \in 1 .. N : p[n] = k

\* The places from which a change of order brings those of G.
Before(p, N, G) == {n \in 1 .. N : p[n] \in G}

\* The numbers of s in the order p.
MovedBy(p, s, t) ==
  Reorders(p, Len(s)) /\ Len(t) = Len(s) /\ \A n \in 1 .. Len(s) : t[n] = s[p[n]]

\* A sum does not depend on the order.
LEMMA SumReordered ==
  ASSUME NEW s \in Seq(Int), NEW t \in Seq(Int), NEW p, MovedBy(p, s, t),
         NEW G \in SUBSET (1 .. Len(s))
  PROVE  SumAt(t, Before(p, Len(s), G)) = SumAt(s, G)
<1> DEFINE L == Len(s)
           B(n) == Before(p, L, G \cap 1 .. n)
           S == {n \in Nat : n <= L => SumAt(t, B(n)) = SumAt(s, G \cap 1 .. n)}
<1>0. /\ L \in Nat /\ Reorders(p, L) /\ Len(t) = L
      /\ \A n \in 1 .. L : t[n] = s[p[n]]
  BY LenProperties DEF MovedBy
<1>1. 0 \in S
  <2>1. G \cap 1 .. 0 = {} /\ B(0) = {}
    BY DEF Before
  <2> QED BY <2>1, SumNone
<1>2. ASSUME NEW k \in Nat, k \in S PROVE k + 1 \in S
  <2> DEFINE n == k + 1
  <2>1. SUFFICES ASSUME n <= L PROVE SumAt(t, B(n)) = SumAt(s, G \cap 1 .. n)
    OBVIOUS
  <2>2. n \in 1 .. L /\ k <= L
    BY <1>0, <2>1
  <2>3. SumAt(t, B(k)) = SumAt(s, G \cap 1 .. k)
    BY <1>2, <2>2
  <2>4. CASE n \in G
    <3>1. PICK m \in 1 .. L : p[m] = n
      BY <1>0, <2>2 DEF Reorders
    <3>2. G \cap 1 .. n = (G \cap 1 .. k) \union {n} /\ n \notin G \cap 1 .. k
      BY <2>4
    <3>3. B(n) = B(k) \union {m} /\ m \notin B(k)
      <4>1. \A a \in 1 .. L : p[a] = n <=> a = m
        BY <1>0, <2>2, <3>1 DEF Reorders
      <4> HIDE DEF n
      <4> QED BY <3>1, <3>2, <4>1 DEF Before
    <3>4. SumAt(s, G \cap 1 .. n) = SumAt(s, G \cap 1 .. k) + s[n]
      <4> HIDE DEF n
      <4> QED BY <2>2, <3>2, SumMore
    <3>5. SumAt(t, B(n)) = SumAt(t, B(k)) + t[m]
      <4> HIDE DEF B, n
      <4> QED BY <1>0, <3>1, <3>3, SumMore
    <3>6. t[m] = s[n]
      BY <1>0, <3>1
    <3> QED BY <2>3, <3>4, <3>5, <3>6
  <2>5. CASE n \notin G
    <3>1. G \cap 1 .. n = G \cap 1 .. k
      BY <2>5
    <3> QED BY <2>3, <3>1
  <2> QED BY <2>4, <2>5
<1>3. Nat \subseteq S
  <2> HIDE DEF S
  <2> QED BY <1>1, <1>2, Induction
<1>4. SumAt(t, B(L)) = SumAt(s, G \cap 1 .. L)
  BY <1>0, <1>3
<1>5. G \cap 1 .. L = G
  OBVIOUS
<1> QED BY <1>4, <1>5

-----------------------------------------------------------------------------
\* The aggregate of a field over any group, the empty one too.
Agg(field, values, G) == IF G = {} THEN field.init ELSE AggregateOf(field, values, G)

\* A later line is one operation more.
LEMMA AggNext ==
  ASSUME NEW field \in Fields, NEW values \in Seq(Int), NEW n \in 1 .. Len(values),
         NEW G, G \subseteq 1 .. n - 1
  PROVE  Agg(field, values, G \union {n}) = Operated(field, Agg(field, values, G), values[n])
<1> DEFINE H == G \union {n}
<1>1. Len(values) \in Nat /\ n \in Nat /\ n \notin G /\ H # {} /\ n \in H
  BY LenProperties
<1>2. Agg(field, values, H) = AggregateOf(field, values, H)
  BY <1>1 DEF Agg
<1>3. field.op \in {"sum", "last", "count"} /\ field.init \in Int
  BY DEF Fields
<1>4. CASE field.op = "sum"
  <2>1. /\ AggregateOf(field, values, H) = field.init + SumAt(values, H)
        /\ AggregateOf(field, values, G) = field.init + SumAt(values, G)
    BY <1>4 DEF AggregateOf
  <2>2. SumAt(values, H) = SumAt(values, G) + values[n] /\ SumAt(values, G) \in Int /\ values[n] \in Int
    BY <1>1, SumMore, LenProperties
  <2>3. Operated(field, Agg(field, values, G), values[n]) = Agg(field, values, G) + values[n]
    BY <1>4 DEF Operated
  <2>4. Agg(field, values, G) = field.init + SumAt(values, G)
    <3>1. CASE G = {}
      <4>1. SumAt(values, G) = 0
        BY <3>1, SumNone
      <4>2. Agg(field, values, G) = field.init
        BY <3>1 DEF Agg
      <4> QED BY <1>3, <4>1, <4>2
    <3>2. CASE G # {}
      BY <2>1, <3>2 DEF Agg
    <3> QED BY <3>1, <3>2
  <2> HIDE DEF H
  <2>5. field.init + (SumAt(values, G) + values[n]) = (field.init + SumAt(values, G)) + values[n]
    BY <1>3, <2>2
  <2> QED BY <1>2, <2>1, <2>2, <2>3, <2>4, <2>5 DEF H
<1>5. CASE field.op = "last"
  <2>1. AggregateOf(field, values, H) = values[CHOOSE m \in H : \A k \in H : k <= m]
    BY <1>5 DEF AggregateOf
  <2>2. Operated(field, Agg(field, values, G), values[n]) = values[n]
    BY <1>5 DEF Operated
  <2>3. \A k \in H : k \in Nat /\ k <= n
    BY <1>1
  <2> HIDE DEF H
  <2>4. \A m \in H : (\A k \in H : k <= m) <=> m = n
    BY <1>1, <2>3
  <2>5. (CHOOSE m \in H : \A k \in H : k <= m) = n
    BY <1>1, <2>4
  <2> QED BY <1>2, <2>1, <2>2, <2>5 DEF H
<1>6. CASE field.op = "count"
  <2>1. /\ AggregateOf(field, values, H) = field.init + Cardinality(H)
        /\ AggregateOf(field, values, G) = field.init + Cardinality(G)
    BY <1>6 DEF AggregateOf
  <2>2. IsFiniteSet(1 .. n - 1)
    BY <1>1, FS_Interval
  <2>3. IsFiniteSet(G)
    BY <2>2, FS_Subset
  <2>4. Cardinality(H) = Cardinality(G) + 1 /\ Cardinality(G) \in Nat
    BY <1>1, <2>3, FS_AddElement, FS_CardinalityType
  <2>5. Operated(field, Agg(field, values, G), values[n]) = Agg(field, values, G) + 1
    BY <1>6 DEF Operated
  <2>6. Agg(field, values, G) = field.init + Cardinality(G)
    <3>1. CASE G = {}
      <4>1. Cardinality(G) = 0
        BY <3>1, FS_EmptySet
      <4>2. Agg(field, values, G) = field.init
        BY <3>1 DEF Agg
      <4> QED BY <1>3, <4>1, <4>2
    <3>2. CASE G # {}
      BY <2>1, <3>2 DEF Agg
    <3> QED BY <3>1, <3>2
  <2> HIDE DEF H
  <2>7. field.init + Cardinality(H) = Agg(field, values, G) + 1
    BY <1>3, <2>4, <2>6
  <2> QED BY <1>2, <2>1, <2>4, <2>5, <2>7 DEF H
<1> QED BY <1>3, <1>4, <1>5, <1>6

\* The variables of the awk program: those of the fields, each that of one field.
VarNames(fs) == {f.varName : f \in Range(fs)}

\* Every field has a variable of its own.
OwnVariables(fs) == \A m, n \in DOMAIN fs : fs[m].varName = fs[n].varName => m = n

\* The field that has the variable v.
Owner(fs, v) == CHOOSE k \in DOMAIN fs : fs[k].varName = v

\* Then a variable and its field determine each other.
LEMMA OwnerIs ==
  ASSUME NEW fs \in Seq(Fields), OwnVariables(fs)
  PROVE  /\ \A v \in VarNames(fs) : Owner(fs, v) \in DOMAIN fs /\ fs[Owner(fs, v)].varName = v
         /\ \A k \in DOMAIN fs : fs[k].varName \in VarNames(fs) /\ Owner(fs, fs[k].varName) = k
<1>1. ASSUME NEW v \in VarNames(fs)
      PROVE  Owner(fs, v) \in DOMAIN fs /\ fs[Owner(fs, v)].varName = v
  <2>1. \E k \in DOMAIN fs : fs[k].varName = v
    BY DEF VarNames, Range
  <2> QED BY <2>1 DEF Owner
<1>2. ASSUME NEW k \in DOMAIN fs
      PROVE  fs[k].varName \in VarNames(fs) /\ Owner(fs, fs[k].varName) = k
  <2>1. fs[k].varName \in VarNames(fs)
    BY DEF VarNames, Range
  <2>2. Owner(fs, fs[k].varName) \in DOMAIN fs /\ fs[Owner(fs, fs[k].varName)].varName = fs[k].varName
    BY <1>1, <2>1
  <2> QED BY <2>1, <2>2 DEF OwnVariables
<1> QED BY <1>1, <1>2

\* What the variables are after the lines of a group.
Variables(fs, V, G) ==
  [v \in VarNames(fs) |-> Agg(fs[Owner(fs, v)], V[Owner(fs, v)], G)]

\* What a program initialises its variables to is their value for no lines.
LEMMA InitialisedIs ==
  ASSUME NEW fs \in Seq(Fields), OwnVariables(fs), NEW V
  PROVE  Initialised(fs) = Variables(fs, V, {})
<1>1. ASSUME NEW v \in VarNames(fs)
      PROVE  fs[SelectLastInSeq(fs, LAMBDA f : f.varName = v)].init = fs[Owner(fs, v)].init
  <2> DEFINE I == {i \in 1 .. Len(fs) : fs[i].varName = v}
             k == Owner(fs, v)
  <2>1. k \in 1 .. Len(fs) /\ fs[k].varName = v /\ k \in Nat
    BY OwnerIs, LenProperties
  <2>2. \A i \in 1 .. Len(fs) : fs[i].varName = v <=> i = k
    BY <2>1, OwnerIs, LenProperties
  <2>3. I = {k}
    BY <2>1, <2>2
  <2>4. SelectLastInSeq(fs, LAMBDA f : f.varName = v) = Max(I)
    BY <2>3 DEF SelectLastInSeq
  <2>5. Max({k}) = k
    BY <2>1 DEF Max
  <2> QED BY <2>3, <2>4, <2>5
<1>2. Initialised(fs) = [v \in VarNames(fs) |-> fs[SelectLastInSeq(fs, LAMBDA f : f.varName = v)].init]
  BY DEF Initialised, VarNames
<1>3. Variables(fs, V, {}) = [v \in VarNames(fs) |-> fs[Owner(fs, v)].init]
  BY DEF Variables, Agg
<1> QED BY <1>1, <1>2, <1>3

\* The values of the fields, a sequence for each of them.
AreValues(V, fs, N) ==
  \A k \in DOMAIN fs : V[k] \in Seq(Int) /\ Len(V[k]) = N

\* A line: one operation after the other takes every variable one line further.
LEMMA IncrementedIs ==
  ASSUME NEW fs \in Seq(Fields), OwnVariables(fs), NEW V, NEW N, AreValues(V, fs, N),
         NEW n \in 1 .. N, NEW G, G \subseteq 1 .. n - 1, NEW ix, NEW ks, NEW line,
         \A k \in DOMAIN fs : Operand(ix, ks, fs, k, line) = V[k][n]
  PROVE  Incremented(ix, ks, fs, Variables(fs, V, G), line) = Variables(fs, V, G \union {n})
<1> DEFINE L == Len(fs)
           W == Variables(fs, V, G)
           C(h) == h = [k \in 0 .. L |->
                     IF k = 0 THEN W
                     ELSE [h[k - 1] EXCEPT ![fs[k].varName] =
                             Operated(fs[k], @, Operand(ix, ks, fs, k, line))]]
           f == CHOOSE h : C(h)
           A(v) == Agg(fs[Owner(fs, v)], V[Owner(fs, v)], G)
           B(v) == Agg(fs[Owner(fs, v)], V[Owner(fs, v)], G \union {n})
           Upto(k) == [v \in VarNames(fs) |-> IF Owner(fs, v) <= k THEN B(v) ELSE A(v)]
           g == [k \in 0 .. L |-> Upto(k)]
<1>0. L \in Nat /\ DOMAIN fs = 1 .. L
  BY LenProperties
<1>1. Incremented(ix, ks, fs, W, line) = f[L]
  BY Zenon DEF Incremented, L, f, C
<1>2. Upto(0) = W
  <2>1. \A v \in VarNames(fs) : ~ (Owner(fs, v) <= 0)
    BY <1>0, OwnerIs
  <2> HIDE DEF A, B
  <2>2. Upto(0) = [v \in VarNames(fs) |-> A(v)]
    BY <2>1
  <2> QED BY <2>2 DEF Variables, A
<1>3. Upto(L) = Variables(fs, V, G \union {n})
  <2>1. \A v \in VarNames(fs) : Owner(fs, v) <= L
    BY <1>0, OwnerIs
  <2> HIDE DEF A, B, L
  <2>2. Upto(L) = [v \in VarNames(fs) |-> B(v)]
    BY <2>1
  <2> QED BY <2>2 DEF Variables, B
<1>4. ASSUME NEW k \in 1 .. L
      PROVE  Upto(k) = [Upto(k - 1) EXCEPT ![fs[k].varName] =
                          Operated(fs[k], @, Operand(ix, ks, fs, k, line))]
  <2> DEFINE w == fs[k].varName
  <2>1. w \in VarNames(fs) /\ Owner(fs, w) = k /\ k \in DOMAIN fs
    BY <1>0, OwnerIs
  <2>2. \A v \in VarNames(fs) : v # w =>
          Owner(fs, v) # k /\ Owner(fs, v) \in Nat /\ (Owner(fs, v) <= k <=> Owner(fs, v) <= k - 1)
    <3> SUFFICES ASSUME NEW v \in VarNames(fs), v # w
                 PROVE  Owner(fs, v) # k /\ Owner(fs, v) \in Nat /\ (Owner(fs, v) <= k <=> Owner(fs, v) <= k - 1)
      OBVIOUS
    <3>1. Owner(fs, v) \in 1 .. L /\ fs[Owner(fs, v)].varName = v
      BY <1>0, OwnerIs
    <3>2. Owner(fs, v) # k
      BY <3>1
    <3> HIDE DEF L, w
    <3> QED BY <1>0, <3>1, <3>2
  <2>3. B(w) = Operated(fs[k], A(w), Operand(ix, ks, fs, k, line))
    <3>1. fs[k] \in Fields /\ V[k] \in Seq(Int) /\ n \in 1 .. Len(V[k])
      BY <2>1 DEF AreValues
    <3>2. Agg(fs[k], V[k], G \union {n}) = Operated(fs[k], Agg(fs[k], V[k], G), V[k][n])
      BY <3>1, AggNext
    <3>3. B(w) = Agg(fs[k], V[k], G \union {n}) /\ A(w) = Agg(fs[k], V[k], G)
      BY <2>1
    <3>4. Operand(ix, ks, fs, k, line) = V[k][n]
      BY <2>1
    <3> QED BY <3>2, <3>3, <3>4
  <2> HIDE DEF A, B, w
  <2>4. Upto(k - 1)[w] = A(w) /\ Upto(k)[w] = B(w)
    <3>1. Upto(k)[w] = IF Owner(fs, w) <= k THEN B(w) ELSE A(w)
      BY <2>1
    <3>2. Upto(k - 1)[w] = IF Owner(fs, w) <= k - 1 THEN B(w) ELSE A(w)
      BY <2>1
    <3>3. k <= k /\ ~ (k <= k - 1)
      BY <1>0
    <3> QED BY <2>1, <3>1, <3>2, <3>3
  <2>5. \A v \in VarNames(fs) : v # w => Upto(k)[v] = Upto(k - 1)[v]
    BY <2>2
  <2>6. DOMAIN Upto(k) = VarNames(fs) /\ DOMAIN Upto(k - 1) = VarNames(fs)
    OBVIOUS
  <2>7. Upto(k) = [v \in VarNames(fs) |-> Upto(k)[v]]
    OBVIOUS
  <2> DEFINE u == Upto(k)
             t == Upto(k - 1)
  <2> HIDE DEF Upto, u, t
  <2>8. DOMAIN u = VarNames(fs) /\ DOMAIN t = VarNames(fs) /\ u[w] = Operated(fs[k], t[w], Operand(ix, ks, fs, k, line))
        /\ \A v \in VarNames(fs) : v # w => u[v] = t[v]
    BY <2>3, <2>4, <2>5, <2>6 DEF u, t
  <2>9. u = [v \in VarNames(fs) |-> u[v]]
    BY <2>7 DEF u
  <2>10. u = [t EXCEPT ![w] = Operated(fs[k], @, Operand(ix, ks, fs, k, line))]
    BY <2>1, <2>8, <2>9
  <2> QED BY <2>10 DEF u, t, w
<1> HIDE DEF Upto, W
<1>5. \A k \in 0 .. L : g[k] = Upto(k)
  OBVIOUS
<1>6. C(g)
  <2>1. ASSUME NEW k \in 0 .. L
        PROVE  Upto(k) = IF k = 0 THEN W
                         ELSE [g[k - 1] EXCEPT ![fs[k].varName] =
                                 Operated(fs[k], @, Operand(ix, ks, fs, k, line))]
    <3>1. CASE k = 0
      BY <1>2, <3>1
    <3>2. CASE k # 0
      <4>1. k \in 1 .. L /\ k - 1 \in 0 .. L
        BY <1>0, <3>2
      <4>2. g[k - 1] = Upto(k - 1)
        BY <1>5, <4>1
      <4> QED BY <1>4, <3>2, <4>1, <4>2
    <3> QED BY <3>1, <3>2
  <2> QED BY <2>1
<1> HIDE DEF g
<1>7. C(f)
  <2> HIDE DEF C
  <2> QED BY <1>6
<1> HIDE DEF f
<1>8. StepsAlike(f, g, L)
  <2>1. f[0] = W /\ g[0] = W
    <3>1. 0 \in 0 .. L
      BY <1>0
    <3> QED BY <1>6, <1>7, <3>1
  <2>2. ASSUME NEW k \in 1 .. L, f[k - 1] = g[k - 1] PROVE f[k] = g[k]
    <3>1. k \in 0 .. L /\ k # 0
      BY <1>0
    <3>2. f[k] = [f[k - 1] EXCEPT ![fs[k].varName] =
                    Operated(fs[k], @, Operand(ix, ks, fs, k, line))]
      BY <1>7, <3>1
    <3>3. g[k] = [g[k - 1] EXCEPT ![fs[k].varName] =
                    Operated(fs[k], @, Operand(ix, ks, fs, k, line))]
      BY <1>6, <3>1
    <3> QED BY <2>2, <3>2, <3>3
  <2> QED BY <2>1, <2>2 DEF StepsAlike
<1>9. \A k \in 0 .. L : f[k] = g[k]
  <2> HIDE DEF L, C
  <2> QED BY <1>0, <1>8, SameSteps
<1>10. L \in 0 .. L
  BY <1>0
<1> QED BY <1>1, <1>3, <1>5, <1>9, <1>10 DEF W

-----------------------------------------------------------------------------
\* The lines with a key, and the groups of all keys; K[n] is the key of line n.
GroupOf(K, x) == {m \in DOMAIN K : K[m] = x}

\* The groups of lines with the keys K: the lines of each key.
Groups(K) == {GroupOf(K, K[n]) : n \in DOMAIN K}

\* A program has printed one line for every group.
Prints(out, fs, K, V, h) ==
  /\ h \in [DOMAIN out -> Groups(K)]
  /\ \A i, j \in DOMAIN out : h[i] = h[j] => i = j
  /\ \A G \in Groups(K) : \E j \in DOMAIN out : h[j] = G
  /\ \A j \in DOMAIN out : \A n \in h[j] : out[j] = Printed(K[n], fs, Variables(fs, V, h[j]))

\* A program has printed the lines of all the groups, in whatever order.
Listed(out, fs, K, V) == IsSeq(out) /\ \E h : Prints(out, fs, K, V, h)

\* What a program reads: the keys and the values of the N lines.
ReadsAs(ix, ks, fs, ls, N, K, V) ==
  /\ N \in Nat \ {0} /\ Len(ls) = N /\ DOMAIN K = 1 .. N /\ AreValues(V, fs, N)
  /\ \A n \in 1 .. N : KeyIn(ix, ks, ls[n]) = K[n]
  /\ \A n \in 1 .. N : \A k \in DOMAIN fs : Operand(ix, ks, fs, k, ls[n]) = V[k][n]

\* One line more of the program, for the group that it belongs to.
LEMMA OneLineMore ==
  ASSUME NEW fs \in Seq(Fields), OwnVariables(fs), NEW ix, NEW ks, NEW ls, NEW N, NEW K, NEW V,
         ReadsAs(ix, ks, fs, ls, N, K, V), NEW n \in 1 .. N
  PROVE  Incremented(ix, ks, fs, Variables(fs, V, GroupOf(K, K[n]) \cap 1 .. n - 1), ls[n])
           = Variables(fs, V, GroupOf(K, K[n]) \cap 1 .. n)
<1> DEFINE G == GroupOf(K, K[n]) \cap 1 .. n - 1
<1>1. GroupOf(K, K[n]) \cap 1 .. n = G \union {n} /\ G \subseteq 1 .. n - 1
  BY DEF GroupOf, ReadsAs
<1>2. AreValues(V, fs, N) /\ \A k \in DOMAIN fs : Operand(ix, ks, fs, k, ls[n]) = V[k][n]
  BY DEF ReadsAs
<1> HIDE DEF G
<1>3. Incremented(ix, ks, fs, Variables(fs, V, G), ls[n]) = Variables(fs, V, G \union {n})
  BY <1>1, <1>2, IncrementedIs
<1> QED BY <1>1, <1>3 DEF G

\* The whole stream is the one group of a program without keys.
LEMMA KeylessIs ==
  ASSUME NEW fs \in Seq(Fields), OwnVariables(fs), NEW ix, NEW ls, NEW N, NEW K, NEW V,
         ReadsAs(ix, <<>>, fs, ls, N, K, V), ~ TrailingComma(fs)
  PROVE  Listed(KeylessProgram(ix, fs, ls), fs, K, V)
<1> DEFINE C(h) == h = [n \in 0 .. Len(ls) |->
                     IF n = 0 THEN Initialised(fs)
                     ELSE Incremented(ix, <<>>, fs, h[n - 1], ls[n])]
           f == CHOOSE h : C(h)
           Upto(n) == Variables(fs, V, 1 .. n)
           g == [n \in 0 .. Len(ls) |-> Upto(n)]
           line == Printed(<<>>, fs, Upto(N))
<1>0. Len(ls) = N /\ N \in Nat /\ N >= 1 /\ DOMAIN K = 1 .. N
  BY DEF ReadsAs
<1>1. KeylessProgram(ix, fs, ls) =
        <<Printed(<<>>, fs, f[Len(ls)]) \o IF TrailingComma(fs) THEN <<EmptyCell>> ELSE <<>>>>
  BY Zenon DEF KeylessProgram, f, C
<1>2. \A n \in 1 .. N : K[n] = <<>>
  <2>1. ASSUME NEW n \in 1 .. N PROVE KeyIn(ix, <<>>, ls[n]) = <<>>
    BY DEF KeyIn
  <2> QED BY <2>1 DEF ReadsAs
<1>3. \A n \in 1 .. N : GroupOf(K, K[n]) = 1 .. N
  BY <1>0, <1>2 DEF GroupOf
<1>4. C(g)
  <2>1. ASSUME NEW n \in 0 .. Len(ls)
        PROVE  Upto(n) = IF n = 0 THEN Initialised(fs)
                         ELSE Incremented(ix, <<>>, fs, g[n - 1], ls[n])
    <3>1. CASE n = 0
      <4>1. 1 .. 0 = {}
        OBVIOUS
      <4> QED BY <3>1, <4>1, InitialisedIs
    <3>2. CASE n # 0
      <4>1. n \in 1 .. N /\ n - 1 \in 0 .. Len(ls)
        BY <1>0, <3>2
      <4>2. g[n - 1] = Upto(n - 1)
        BY <4>1
      <4>3. Incremented(ix, <<>>, fs, Variables(fs, V, GroupOf(K, K[n]) \cap 1 .. n - 1), ls[n])
              = Variables(fs, V, GroupOf(K, K[n]) \cap 1 .. n)
        BY <4>1, OneLineMore
      <4>4. GroupOf(K, K[n]) \cap 1 .. n - 1 = 1 .. n - 1 /\ GroupOf(K, K[n]) \cap 1 .. n = 1 .. n
        BY <1>0, <1>3, <4>1
      <4> QED BY <3>2, <4>2, <4>3, <4>4
    <3> QED BY <3>1, <3>2
  <2> QED BY <2>1
<1>5. C(f)
  <2> HIDE DEF C
  <2> QED BY <1>4
<1> HIDE DEF f
<1>6. StepsAlike(f, g, N)
  <2>1. f[0] = g[0]
    <3>1. 0 \in 0 .. Len(ls)
      BY <1>0
    <3> HIDE DEF g
    <3> QED BY <1>4, <1>5, <3>1
  <2>2. ASSUME NEW n \in 1 .. N, f[n - 1] = g[n - 1] PROVE f[n] = g[n]
    <3>1. n \in 0 .. Len(ls) /\ n # 0
      BY <1>0
    <3> HIDE DEF g
    <3> QED BY <1>4, <1>5, <2>2, <3>1
  <2> QED BY <2>1, <2>2 DEF StepsAlike
<1>7. f[Len(ls)] = Upto(N)
  <2>1. N \in 0 .. N
    BY <1>0
  <2>2. f[N] = g[N]
    <3> HIDE DEF f, g, C
    <3> QED BY <1>0, <1>6, <2>1, SameSteps
  <2> QED BY <1>0, <2>1, <2>2
<1>8. KeylessProgram(ix, fs, ls) = <<line>>
  <2>1. line \o <<>> = line
    <3>1. line = <<>> \o [n \in DOMAIN Outputs(fs) |->
                       IF Outputs(fs)[n].output = "fixed" THEN 7 ELSE Upto(N)[Outputs(fs)[n].varName]]
      BY DEF Printed
    <3> DEFINE e == [n \in DOMAIN Outputs(fs) |->
                       IF Outputs(fs)[n].output = "fixed" THEN 7 ELSE Upto(N)[Outputs(fs)[n].varName]]
    <3>2. IsSeq(e)
      <4>1. Outputs(fs) \in Seq(Fields)
        BY SelectedIs DEF Outputs
      <4>2. DOMAIN e = 1 .. Len(Outputs(fs)) /\ Len(Outputs(fs)) \in Nat
        BY <4>1, LenProperties
      <4>3. e \in [1 .. Len(Outputs(fs)) -> Range(e)]
        BY <4>2 DEF Range
      <4> HIDE DEF e
      <4> QED BY <4>2, <4>3, SeqDef DEF IsSeq
    <3> HIDE DEF e
    <3>3. <<>> \o e = e /\ e \o <<>> = e
      BY <3>2, ConcatEmptySeq DEF IsSeq
    <3> QED BY <3>1, <3>3 DEF e
  <2> QED BY <1>1, <1>7, <2>1
<1> DEFINE out == <<line>>
           h == [j \in DOMAIN out |-> 1 .. N]
<1>9. Groups(K) = {1 .. N}
  <2>1. 1 \in DOMAIN K
    BY <1>0
  <2> QED BY <1>0, <1>3, <2>1 DEF Groups
<1> HIDE DEF line
<1>10. DOMAIN out = {1} /\ out[1] = line
  OBVIOUS
<1>11. Prints(out, fs, K, V, h)
  <2>1. h \in [DOMAIN out -> Groups(K)] /\ \A j \in DOMAIN out : h[j] = 1 .. N
    BY <1>9
  <2>2. \A j \in DOMAIN out : \A n \in h[j] : out[j] = Printed(K[n], fs, Variables(fs, V, h[j]))
    BY <1>2, <1>10 DEF line
  <2> HIDE DEF h, out
  <2> QED BY <1>9, <1>10, <2>1, <2>2 DEF Prints
<1>12. IsSeq(out)
  <2>1. out \in Seq({line})
    OBVIOUS
  <2> HIDE DEF out
  <2> QED BY <2>1, AnySeq
<1> QED BY <1>8, <1>11, <1>12 DEF Listed

\* The array of the program has an entry for every key.
LEMMA GroupedIs ==
  ASSUME NEW fs \in Seq(Fields), OwnVariables(fs), NEW ix, NEW ks, NEW ls, NEW N, NEW K, NEW V,
         ReadsAs(ix, ks, fs, ls, N, K, V)
  PROVE  Listed(GroupedProgram(ix, ks, fs, ls), fs, K, V)
<1> DEFINE Further(n, found) ==
             LET key == KeyIn(ix, ks, ls[n])
                 old == IF key \in DOMAIN found THEN found[key] ELSE Initialised(fs)
             IN  [k \in DOMAIN found \union {key} |->
                    IF k = key THEN Incremented(ix, ks, fs, old, ls[n]) ELSE found[k]]
           C(h) == h = [n \in 0 .. Len(ls) |-> IF n = 0 THEN <<>> ELSE Further(n, h[n - 1])]
           f == CHOOSE h : C(h)
           Met(n) == {K[m] : m \in 1 .. n}
           Upto(n) == [x \in Met(n) |-> Variables(fs, V, GroupOf(K, x) \cap 1 .. n)]
           g == [n \in 0 .. Len(ls) |-> Upto(n)]
           entries == f[Len(ls)]
           all == SetToSeq(DOMAIN entries)
           out == [n \in DOMAIN all |-> Printed(all[n], fs, entries[all[n]])]
<1>0. Len(ls) = N /\ N \in Nat /\ N >= 1 /\ DOMAIN K = 1 .. N
  BY DEF ReadsAs
<1>1. GroupedProgram(ix, ks, fs, ls) = out
  BY Zenon DEF GroupedProgram, out, all, entries, f, C, Further
<1>2. Upto(0) = <<>>
  <2>1. Met(0) = {}
    OBVIOUS
  <2> HIDE DEF Met
  <2> QED BY <2>1
<1>3. ASSUME NEW n \in 1 .. N PROVE Further(n, Upto(n - 1)) = Upto(n)
  <2> DEFINE key == K[n]
             found == Upto(n - 1)
             old == IF key \in DOMAIN found THEN found[key] ELSE Initialised(fs)
  <2>1. KeyIn(ix, ks, ls[n]) = key
    BY DEF ReadsAs
  <2>2. Met(n) = Met(n - 1) \union {key}
    <3>1. \A m \in 1 .. n : m \in 1 .. n - 1 \/ m = n
      OBVIOUS
    <3>2. \A m \in 1 .. n - 1 : m \in 1 .. n
      OBVIOUS
    <3>3. n \in 1 .. n
      OBVIOUS
    <3> QED BY <3>1, <3>2, <3>3
  <2>3. DOMAIN found = Met(n - 1) /\ DOMAIN Upto(n) = Met(n)
    OBVIOUS
  <2>4. old = Variables(fs, V, GroupOf(K, key) \cap 1 .. n - 1)
    <3>1. CASE key \in Met(n - 1)
      BY <2>3, <3>1
    <3>2. CASE key \notin Met(n - 1)
      <4>1. GroupOf(K, key) \cap 1 .. n - 1 = {}
        BY <3>2 DEF GroupOf
      <4>2. old = Initialised(fs)
        BY <2>3, <3>2
      <4> HIDE DEF old
      <4> QED BY <4>1, <4>2, InitialisedIs
    <3> QED BY <3>1, <3>2
  <2>5. Incremented(ix, ks, fs, old, ls[n]) = Variables(fs, V, GroupOf(K, key) \cap 1 .. n)
    <3> HIDE DEF old
    <3> QED BY <2>4, OneLineMore
  <2>6. \A x : x # key => GroupOf(K, x) \cap 1 .. n = GroupOf(K, x) \cap 1 .. n - 1
    BY DEF GroupOf
  <2>7. \A x \in Met(n - 1) : x # key => found[x] = Upto(n)[x]
    BY <2>2, <2>6
  <2>8. Upto(n)[key] = Variables(fs, V, GroupOf(K, key) \cap 1 .. n)
    BY <2>2
  <2>9. Upto(n) = [x \in Met(n) |-> Upto(n)[x]]
    OBVIOUS
  <2> HIDE DEF Met, old, Upto
  <2>10. Further(n, found) = [x \in Met(n - 1) \union {key} |->
                            IF x = key THEN Incremented(ix, ks, fs, old, ls[n]) ELSE found[x]]
    BY <2>1, <2>3 DEF old
  <2> HIDE DEF Further, found
  <2>11. Further(n, found) = [x \in Met(n) |-> Upto(n)[x]]
    BY <2>2, <2>5, <2>7, <2>8, <2>10
  <2> QED BY <2>9, <2>11 DEF found
<1>4. C(g)
  <2>1. ASSUME NEW n \in 0 .. Len(ls)
        PROVE  Upto(n) = IF n = 0 THEN <<>> ELSE Further(n, g[n - 1])
    <3>1. CASE n = 0
      BY <1>2, <3>1
    <3>2. CASE n # 0
      <4>1. n \in 1 .. N /\ n - 1 \in 0 .. Len(ls)
        BY <1>0, <3>2
      <4> HIDE DEF Upto, Further
      <4>2. g[n - 1] = Upto(n - 1)
        BY <4>1
      <4> QED BY <1>3, <3>2, <4>1, <4>2
    <3> QED BY <3>1, <3>2
  <2> HIDE DEF Upto, Further
  <2>2. \A n \in 0 .. Len(ls) : g[n] = Upto(n)
    OBVIOUS
  <2> QED BY <2>1
<1> HIDE DEF Upto, Further
<1>5. C(f)
  <2> HIDE DEF C
  <2> QED BY <1>4
<1> HIDE DEF f
<1>6. StepsAlike(f, g, N)
  <2> HIDE DEF g
  <2>1. f[0] = g[0]
    <3>1. 0 \in 0 .. Len(ls)
      BY <1>0
    <3> QED BY <1>4, <1>5, <3>1
  <2>2. ASSUME NEW n \in 1 .. N, f[n - 1] = g[n - 1] PROVE f[n] = g[n]
    <3>1. n \in 0 .. Len(ls) /\ n # 0
      BY <1>0
    <3> QED BY <1>4, <1>5, <2>2, <3>1
  <2> QED BY <2>1, <2>2 DEF StepsAlike
<1>7. entries = Upto(N)
  <2>1. N \in 0 .. N
    BY <1>0
  <2>2. f[N] = g[N]
    <3> HIDE DEF g, C
    <3> QED BY <1>0, <1>6, <2>1, SameSteps
  <2> QED BY <1>0, <2>1, <2>2
<1>8. /\ DOMAIN entries = Met(N)
      /\ \A x \in Met(N) : entries[x] = Variables(fs, V, GroupOf(K, x))
  <2>1. \A x : GroupOf(K, x) \cap 1 .. N = GroupOf(K, x)
    BY <1>0 DEF GroupOf
  <2> HIDE DEF Met
  <2> QED BY <1>7, <2>1 DEF Upto
<1> HIDE DEF entries
<1>9. IsFiniteSet(Met(N))
  <2> DEFINE s == [m \in 1 .. N |-> K[m]]
  <2>1. s \in Surjection(1 .. N, Met(N))
    BY DEF Surjection
  <2>2. IsFiniteSet(1 .. N)
    BY <1>0, FS_Interval
  <2> HIDE DEF s, Met
  <2> QED BY <2>1, <2>2, FS_Surjection
<1>10. /\ all \in Seq(Met(N))
       /\ \A m, n \in DOMAIN all : all[m] = all[n] => m = n
       /\ \A x \in Met(N) : \E n \in DOMAIN all : all[n] = x
       /\ \A n \in DOMAIN all : all[n] \in Met(N)
       /\ DOMAIN all = 1 .. Len(all) /\ Len(all) \in Nat
  <2> HIDE DEF Met
  <2>1. all \in Seq(Met(N))
    BY <1>8, <1>9, SetToSeqIs
  <2>2. DOMAIN all = 1 .. Len(all) /\ Len(all) \in Nat
    BY <2>1, LenProperties
  <2> QED BY <1>8, <1>9, <2>1, <2>2, SetToSeqIs
<1> HIDE DEF all
<1> DEFINE h == [j \in DOMAIN out |-> GroupOf(K, all[j])]
<1>11. \A j \in DOMAIN all : out[j] = Printed(all[j], fs, Variables(fs, V, GroupOf(K, all[j])))
  BY <1>8, <1>10
<1>12. DOMAIN out = DOMAIN all /\ \A j \in DOMAIN all : h[j] = GroupOf(K, all[j])
  OBVIOUS
<1>13. IsSeq(out)
  <2>1. DOMAIN out = 1 .. Len(all)
    BY <1>10, <1>12
  <2>2. out \in [1 .. Len(all) -> Range(out)]
    <3> HIDE DEF Met
    <3>1. out = [j \in 1 .. Len(all) |-> out[j]]
      BY <1>10
    <3> HIDE DEF out
    <3> QED BY <2>1, <3>1 DEF Range
  <2>3. Len(all) \in Nat
    BY <1>10
  <2> HIDE DEF out
  <2> QED BY <2>2, <2>3, SeqDef DEF IsSeq
<1>14. Prints(out, fs, K, V, h)
  <2>1. \A x \in Met(N) : GroupOf(K, x) \in Groups(K) /\ GroupOf(K, x) # {}
    BY <1>0 DEF GroupOf, Groups
  <2>2. \A x \in Met(N) : \A n \in GroupOf(K, x) : K[n] = x
    BY DEF GroupOf
  <2>3. \A G \in Groups(K) : \E x \in Met(N) : G = GroupOf(K, x)
    BY <1>0 DEF Groups
  <2> HIDE DEF Met
  <2>4. h \in [DOMAIN out -> Groups(K)]
    BY <1>10, <1>12, <2>1
  <2>5. \A i, j \in DOMAIN out : h[i] = h[j] => i = j
    <3> SUFFICES ASSUME NEW i \in DOMAIN all, NEW j \in DOMAIN all, h[i] = h[j] PROVE i = j
      BY <1>12
    <3>1. GroupOf(K, all[i]) = GroupOf(K, all[j]) /\ all[i] \in Met(N) /\ all[j] \in Met(N)
      BY <1>10, <1>12
    <3>2. PICK n : n \in GroupOf(K, all[i])
      BY <2>1, <3>1
    <3>3. all[i] = all[j]
      BY <2>2, <3>1, <3>2
    <3> QED BY <1>10, <3>3
  <2>6. \A G \in Groups(K) : \E j \in DOMAIN out : h[j] = G
    BY <1>10, <1>12, <2>3
  <2>7. \A j \in DOMAIN out : \A n \in h[j] : out[j] = Printed(K[n], fs, Variables(fs, V, h[j]))
    BY <1>10, <1>11, <1>12, <2>2
  <2> HIDE DEF out, h
  <2> QED BY <2>4, <2>5, <2>6, <2>7 DEF Prints
<1> QED BY <1>1, <1>13, <1>14 DEF Listed

-----------------------------------------------------------------------------
\* No two positions have one rank: selected from the numbers, each finds itself.
LEMMA RankTellsApart ==
  ASSUME NEW N \in Nat, NEW P, NEW m \in 1 .. N, NEW n \in 1 .. N, m \in P, n \in P,
         Rank(P, m) = Rank(P, n)
  PROVE  m = n
<1> DEFINE s == [k \in 1 .. N |-> k]
           c == Selected(s, P)
<1>1. s \in Seq(Nat) /\ Len(s) = N
  OBVIOUS
<1>2. s[m] = m /\ s[n] = n
  OBVIOUS
<1> HIDE DEF s
<1>3. ChosenUpto(c, s, P, N)
  BY <1>1, SelectedIs
<1>4. c[Rank(P, m)] = s[m] /\ c[Rank(P, n)] = s[n]
  BY <1>3 DEF ChosenUpto
<1> QED BY <1>2, <1>4

\* The lines of a key come one after the other.
Contiguous(K) == \A i, j \in DOMAIN K : \A n \in i .. j : K[i] = K[j] => K[n] = K[i]

\* The lines after which the key is another one.
Ends(K, N) == {m \in 1 .. N : m < N => K[m + 1] # K[m]}

\* Up to its last line, a group is complete, and every group has one.
LEMMA EndsAre ==
  ASSUME NEW N \in Nat, NEW K, DOMAIN K = 1 .. N, Contiguous(K)
  PROVE  /\ \A m \in Ends(K, N) : m \in 1 .. N /\ GroupOf(K, K[m]) \subseteq 1 .. m
         /\ \A n \in 1 .. N : \E m \in Ends(K, N) : K[m] = K[n]
<1>1. ASSUME NEW m \in Ends(K, N) PROVE m \in 1 .. N /\ GroupOf(K, K[m]) \subseteq 1 .. m
  <2>1. m \in 1 .. N /\ (m < N => K[m + 1] # K[m])
    BY DEF Ends
  <2>2. ASSUME NEW k \in 1 .. N, K[k] = K[m], m < k PROVE FALSE
    <3>1. m + 1 \in m .. k /\ m < N /\ m \in DOMAIN K /\ k \in DOMAIN K
      BY <2>1, <2>2
    <3>2. K[m + 1] = K[m]
      BY <2>2, <3>1 DEF Contiguous
    <3> QED BY <2>1, <3>1, <3>2
  <2>3. ASSUME NEW k \in GroupOf(K, K[m]) PROVE k \in 1 .. m
    <3>1. k \in 1 .. N /\ K[k] = K[m]
      BY DEF GroupOf
    <3>2. ~ (m < k)
      BY <2>2, <3>1
    <3> QED BY <2>1, <3>1, <3>2
  <2> QED BY <2>1, <2>3
<1>2. ASSUME NEW n \in 1 .. N PROVE \E m \in Ends(K, N) : K[m] = K[n]
  <2> DEFINE T == {N - m : m \in GroupOf(K, K[n])}
  <2>1. T \subseteq Nat /\ N - n \in T
    BY DEF GroupOf
  <2>2. PICK t \in T : \A u \in T : t <= u
    BY <2>1, LeastNatural
  <2>3. PICK m \in GroupOf(K, K[n]) : t = N - m
    BY <2>2
  <2>4. m \in 1 .. N /\ K[m] = K[n]
    BY <2>3 DEF GroupOf
  <2>5. ASSUME m < N, K[m + 1] = K[m] PROVE FALSE
    <3>1. m + 1 \in GroupOf(K, K[n])
      BY <2>4, <2>5 DEF GroupOf
    <3>2. N - (m + 1) \in T
      BY <3>1
    <3>3. N - m <= N - (m + 1)
      BY <2>2, <2>3, <3>2
    <3> QED BY <2>4, <3>3
  <2>6. m \in Ends(K, N)
    BY <2>4, <2>5 DEF Ends
  <2> QED BY <2>4, <2>6
<1> QED BY <1>1, <1>2

\* skipGroup: what is known after n lines.
GroupState(fs, V, K, lines, ends, n) ==
  [key |-> K[IF n = 0 THEN 1 ELSE n],
   variables |-> Variables(fs, V, GroupOf(K, K[IF n = 0 THEN 1 ELSE n]) \cap 1 .. n),
   out |-> Selected(lines, ends \cap 1 .. n - 1)]

\* What the program for groups that follow one another does with a line.
SkipStep(ix, ks, fs, ls, n, state) ==
  LET key == KeyIn(ix, ks, ls[n])
      next == IF key = state.key THEN state ELSE NextGroup(state, key, fs)
  IN  [next EXCEPT !.variables = Incremented(ix, ks, fs, @, ls[n])]

\* What the program would print for a group if it ended with the line m.
GroupLines(fs, V, K, N) ==
  [m \in 1 .. N |-> Printed(K[m], fs, Variables(fs, V, GroupOf(K, K[m]) \cap 1 .. m))]

\* These are a sequence.
LEMMA GroupLinesAre ==
  ASSUME NEW fs, NEW V, NEW K, NEW N \in Nat
  PROVE  \E X : GroupLines(fs, V, K, N) \in Seq(X) /\ Len(GroupLines(fs, V, K, N)) = N
<1> DEFINE P == GroupLines(fs, V, K, N)
<1>1. P \in [1 .. N -> Range(P)]
  BY DEF GroupLines, Range
<1>2. P \in Seq(Range(P))
  <2> HIDE DEF P
  <2> QED BY <1>1, SeqDef
<1>3. DOMAIN P = 1 .. N
  BY DEF GroupLines
<1> HIDE DEF P
<1>4. Len(P) \in Nat /\ DOMAIN P = 1 .. Len(P)
  BY <1>2, LenProperties
<1>5. (Len(P) # 0 => Len(P) \in 1 .. N) /\ (N # 0 => N \in 1 .. Len(P))
  <2>1. (Len(P) # 0 => Len(P) \in 1 .. Len(P)) /\ (N # 0 => N \in 1 .. N)
    BY <1>4
  <2> QED BY <1>3, <1>4, <2>1
<1>6. Len(P) \in Nat
  BY <1>4
<1>7. Len(P) = N
  BY <1>5, <1>6
<1> QED BY <1>2, <1>7 DEF P

\* A line takes the program from the state of the lines before to that with it.
LEMMA GroupStateNext ==
  ASSUME NEW fs \in Seq(Fields), OwnVariables(fs), NEW ix, NEW ks, NEW ls, NEW N, NEW K, NEW V,
         ReadsAs(ix, ks, fs, ls, N, K, V), Contiguous(K), NEW P, P = GroupLines(fs, V, K, N),
         NEW E, E = Ends(K, N), NEW n \in 1 .. N
  PROVE  SkipStep(ix, ks, fs, ls, n, GroupState(fs, V, K, P, E, n - 1))
           = GroupState(fs, V, K, P, E, n)
<1> DEFINE state == GroupState(fs, V, K, P, E, n - 1)
           key == K[n]
           G == GroupOf(K, key)
           next == IF key = state.key THEN state ELSE NextGroup(state, key, fs)
           before == K[IF n - 1 = 0 THEN 1 ELSE n - 1]
<1>0. N \in Nat /\ N >= 1 /\ DOMAIN K = 1 .. N /\ KeyIn(ix, ks, ls[n]) = key
  BY DEF ReadsAs
<1>1. /\ state.key = before
      /\ state.variables = Variables(fs, V, GroupOf(K, before) \cap 1 .. n - 1)
      /\ state.out = Selected(P, E \cap 1 .. (n - 1) - 1)
  BY DEF GroupState
<1>2. PICK X : P \in Seq(X) /\ Len(P) = N
  BY <1>0, GroupLinesAre
<1>3. /\ next.key = key /\ next.variables = Variables(fs, V, G \cap 1 .. n - 1)
      /\ next.out = Selected(P, E \cap 1 .. n - 1)
      /\ next = [key |-> key, variables |-> next.variables, out |-> next.out]
  <2>1. CASE n = 1
    <3>1. before = key /\ next = state
      BY <1>1, <2>1
    <3>2. E \cap 1 .. (n - 1) - 1 = E \cap 1 .. n - 1
      BY <2>1
    <3>3. state = [key |-> state.key, variables |-> state.variables, out |-> state.out]
      BY DEF GroupState
    <3> HIDE DEF state, next, G
    <3> QED BY <1>1, <3>1, <3>2, <3>3 DEF G
  <2>2. CASE n # 1 /\ K[n] = K[n - 1]
    <3>1. n - 1 \in 1 .. N /\ n - 1 # 0 /\ n - 1 < N /\ (n - 1) + 1 = n
      BY <1>0, <2>2
    <3>2. before = key /\ next = state
      BY <1>1, <2>2, <3>1
    <3> DEFINE m == n - 1
    <3>3. n - 1 \notin E
      BY <2>2, <3>1 DEF Ends
    <3>4. Selected(P, E \cap 1 .. n - 1) = Selected(P, E \cap 1 .. (n - 1) - 1)
      <4>1. m \in 1 .. Len(P)
        BY <1>2, <3>1
      <4>2. P \in Seq(X)
        BY <1>2
      <4> HIDE DEF m
      <4> QED BY <3>3, <4>1, <4>2, SelectedSame DEF m
    <3>5. state = [key |-> state.key, variables |-> state.variables, out |-> state.out]
      BY DEF GroupState
    <3> HIDE DEF state, next, G
    <3> QED BY <1>1, <3>2, <3>4, <3>5 DEF G
  <2>3. CASE n # 1 /\ K[n] # K[n - 1]
    <3>1. n - 1 \in 1 .. N /\ n - 1 # 0 /\ n - 1 < N /\ (n - 1) + 1 = n
      BY <1>0, <2>3
    <3>2. before = K[n - 1] /\ next = NextGroup(state, key, fs)
      BY <1>1, <2>3, <3>1
    <3> DEFINE m == n - 1
    <3>3. n - 1 \in E
      BY <2>3, <3>1 DEF Ends
    <3>4. Selected(P, E \cap 1 .. n - 1) = Append(Selected(P, E \cap 1 .. (n - 1) - 1), P[n - 1])
      <4>1. m \in 1 .. Len(P)
        BY <1>2, <3>1
      <4>2. P \in Seq(X)
        BY <1>2
      <4>3. m \in E
        BY <3>3
      <4> HIDE DEF m
      <4>4. Selected(P, E \cap 1 .. m) = Append(Selected(P, E \cap 1 .. m - 1), P[m])
        BY <4>1, <4>2, <4>3, SelectedNext
      <4> QED BY <4>4 DEF m
    <3>5. P[n - 1] = Printed(K[n - 1], fs, Variables(fs, V, GroupOf(K, K[n - 1]) \cap 1 .. n - 1))
      BY <3>1 DEF GroupLines
    <3>6. G \cap 1 .. n - 1 = {}
      <4>1. ASSUME NEW k \in 1 .. n - 1, K[k] = K[n] PROVE FALSE
        <5>1. k \in DOMAIN K /\ n \in DOMAIN K /\ n - 1 \in k .. n
          BY <1>0, <3>1
        <5>2. K[n - 1] = K[k]
          BY <4>1, <5>1 DEF Contiguous
        <5> QED BY <2>3, <4>1, <5>2
      <4> QED BY <4>1 DEF GroupOf
    <3>7. Initialised(fs) = Variables(fs, V, {})
      BY InitialisedIs
    <3> HIDE DEF state
    <3>8. next = [key |-> key, variables |-> Initialised(fs),
                  out |-> Append(state.out, Printed(state.key, fs, state.variables))]
      BY <3>2 DEF NextGroup
    <3>9. /\ next.key = key /\ next.variables = Initialised(fs)
          /\ next.out = Append(state.out, Printed(state.key, fs, state.variables))
      BY <3>8
    <3>10. next.out = Selected(P, E \cap 1 .. n - 1)
      BY <1>1, <3>2, <3>4, <3>5, <3>9
    <3> HIDE DEF next, G
    <3> QED BY <3>6, <3>7, <3>8, <3>9, <3>10
  <2> QED BY <2>1, <2>2, <2>3
<1>4. SkipStep(ix, ks, fs, ls, n, state) =
        [next EXCEPT !.variables = Incremented(ix, ks, fs, @, ls[n])]
  BY <1>0 DEF SkipStep
<1> HIDE DEF next
<1>5. [next EXCEPT !.variables = Incremented(ix, ks, fs, @, ls[n])] =
        [key |-> key, variables |-> Incremented(ix, ks, fs, next.variables, ls[n]), out |-> next.out]
  <2> DEFINE v == next.variables
             o == next.out
  <2>1. next = [key |-> key, variables |-> v, out |-> o]
    BY <1>3
  <2> HIDE DEF v, o
  <2>2. [next EXCEPT !.variables = Incremented(ix, ks, fs, @, ls[n])] =
          [key |-> key, variables |-> Incremented(ix, ks, fs, v, ls[n]), out |-> o]
    BY <2>1
  <2> QED BY <2>2 DEF v, o
<1>6. Incremented(ix, ks, fs, Variables(fs, V, G \cap 1 .. n - 1), ls[n])
        = Variables(fs, V, G \cap 1 .. n)
  BY OneLineMore
<1>7. GroupState(fs, V, K, P, E, n) =
        [key |-> key, variables |-> Variables(fs, V, G \cap 1 .. n),
         out |-> Selected(P, E \cap 1 .. n - 1)]
  <2>1. n # 0
    OBVIOUS
  <2> QED BY <2>1 DEF GroupState
<1> HIDE DEF state, G, key
<1> QED BY <1>3, <1>4, <1>5, <1>6, <1>7 DEF state

-----------------------------------------------------------------------------
\* The lines that skipGroup prints are those at the ends of the groups.
LEMMA SkipGroupPrints ==
  ASSUME NEW fs \in Seq(Fields), OwnVariables(fs), NEW ix, NEW ks, NEW ls, NEW N, NEW K, NEW V,
         ReadsAs(ix, ks, fs, ls, N, K, V), Contiguous(K)
  PROVE  SkipGroupProgram(ix, ks, fs, ls) = Selected(GroupLines(fs, V, K, N), Ends(K, N))
<1> DEFINE P == GroupLines(fs, V, K, N)
           E == Ends(K, N)
           first == [key |-> KeyIn(ix, ks, ls[1]), variables |-> Initialised(fs), out |-> <<>>]
           Further(n, state) ==
             LET key == KeyIn(ix, ks, ls[n])
                 next == IF key = state.key THEN state ELSE NextGroup(state, key, fs)
             IN  [next EXCEPT !.variables = Incremented(ix, ks, fs, @, ls[n])]
           C(h) == h = [n \in 0 .. Len(ls) |-> IF n = 0 THEN first ELSE Further(n, h[n - 1])]
           f == CHOOSE h : C(h)
           Upto(n) == GroupState(fs, V, K, P, E, n)
           g == [n \in 0 .. Len(ls) |-> Upto(n)]
           end == f[Len(ls)]
<1>0. Len(ls) = N /\ N \in Nat /\ N >= 1 /\ DOMAIN K = 1 .. N /\ KeyIn(ix, ks, ls[1]) = K[1]
  BY DEF ReadsAs
<1>1. SkipGroupProgram(ix, ks, fs, ls) = Append(end.out, Printed(end.key, fs, end.variables))
  BY Zenon DEF SkipGroupProgram, end, f, C, Further, first
<1>2. PICK X : P \in Seq(X) /\ Len(P) = N
  BY <1>0, GroupLinesAre
<1>3. Upto(0) = first
  <2>1. GroupOf(K, K[1]) \cap 1 .. 0 = {} /\ E \cap 1 .. 0 - 1 = {}
    OBVIOUS
  <2>2. Initialised(fs) = Variables(fs, V, {}) /\ Selected(P, {}) = <<>>
    BY <1>2, InitialisedIs, SelectedNone
  <2> HIDE DEF P, E
  <2> QED BY <1>0, <2>1, <2>2 DEF GroupState
<1>4. \A n, state : Further(n, state) = SkipStep(ix, ks, fs, ls, n, state)
  BY Zenon DEF SkipStep
<1>5. \A n \in 1 .. N : Further(n, Upto(n - 1)) = Upto(n)
  <2> SUFFICES ASSUME NEW n \in 1 .. N PROVE Further(n, Upto(n - 1)) = Upto(n)
    OBVIOUS
  <2>1. SkipStep(ix, ks, fs, ls, n, Upto(n - 1)) = Upto(n)
    BY GroupStateNext
  <2> HIDE DEF Further, Upto
  <2> QED BY <1>4, <2>1
<1> HIDE DEF Further, Upto, first
<1>6. C(g)
  <2>1. ASSUME NEW n \in 0 .. Len(ls)
        PROVE  Upto(n) = IF n = 0 THEN first ELSE Further(n, g[n - 1])
    <3>1. CASE n = 0
      BY <1>3, <3>1
    <3>2. CASE n # 0
      <4>1. n \in 1 .. N /\ n - 1 \in 0 .. Len(ls)
        BY <1>0, <3>2
      <4>2. g[n - 1] = Upto(n - 1)
        BY <4>1
      <4> QED BY <1>5, <3>2, <4>1, <4>2
    <3> QED BY <3>1, <3>2
  <2> QED BY <2>1
<1>7. C(f)
  <2> HIDE DEF C
  <2> QED BY <1>6
<1> HIDE DEF f
<1>8. StepsAlike(f, g, N)
  <2> HIDE DEF g
  <2>1. f[0] = g[0]
    <3>1. 0 \in 0 .. Len(ls)
      BY <1>0
    <3> QED BY <1>6, <1>7, <3>1
  <2>2. ASSUME NEW n \in 1 .. N, f[n - 1] = g[n - 1] PROVE f[n] = g[n]
    <3>1. n \in 0 .. Len(ls) /\ n # 0
      BY <1>0
    <3> QED BY <1>6, <1>7, <2>2, <3>1
  <2> QED BY <2>1, <2>2 DEF StepsAlike
<1>9. end = Upto(N)
  <2>1. N \in 0 .. N
    BY <1>0
  <2>2. f[N] = g[N]
    <3> HIDE DEF g, C
    <3> QED BY <1>0, <1>8, <2>1, SameSteps
  <2> QED BY <1>0, <2>1, <2>2
<1>10. /\ end.key = K[N] /\ end.variables = Variables(fs, V, GroupOf(K, K[N]) \cap 1 .. N)
       /\ end.out = Selected(P, E \cap 1 .. N - 1)
  <2>1. N # 0
    BY <1>0
  <2> HIDE DEF P, E, end
  <2> QED BY <1>9, <2>1 DEF Upto, GroupState
<1>11. N \in 1 .. N /\ N \in E /\ E \cap 1 .. N = E
  BY <1>0 DEF Ends
<1>12. P[N] = Printed(K[N], fs, Variables(fs, V, GroupOf(K, K[N]) \cap 1 .. N))
  BY <1>11 DEF GroupLines
<1> HIDE DEF P, E, end
<1>13. Selected(P, E \cap 1 .. N) = Append(Selected(P, E \cap 1 .. N - 1), P[N])
  BY <1>2, <1>11, SelectedNext
<1> QED BY <1>1, <1>10, <1>11, <1>12, <1>13 DEF P, E

\* One line for every group.
LEMMA SkipGroupIs ==
  ASSUME NEW fs \in Seq(Fields), OwnVariables(fs), NEW ix, NEW ks, NEW ls, NEW N, NEW K, NEW V,
         ReadsAs(ix, ks, fs, ls, N, K, V), Contiguous(K)
  PROVE  Listed(SkipGroupProgram(ix, ks, fs, ls), fs, K, V)
<1> DEFINE P == GroupLines(fs, V, K, N)
           E == Ends(K, N)
           out == Selected(P, E)
           At(j) == CHOOSE m \in 1 .. N : m \in E /\ Rank(E, m) = j
           h == [j \in DOMAIN out |-> GroupOf(K, K[At(j)])]
<1>0. N \in Nat /\ N >= 1 /\ DOMAIN K = 1 .. N
  BY DEF ReadsAs
<1>1. PICK X : P \in Seq(X) /\ Len(P) = N
  BY <1>0, GroupLinesAre
<1>2. /\ \A m \in E : m \in 1 .. N /\ GroupOf(K, K[m]) \subseteq 1 .. m
      /\ \A n \in 1 .. N : \E m \in E : K[m] = K[n]
  BY <1>0, EndsAre
<1>3. \A m \in 1 .. N : P[m] = Printed(K[m], fs, Variables(fs, V, GroupOf(K, K[m]) \cap 1 .. m))
  BY DEF GroupLines
<1>4. SkipGroupProgram(ix, ks, fs, ls) = out
  BY SkipGroupPrints
<1> HIDE DEF P, E
<1>5. out \in Seq(X) /\ ChosenUpto(out, P, E, N)
  BY <1>1, SelectedIs
<1>6. DOMAIN out = 1 .. Len(out)
  BY <1>5, LenProperties
<1> HIDE DEF out
<1>7. ASSUME NEW j \in DOMAIN out
      PROVE  /\ At(j) \in E /\ At(j) \in 1 .. N /\ Rank(E, At(j)) = j
             /\ out[j] = P[At(j)]
  <2>1. \E m \in 1 .. N : m \in E /\ Rank(E, m) = j
    BY <1>5, <1>6 DEF ChosenUpto
  <2>2. At(j) \in 1 .. N /\ At(j) \in E /\ Rank(E, At(j)) = j
    BY <2>1
  <2> HIDE DEF At
  <2> QED BY <1>5, <2>2 DEF ChosenUpto
<1>8. ASSUME NEW m \in E PROVE Rank(E, m) \in DOMAIN out /\ At(Rank(E, m)) = m
  <2>1. m \in 1 .. N /\ Rank(E, m) \in DOMAIN out
    BY <1>2, <1>5, <1>6 DEF ChosenUpto
  <2>2. At(Rank(E, m)) \in E /\ At(Rank(E, m)) \in 1 .. N /\ Rank(E, At(Rank(E, m))) = Rank(E, m)
    BY <1>7, <2>1
  <2> HIDE DEF At
  <2> QED BY <1>0, <2>1, <2>2, RankTellsApart
<1> HIDE DEF At
<1>9. \A j \in DOMAIN out : h[j] = GroupOf(K, K[At(j)])
  OBVIOUS
<1>10. h \in [DOMAIN out -> Groups(K)]
  BY <1>0, <1>7 DEF Groups
<1> HIDE DEF h
<1>11. ASSUME NEW i \in DOMAIN out, NEW j \in DOMAIN out, h[i] = h[j] PROVE i = j
  <2>1. GroupOf(K, K[At(i)]) = GroupOf(K, K[At(j)])
    BY <1>9, <1>11
  <2>2. At(i) \in GroupOf(K, K[At(i)]) /\ At(j) \in GroupOf(K, K[At(j)])
    BY <1>0, <1>7 DEF GroupOf
  <2>3. At(j) \in 1 .. At(i) /\ At(i) \in 1 .. At(j)
    BY <1>2, <1>7, <2>1, <2>2
  <2>4. At(i) \in Nat /\ At(j) \in Nat
    BY <1>7
  <2>5. At(i) = At(j)
    BY <2>3, <2>4
  <2> QED BY <1>7, <2>5
<1>12. ASSUME NEW G \in Groups(K) PROVE \E j \in DOMAIN out : h[j] = G
  <2>1. PICK n \in 1 .. N : G = GroupOf(K, K[n])
    BY <1>0 DEF Groups
  <2>2. PICK m \in E : K[m] = K[n]
    BY <1>2
  <2>3. Rank(E, m) \in DOMAIN out /\ At(Rank(E, m)) = m
    BY <1>8
  <2> QED BY <1>9, <2>1, <2>2, <2>3
<1>13. ASSUME NEW j \in DOMAIN out, NEW n \in h[j]
       PROVE  out[j] = Printed(K[n], fs, Variables(fs, V, h[j]))
  <2>1. h[j] = GroupOf(K, K[At(j)])
    BY <1>9
  <2>2. K[n] = K[At(j)]
    BY <1>13, <2>1 DEF GroupOf
  <2>3. GroupOf(K, K[At(j)]) \cap 1 .. At(j) = GroupOf(K, K[At(j)])
    BY <1>2, <1>7
  <2>4. out[j] = Printed(K[At(j)], fs, Variables(fs, V, GroupOf(K, K[At(j)]) \cap 1 .. At(j)))
    BY <1>3, <1>7
  <2> QED BY <2>1, <2>2, <2>3, <2>4
<1>14. Prints(out, fs, K, V, h)
  BY <1>10, <1>11, <1>12, <1>13 DEF Prints
<1>15. IsSeq(out)
  BY <1>5, AnySeq
<1> QED BY <1>4, <1>14, <1>15 DEF Listed

-----------------------------------------------------------------------------
\* A column that is there once is found.
LEMMA IndexIs ==
  ASSUME NEW X, NEW hs \in Seq(X), NEW name, CountOf(hs, name) = 1
  PROVE  IndexOf(hs, name) \in DOMAIN hs
<1> DEFINE I == {n \in DOMAIN hs : hs[n] = name}
<1>1. DOMAIN hs = 1 .. Len(hs) /\ Len(hs) \in Nat
  BY LenProperties
<1>2. I # {}
  BY FS_EmptySet DEF CountOf
<1>3. IndexOf(hs, name) = Min(I)
  BY <1>1, <1>2 DEF IndexOf, SelectInSeq
<1>4. I \subseteq Nat
  BY <1>1
<1> HIDE DEF I
<1>5. \E x \in I : \A y \in I : x <= y
  BY <1>2, <1>4, LeastNatural
<1>6. Min(I) \in I
  BY <1>5 DEF Min
<1> QED BY <1>3, <1>6 DEF I

\* The keys come first among the columns, then the required fields, each at its rank.
LEMMA ColumnsAre ==
  ASSUME NEW ks \in Seq(Keys), NEW fs \in Seq(Fields), NEW columns,
         columns = RequiredColumns(ks, fs)
  PROVE  /\ columns \in Seq(Keys \union Fields) /\ Len(ks) <= Len(columns)
         /\ \A n \in DOMAIN ks : n \in DOMAIN columns /\ columns[n] = ks[n]
         /\ \A n \in RequiredOf(fs) :
              /\ Len(ks) + Rank(RequiredOf(fs), n) \in DOMAIN columns
              /\ columns[Len(ks) + Rank(RequiredOf(fs), n)] = fs[n]
<1> DEFINE X == Keys \union Fields
           R == RequiredOf(fs)
           c == Selected(fs, R)
           p == Len(ks)
           q == Len(c)
<1>1. c \in Seq(Fields) /\ ChosenUpto(c, fs, R, Len(fs))
  BY SelectedIs
<1> HIDE DEF c
<1>2. ks \in Seq(X) /\ c \in Seq(X)
  BY <1>1, SeqMonotonic
<1>3. columns = ks \o c
  BY DEF RequiredColumns, c
<1>4. /\ p \in Nat /\ q \in Nat /\ DOMAIN ks = 1 .. p /\ DOMAIN c = 1 .. q
  BY <1>2, LenProperties
<1> HIDE DEF X
<1>5. /\ columns \in Seq(X) /\ Len(columns) = p + q
      /\ \A a \in 1 .. p + q : columns[a] = IF a <= p THEN ks[a] ELSE c[a - p]
  BY <1>2, <1>3, ConcatProperties
<1>6. DOMAIN columns = 1 .. p + q
  BY <1>5, LenProperties
<1> HIDE DEF p, q
<1>7. \A n \in DOMAIN ks : n \in DOMAIN columns /\ columns[n] = ks[n]
  BY <1>4, <1>5, <1>6
<1>8. ASSUME NEW n \in R
      PROVE  p + Rank(R, n) \in DOMAIN columns /\ columns[p + Rank(R, n)] = fs[n]
  <2>1. n \in 1 .. Len(fs)
    BY LenProperties DEF RequiredOf
  <2>2. Rank(R, n) \in 1 .. q /\ c[Rank(R, n)] = fs[n]
    BY <1>1, <2>1 DEF ChosenUpto, q
  <2> DEFINE a == p + Rank(R, n)
  <2>3. a \in 1 .. p + q /\ ~ (a <= p) /\ a - p = Rank(R, n)
    BY <1>4, <2>2
  <2> HIDE DEF a
  <2>4. columns[a] = c[a - p]
    BY <1>5, <2>3
  <2> QED BY <1>6, <2>2, <2>3, <2>4 DEF a
<1>9. p <= Len(columns)
  BY <1>4, <1>5
<1> QED BY <1>5, <1>7, <1>8, <1>9 DEF p, X

\* A line as the program gets it: with the columns it requires, where these are not
\* the first ones.
ModifiedLine(hs, ks, fs, line) ==
  IF NeedColumnManipulation(hs, ks, fs) THEN Reordered(hs, RequiredColumns(ks, fs), line)
  ELSE line

\* Wherever the columns are, a line gives its keys and its values.
LEMMA LineReads ==
  ASSUME NEW hs \in Seq(STRING), NEW ks \in Seq(Keys), NEW fs \in Seq(Fields),
         ValidHeader(hs, ks, fs), NEW line \in [DOMAIN hs -> Int],
         NEW ix, ix = FinalIndices(hs, ks, fs)
  PROVE  /\ KeyIn(ix, ks, ModifiedLine(hs, ks, fs, line)) = KeyAt(hs, ks, line)
         /\ \A k \in DOMAIN fs :
              Operand(ix, ks, fs, k, ModifiedLine(hs, ks, fs, line)) = FieldAt(hs, fs[k], line)
<1> DEFINE columns == RequiredColumns(ks, fs)
           need == NeedColumnManipulation(hs, ks, fs)
           l == ModifiedLine(hs, ks, fs, line)
           Cell(c) == Modified(c, line[IndexOf(hs, c.name)])
           \* A column whose cell is found at n.
           Finds(n, c) == CellOf(l, ix[n]) = Cell(c)
<1>1. ASSUME NEW n \in DOMAIN columns, CountOf(hs, columns[n].name) = 1,
             columns[n].modify # "" => need
      PROVE  Finds(n, columns[n])
  <2>1. IndexOf(hs, columns[n].name) \in DOMAIN hs
    BY <1>1, IndexIs
  <2>2. AwkIndices(hs, columns)[n] = IndexOf(hs, columns[n].name)
    BY <1>1 DEF AwkIndices
  <2> DEFINE c == columns[n]
             i == IndexOf(hs, c.name)
  <2>3. CASE need
    <3>1. ix[n] = n
      BY <1>1, <2>3 DEF FinalIndices
    <3>2. l = Reordered(hs, columns, line)
      BY <2>3 DEF ModifiedLine
    <3>3. n \in DOMAIN l /\ l[n] = Modified(c, line[i])
      BY <1>1, <2>2, <3>2 DEF Reordered
    <3> HIDE DEF l, c, i
    <3>4. CellOf(l, n) = Modified(c, line[i])
      BY <3>3 DEF CellOf
    <3> QED BY <3>1, <3>4 DEF c, i
  <2>4. CASE ~ need
    <3>1. ix[n] = i
      BY <2>2, <2>4 DEF FinalIndices
    <3>2. l = line
      BY <2>4 DEF ModifiedLine
    <3>3. Modified(c, line[i]) = line[i]
      BY <1>1, <2>4 DEF Modified
    <3>4. i \in DOMAIN line
      BY <2>1
    <3> HIDE DEF l, c, i
    <3>5. CellOf(l, i) = line[i]
      BY <3>2, <3>4 DEF CellOf
    <3> QED BY <3>1, <3>3, <3>5 DEF c, i
  <2> QED BY <2>3, <2>4
<1> HIDE DEF l
<1>2. ASSUME NEW n \in DOMAIN ks PROVE CellOf(l, ix[n]) = Cell(ks[n])
  <2>1. n \in DOMAIN columns /\ columns[n] = ks[n]
    BY ColumnsAre
  <2>2. CountOf(hs, ks[n].name) = 1
    BY DEF ValidHeader
  <2>3. ks[n].modify # "" => need
    BY DEF NeedColumnManipulation
  <2> HIDE DEF columns, need, Cell
  <2>4. Finds(n, columns[n])
    BY <1>1, <2>1, <2>2, <2>3
  <2> QED BY <2>1, <2>4
<1>3. KeyIn(ix, ks, l) = KeyAt(hs, ks, line)
  <2>1. KeyIn(ix, ks, l) = [n \in DOMAIN ks |-> CellOf(l, ix[n])]
    BY DEF KeyIn
  <2>2. KeyAt(hs, ks, line) = [n \in DOMAIN ks |-> Cell(ks[n])]
    BY DEF KeyAt
  <2> HIDE DEF Cell
  <2> QED BY <1>2, <2>1, <2>2
<1>4. ASSUME NEW k \in DOMAIN fs PROVE Operand(ix, ks, fs, k, l) = FieldAt(hs, fs[k], line)
  <2>1. CASE ~ IsRequired(fs[k])
    BY <2>1 DEF Operand, FieldAt
  <2>2. CASE IsRequired(fs[k])
    <3> DEFINE n == Len(ks) + Rank(RequiredOf(fs), k)
    <3>1. k \in RequiredOf(fs)
      BY <2>2 DEF RequiredOf
    <3>2. n \in DOMAIN columns /\ columns[n] = fs[k]
      BY <3>1, ColumnsAre
    <3>3. CountOf(hs, fs[k].name) = 1
      BY <2>2 DEF ValidHeader
    <3>4. fs[k].modify # "" => need
      BY DEF NeedColumnManipulation
    <3>5. Operand(ix, ks, fs, k, l) = CellOf(l, ix[n])
      BY <2>2 DEF Operand, FieldIndex, Rank
    <3>6. FieldAt(hs, fs[k], line) = Cell(fs[k])
      BY <2>2 DEF FieldAt
    <3> HIDE DEF columns, need, Cell, n
    <3>7. Finds(n, columns[n])
      BY <1>1, <3>2, <3>3, <3>4
    <3> QED BY <3>2, <3>5, <3>6, <3>7
  <2> QED BY <2>1, <2>2
<1> QED BY <1>3, <1>4 DEF l

\* The keys of all lines, and the values of all fields on them.
KeysOf(hs, ks, ls) == [n \in DOMAIN ls |-> KeyAt(hs, ks, ls[n])]

\* The values of the fields in the lines.
ValuesOf(hs, fs, ls) == [k \in DOMAIN fs |-> [n \in DOMAIN ls |-> FieldAt(hs, fs[k], ls[n])]]



\* The values are numbers, one for every line.
LEMMA ValuesAre ==
  ASSUME NEW hs \in Seq(STRING), NEW ks \in Seq(Keys), NEW fs \in Seq(Fields),
         ValidHeader(hs, ks, fs), NEW ls \in Seq([DOMAIN hs -> Int])
  PROVE  AreValues(ValuesOf(hs, fs, ls), fs, Len(ls))
<1>1. DOMAIN ls = 1 .. Len(ls) /\ Len(ls) \in Nat /\ \A n \in 1 .. Len(ls) : ls[n] \in [DOMAIN hs -> Int]
  BY LenProperties
<1>2. ASSUME NEW k \in DOMAIN fs, NEW n \in DOMAIN ls PROVE FieldAt(hs, fs[k], ls[n]) \in Int
  <2>1. CASE ~ IsRequired(fs[k])
    BY <2>1 DEF FieldAt
  <2>2. CASE IsRequired(fs[k])
    <3>1. CountOf(hs, fs[k].name) = 1
      BY <2>2 DEF ValidHeader
    <3>2. IndexOf(hs, fs[k].name) \in DOMAIN hs
      BY <3>1, IndexIs
    <3>3. ls[n][IndexOf(hs, fs[k].name)] \in Int
      BY <1>1, <3>2
    <3>4. \A x \in Int : Modified(fs[k], x) \in Int
      BY DEF Modified
    <3> QED BY <2>2, <3>3, <3>4 DEF FieldAt
  <2> QED BY <2>1, <2>2
<1>3. ASSUME NEW k \in DOMAIN fs
      PROVE  ValuesOf(hs, fs, ls)[k] \in Seq(Int) /\ Len(ValuesOf(hs, fs, ls)[k]) = Len(ls)
  <2>1. ValuesOf(hs, fs, ls)[k] = [n \in 1 .. Len(ls) |-> FieldAt(hs, fs[k], ls[n])]
    BY <1>1 DEF ValuesOf
  <2>2. ValuesOf(hs, fs, ls)[k] \in [1 .. Len(ls) -> Int]
    BY <1>1, <1>2, <2>1
  <2> QED BY <1>1, <2>2, SeqOfFunction
<1> QED BY <1>3 DEF AreValues

-----------------------------------------------------------------------------
\* From the lines it gets, a program reads the keys and the values of the table.
LEMMA InputReads ==
  ASSUME NEW hs \in Seq(STRING), NEW ks \in Seq(Keys), NEW fs \in Seq(Fields),
         ValidHeader(hs, ks, fs), NEW ls \in Seq([DOMAIN hs -> Int]), ls # <<>>,
         NEW input, input = [n \in DOMAIN ls |-> ModifiedLine(hs, ks, fs, ls[n])]
  PROVE  ReadsAs(FinalIndices(hs, ks, fs), ks, fs, input, Len(ls),
                 KeysOf(hs, ks, ls), ValuesOf(hs, fs, ls))
<1> DEFINE ix == FinalIndices(hs, ks, fs)
           N == Len(ls)
           K == KeysOf(hs, ks, ls)
           V == ValuesOf(hs, fs, ls)
<1>1. N \in Nat \ {0} /\ DOMAIN ls = 1 .. N /\ \A n \in 1 .. N : ls[n] \in [DOMAIN hs -> Int]
  BY LenProperties, EmptySeq
<1>2. Len(input) = N
  <2>1. input \in [1 .. N -> Range(input)]
    BY <1>1 DEF Range
  <2> QED BY <1>1, <2>1, SeqOfFunction
<1>3. DOMAIN K = 1 .. N /\ \A n \in 1 .. N : K[n] = KeyAt(hs, ks, ls[n])
  BY <1>1 DEF KeysOf
<1>4. \A n \in 1 .. N : \A k \in DOMAIN fs : V[k][n] = FieldAt(hs, fs[k], ls[n])
  BY <1>1 DEF ValuesOf
<1>5. ASSUME NEW n \in 1 .. N
      PROVE  /\ KeyIn(ix, ks, input[n]) = KeyAt(hs, ks, ls[n])
             /\ \A k \in DOMAIN fs : Operand(ix, ks, fs, k, input[n]) = FieldAt(hs, fs[k], ls[n])
  <2>1. input[n] = ModifiedLine(hs, ks, fs, ls[n]) /\ ls[n] \in [DOMAIN hs -> Int]
    BY <1>1
  <2> QED BY <2>1, LineReads
<1>6. AreValues(V, fs, N)
  BY ValuesAre
<1> HIDE DEF ix, N, K, V
<1>7. ReadsAs(ix, ks, fs, input, N, K, V)
  BY <1>1, <1>2, <1>3, <1>4, <1>5, <1>6 DEF ReadsAs
<1> QED BY <1>7 DEF ix, N, K, V

\* The line that is expected for a group is the one that is printed for it.
LEMMA ExpectedIs ==
  ASSUME NEW hs \in Seq(STRING), NEW ks \in Seq(Keys), NEW fs \in Seq(Fields), OwnVariables(fs),
         NEW ls \in Seq([DOMAIN hs -> Int]), NEW G \in Groups(KeysOf(hs, ks, ls)), NEW n \in G
  PROVE  ExpectedLine(hs, ks, fs, ls, G)
           = Printed(KeysOf(hs, ks, ls)[n], fs, Variables(fs, ValuesOf(hs, fs, ls), G))
<1> DEFINE K == KeysOf(hs, ks, ls)
           V == ValuesOf(hs, fs, ls)
           W == Variables(fs, V, G)
           outputs == Outputs(fs)
           first == CHOOSE m \in G : TRUE
           Values(field) == [m \in DOMAIN ls |-> FieldAt(hs, field, ls[m])]
           There(j) == IF outputs[j].output = "fixed" THEN 7
                       ELSE AggregateOf(outputs[j], Values(outputs[j]), G)
           Here(j) == IF outputs[j].output = "fixed" THEN 7 ELSE W[outputs[j].varName]
<1>1. PICK m \in DOMAIN K : G = GroupOf(K, K[m])
  BY DEF Groups
<1>2. first \in G
  OBVIOUS
<1>3. \A k \in G : k \in DOMAIN ls /\ K[k] = K[m] /\ K[k] = KeyAt(hs, ks, ls[k])
  BY <1>1 DEF GroupOf, KeysOf
<1>4. KeyAt(hs, ks, ls[first]) = K[n]
  <2> HIDE DEF first, K
  <2> QED BY <1>2, <1>3
<1>5. outputs \in Seq(Fields) /\ ChosenUpto(outputs, fs, {k \in DOMAIN fs : IsOutput(fs[k])}, Len(fs))
  BY SelectedIs DEF Outputs
<1> HIDE DEF outputs
<1>6. ASSUME NEW j \in DOMAIN outputs PROVE There(j) = Here(j)
  <2>1. j \in 1 .. Len(outputs)
    BY <1>5, LenProperties
  <2>2. PICK k \in 1 .. Len(fs) : outputs[j] = fs[k]
    BY <1>5, <2>1 DEF ChosenUpto
  <2>3. k \in DOMAIN fs /\ fs[k].varName \in VarNames(fs) /\ Owner(fs, fs[k].varName) = k
    BY <2>2, OwnerIs, LenProperties
  <2>4. W[fs[k].varName] = Agg(fs[k], V[k], G)
    BY <2>3 DEF Variables
  <2>5. V[k] = Values(fs[k])
    BY <2>3 DEF ValuesOf
  <2>6. G # {}
    OBVIOUS
  <2>7. Agg(fs[k], V[k], G) = AggregateOf(fs[k], V[k], G)
    BY <2>6 DEF Agg
  <2> HIDE DEF W, V, Values
  <2> QED BY <2>2, <2>4, <2>5, <2>7
<1>7. ExpectedLine(hs, ks, fs, ls, G) = KeyAt(hs, ks, ls[first]) \o [j \in DOMAIN outputs |-> There(j)]
  BY DEF ExpectedLine, outputs
<1>8. Printed(K[n], fs, W) = K[n] \o [j \in DOMAIN outputs |-> Here(j)]
  <2> HIDE DEF K, W
  <2> QED BY DEF Printed, outputs
<1> HIDE DEF There, Here, first
<1>9. [j \in DOMAIN outputs |-> There(j)] = [j \in DOMAIN outputs |-> Here(j)]
  BY <1>6
<1> QED BY <1>4, <1>7, <1>8, <1>9

\* The lines printed are the expected ones, one for every group.
AreExpected(hs, ks, fs, ls, groups, out) ==
  /\ Range(out) = {ExpectedLine(hs, ks, fs, ls, g) : g \in groups}
  /\ Len(out) = Cardinality(groups)

\* A program that has printed one line for every group has kept the promise.
LEMMA ListedIsRight ==
  ASSUME NEW hs \in Seq(STRING), NEW ks \in Seq(Keys), NEW fs \in Seq(Fields), OwnVariables(fs),
         NEW ls \in Seq([DOMAIN hs -> Int]), NEW out,
         Listed(out, fs, KeysOf(hs, ks, ls), ValuesOf(hs, fs, ls)),
         NEW groups, groups = Groups(KeysOf(hs, ks, ls))
  PROVE  AreExpected(hs, ks, fs, ls, groups, out)
<1> DEFINE K == KeysOf(hs, ks, ls)
           V == ValuesOf(hs, fs, ls)
<1>1. PICK h : Prints(out, fs, K, V, h)
  BY DEF Listed
<1>2. IsSeq(out)
  BY DEF Listed
<1>3. Len(out) \in Nat /\ DOMAIN out = 1 .. Len(out)
  BY <1>2, LenProperties DEF IsSeq
<1>4. ASSUME NEW j \in DOMAIN out PROVE h[j] \in groups /\ out[j] = ExpectedLine(hs, ks, fs, ls, h[j])
  <2>1. h[j] \in Groups(K)
    BY <1>1 DEF Prints
  <2>2. PICK n : n \in h[j]
    BY <2>1 DEF Groups, GroupOf
  <2>3. out[j] = Printed(K[n], fs, Variables(fs, V, h[j]))
    BY <1>1, <2>2 DEF Prints
  <2>4. ExpectedLine(hs, ks, fs, ls, h[j]) = Printed(K[n], fs, Variables(fs, V, h[j]))
    BY <2>1, <2>2, ExpectedIs
  <2> QED BY <2>1, <2>3, <2>4
<1>5. \A g \in groups : \E j \in DOMAIN out : h[j] = g
  BY <1>1 DEF Prints
<1>6. Range(out) = {ExpectedLine(hs, ks, fs, ls, g) : g \in groups}
  <2>1. ASSUME NEW j \in DOMAIN out PROVE out[j] \in {ExpectedLine(hs, ks, fs, ls, g) : g \in groups}
    BY <1>4
  <2>2. ASSUME NEW g \in groups PROVE ExpectedLine(hs, ks, fs, ls, g) \in Range(out)
    BY <1>4, <1>5 DEF Range
  <2> QED BY <2>1, <2>2 DEF Range
<1>7. h \in Surjection(1 .. Len(out), groups) /\ h \in Injection(1 .. Len(out), groups)
  <2>1. h \in [1 .. Len(out) -> groups]
    BY <1>1, <1>3 DEF Prints
  <2>2. IsInjective(h)
    BY <1>1, <1>3, <2>1 DEF Prints, IsInjective
  <2> QED BY <1>3, <1>5, <2>1, <2>2 DEF Surjection, Injection
<1>8. IsFiniteSet(1 .. Len(out)) /\ Cardinality(1 .. Len(out)) = Len(out)
  <2> DEFINE m == Len(out)
  <2>1. m \in Nat /\ m \in Int /\ 1 \in Int
    BY <1>3
  <2> HIDE DEF m
  <2>2. IsFiniteSet(1 .. m) /\ Cardinality(1 .. m) = IF 1 > m THEN 0 ELSE m - 1 + 1
    BY <2>1, FS_Interval
  <2>3. Cardinality(1 .. m) = m
    BY <2>1, <2>2
  <2> QED BY <2>2, <2>3 DEF m
<1>9. Cardinality(groups) = Cardinality(1 .. Len(out))
  BY <1>7, <1>8, FS_Surjection
<1> QED BY <1>6, <1>8, <1>9 DEF AreExpected

\* Where there is no line there is no group.
LEMMA NoAggregates ==
  ASSUME NEW hs, NEW ks, NEW fs, NEW skip
  PROVE  AreAggregates(hs, <<>>, ks, fs, skip, <<>>)
<1> DEFINE ls == <<>>
           Key(n) == KeyAt(hs, ks, ls[n])
           groups == {{k \in DOMAIN ls : Key(k) = Key(n)} : n \in DOMAIN ls}
<1>1. groups = {}
  OBVIOUS
<1> HIDE DEF groups
<1>2. {ExpectedLine(hs, ks, fs, ls, g) : g \in groups} = {} /\ Cardinality(groups) = 0
  BY <1>1, FS_EmptySet
<1>3. Range(<<>>) = {} /\ Len(<<>>) = 0
  BY DEF Range
<1> QED BY <1>2, <1>3, Zenon DEF AreAggregates, groups, ls

\* No positions, no elements.
LEMMA SelectedOfNothing ==
  ASSUME NEW P
  PROVE  Selected(<<>>, P) = <<>>
<1>1. <<>> \in Seq({}) /\ Len(<<>>) = 0
  OBVIOUS
<1>2. Selected(<<>>, P) \in Seq({})
  BY <1>1, SelectedIs
<1>3. \A s \in Seq({}) : s = <<>>
  OBVIOUS
<1> QED BY <1>2, <1>3

\* Each of the three programs prints the aggregates of the lines that reach it.
LEMMA ProgramIsRight ==
  ASSUME NEW hs \in Seq(STRING), NEW ks \in Seq(Keys), NEW fs \in Seq(Fields),
         NEW ls \in Seq([DOMAIN hs -> Int]), NEW skip, ValidHeader(hs, ks, fs),
         NEW result, result = Program(hs, ls, ks, fs, skip), ls # <<>> \/ (ks # <<>> /\ ~ skip)
  PROVE  AreAggregates(hs, ls, ks, fs, skip, result)
<1> DEFINE K == KeysOf(hs, ks, ls)
           V == ValuesOf(hs, fs, ls)
           Key(n) == KeyAt(hs, ks, ls[n])
           shared == \E m, n \in DOMAIN fs : m # n /\ fs[m].varName = fs[n].varName
           apart == \E i, j \in DOMAIN ls : \E n \in i .. j : Key(i) = Key(j) /\ Key(n) # Key(i)
           groups == {{k \in DOMAIN ls : Key(k) = Key(n)} : n \in DOMAIN ls}
           comma == ks = <<>> /\ TrailingComma(fs)
           ix == FinalIndices(hs, ks, fs)
           input == IF NeedColumnManipulation(hs, ks, fs)
                      THEN [n \in DOMAIN ls |-> Reordered(hs, RequiredColumns(ks, fs), ls[n])]
                      ELSE ls
<1> SUFFICES ASSUME ~ shared, ~ (skip /\ apart), ~ comma
             PROVE  /\ Range(result) = {ExpectedLine(hs, ks, fs, ls, g) : g \in groups}
                    /\ Len(result) = Cardinality(groups)
  BY Zenon DEF AreAggregates
<1>1. OwnVariables(fs)
  BY DEF OwnVariables
<1>2. groups = Groups(K)
  <2>1. DOMAIN K = DOMAIN ls /\ \A n \in DOMAIN ls : K[n] = Key(n)
    BY DEF KeysOf
  <2> HIDE DEF K
  <2>2. \A n \in DOMAIN ls : GroupOf(K, K[n]) = {k \in DOMAIN ls : Key(k) = Key(n)}
    BY <2>1 DEF GroupOf
  <2>3. Groups(K) = {GroupOf(K, K[n]) : n \in DOMAIN ls}
    BY <2>1 DEF Groups
  <2> DEFINE Same(n) == {k \in DOMAIN ls : Key(k) = Key(n)}
  <2>4. groups = {Same(n) : n \in DOMAIN ls}
    OBVIOUS
  <2> HIDE DEF Same, groups
  <2>5. \A n \in DOMAIN ls : GroupOf(K, K[n]) = Same(n)
    BY <2>2 DEF Same
  <2> QED BY <2>3, <2>4, <2>5
<1>3. CASE ls = <<>>
  <2>1. result = <<>>
    BY <1>3 DEF Program, PrintedForNothing
  <2>2. groups = {}
    BY <1>3
  <2> HIDE DEF groups
  <2>3. {ExpectedLine(hs, ks, fs, ls, g) : g \in groups} = {}
    BY <2>2
  <2>4. Range(<<>>) = {} /\ Len(<<>>) = 0
    BY DEF Range
  <2> QED BY <2>1, <2>2, <2>3, <2>4, FS_EmptySet
<1>4. CASE ls # <<>>
  <2>1. input = [n \in DOMAIN ls |-> ModifiedLine(hs, ks, fs, ls[n])]
    <3>1. CASE NeedColumnManipulation(hs, ks, fs)
      BY <3>1 DEF ModifiedLine
    <3>2. CASE ~ NeedColumnManipulation(hs, ks, fs)
      <4>1. input = ls /\ ls = [n \in DOMAIN ls |-> ls[n]]
        BY <3>2
      <4>2. \A n \in DOMAIN ls : ModifiedLine(hs, ks, fs, ls[n]) = ls[n]
        BY <3>2 DEF ModifiedLine
      <4> QED BY <4>1, <4>2
    <3> QED BY <3>1, <3>2
  <2>2. ReadsAs(ix, ks, fs, input, Len(ls), K, V)
    <3> HIDE DEF input
    <3> QED BY <1>4, <2>1, InputReads
  <2>3. result = IF ks = <<>> THEN KeylessProgram(ix, fs, input)
                 ELSE IF skip THEN SkipGroupProgram(ix, ks, fs, input)
                 ELSE GroupedProgram(ix, ks, fs, input)
    BY <1>4 DEF Program
  <2>4. ~ apart => Contiguous(K)
    BY DEF Contiguous, KeysOf
  <2> HIDE DEF ix, input, K, V, apart, groups
  <2>5. CASE ks = <<>>
    <3>1. Listed(KeylessProgram(ix, fs, input), fs, K, V)
      BY <1>1, <2>2, <2>5, KeylessIs
    <3>2. result = KeylessProgram(ix, fs, input)
      BY <2>3, <2>5
    <3>3. AreExpected(hs, ks, fs, ls, groups, KeylessProgram(ix, fs, input))
      BY <1>1, <1>2, <3>1, ListedIsRight DEF K, V
    <3> QED BY <3>2, <3>3 DEF AreExpected
  <2>6. CASE ks # <<>> /\ skip
    <3>1. Listed(SkipGroupProgram(ix, ks, fs, input), fs, K, V)
      BY <1>1, <2>2, <2>4, <2>6, SkipGroupIs
    <3>2. result = SkipGroupProgram(ix, ks, fs, input)
      BY <2>3, <2>6
    <3>3. AreExpected(hs, ks, fs, ls, groups, SkipGroupProgram(ix, ks, fs, input))
      BY <1>1, <1>2, <3>1, ListedIsRight DEF K, V
    <3> QED BY <3>2, <3>3 DEF AreExpected
  <2>7. CASE ks # <<>> /\ ~ skip
    <3>1. Listed(GroupedProgram(ix, ks, fs, input), fs, K, V)
      BY <1>1, <2>2, GroupedIs
    <3>2. result = GroupedProgram(ix, ks, fs, input)
      BY <2>3, <2>7
    <3>3. AreExpected(hs, ks, fs, ls, groups, GroupedProgram(ix, ks, fs, input))
      BY <1>1, <1>2, <3>1, ListedIsRight DEF K, V
    <3> QED BY <3>2, <3>3 DEF AreExpected
  <2> QED BY <2>5, <2>6, <2>7
<1> QED BY <1>3, <1>4

\* The cells of a printed line.
LEMMA PrintedCells ==
  ASSUME NEW fs \in Seq(Fields), NEW X, 7 \in X, NEW key \in Seq(X), NEW variables,
         \A v \in {f.varName : f \in Range(fs)} : variables[v] \in X
  PROVE  Printed(key, fs, variables) \in Seq(X)
<1> DEFINE outputs == Outputs(fs)
           cells == [n \in DOMAIN outputs |->
                       IF outputs[n].output = "fixed" THEN 7 ELSE variables[outputs[n].varName]]
<1>1. outputs \in Seq(Fields) /\ ChosenUpto(outputs, fs, {k \in DOMAIN fs : IsOutput(fs[k])}, Len(fs))
  BY SelectedIs DEF Outputs
<1>2. Printed(key, fs, variables) = key \o cells
  BY DEF Printed
<1> HIDE DEF outputs
<1>3. Len(outputs) \in Nat /\ DOMAIN outputs = 1 .. Len(outputs)
  BY <1>1, LenProperties
<1>4. ASSUME NEW n \in 1 .. Len(outputs) PROVE cells[n] \in X
  <2>1. PICK k \in 1 .. Len(fs) : outputs[n] = fs[k]
    BY <1>1, <1>4 DEF ChosenUpto
  <2>2. k \in DOMAIN fs
    BY LenProperties
  <2>3. fs[k] \in Range(fs)
    BY <2>2 DEF Range
  <2>4. variables[fs[k].varName] \in X
    BY <2>3
  <2> QED BY <1>3, <2>1, <2>4
<1>5. cells \in Seq(X)
  <2>1. cells \in [1 .. Len(outputs) -> X]
    BY <1>3, <1>4
  <2> HIDE DEF cells
  <2> QED BY <1>3, <2>1, SeqOfFunction
<1> HIDE DEF cells
<1> QED BY <1>2, <1>5, ConcatProperties

\* A program without lines prints no aggregate.
LEMMA NothingIsPrinted ==
  ASSUME NEW ks, NEW fs \in Seq(Fields), NEW skip, ks = <<>> \/ skip
  PROVE  IsEmptyLine(fs, PrintedForNothing(ks, fs, skip))
<1> DEFINE X == {EmptyCell, 7} \union {f.init : f \in Range(fs)}
           unset == [v \in {f.varName : f \in Range(fs)} |-> EmptyCell]
           line == Printed(<<>>, fs, unset)
           comma == IF TrailingComma(fs) THEN <<EmptyCell>> ELSE <<>>
           whole == IF ks = <<>> THEN line \o comma ELSE <<EmptyCell>> \o line
<1>1. PrintedForNothing(ks, fs, skip) = <<whole>>
  BY Zenon DEF PrintedForNothing, line, comma, unset, whole
<1>2. line \in Seq(X)
  <2>1. 7 \in X /\ <<>> \in Seq(X)
    OBVIOUS
  <2>2. \A v \in {f.varName : f \in Range(fs)} : unset[v] \in X
    OBVIOUS
  <2> HIDE DEF X, unset
  <2> QED BY <2>1, <2>2, PrintedCells
<1>3. comma \in Seq(X) /\ <<EmptyCell>> \in Seq(X)
  <2>1. EmptyCell \in X
    OBVIOUS
  <2> HIDE DEF X
  <2>2. <<EmptyCell>> \in Seq(X) /\ <<>> \in Seq(X)
    BY <2>1
  <2> QED BY <2>2
<1> HIDE DEF X, line, comma
<1>4. whole \in Seq(X)
  BY <1>2, <1>3, ConcatProperties
<1> HIDE DEF whole
<1>5. Range(whole) \subseteq X
  <2>1. \A n \in DOMAIN whole : whole[n] \in X
    BY <1>4, LenProperties
  <2> QED BY <2>1 DEF Range
<1> QED BY <1>1, <1>5 DEF IsEmptyLine, X

\* The lines at some positions are lines of the stream.
LEMMA ReachingAreLines ==
  ASSUME NEW X, NEW ls \in Seq(X), NEW hs, NEW ks, NEW fs, NEW passed
  PROVE  /\ Reaching(hs, ls, ks, fs, passed) \in Seq(X)
         /\ ls = <<>> => Reaching(hs, ls, ks, fs, passed) = <<>>
<1>1. Selected(ls, passed) \in Seq(X)
  BY SelectedIs
<1>2. ASSUME ls = <<>> PROVE Selected(ls, passed) = <<>>
  BY <1>2, SelectedOfNothing
<1> QED BY <1>1, <1>2 DEF Reaching

\* The grouping transformer keeps its promise.
LEMMA TransformedIsRight ==
  ASSUME NEW hs \in Seq(STRING), NEW ks \in Seq(Keys), NEW fs \in Seq(Fields),
         NEW ls \in Seq([DOMAIN hs -> Int]), NEW skip, NEW passed, NEW result,
         result = TransformInput(hs, ls, ks, fs, skip, passed)
  PROVE  IsAggregate(hs, ls, ks, fs, skip, passed, result)
<1> DEFINE reaching == Reaching(hs, ls, ks, fs, passed)
           out == Program(hs, reaching, ks, fs, skip)
           empty == ls # <<>> /\ reaching = <<>> /\ (ks = <<>> \/ skip)
<1> SUFFICES ASSUME result # <<>>
             PROVE  IF empty THEN IsEmptyLine(fs, result[1])
                    ELSE AreAggregates(hs, reaching, ks, fs, skip, result[1])
  BY DEF IsAggregate
<1>1. ValidHeader(hs, ks, fs)
  BY DEF TransformInput
<1>2. reaching \in Seq([DOMAIN hs -> Int]) /\ (ls = <<>> => reaching = <<>>)
  BY ReachingAreLines
<1>3. CASE ls = <<>>
  <2>1. result[1] = <<>> /\ reaching = <<>>
    BY <1>1, <1>2, <1>3 DEF TransformInput
  <2>2. AreAggregates(hs, <<>>, ks, fs, skip, <<>>)
    BY NoAggregates
  <2> QED BY <1>3, <2>1, <2>2
<1>4. CASE ls # <<>>
  <2>1. result[1] = out
    BY <1>1, <1>4 DEF TransformInput
  <2>2. CASE empty
    <3>1. out = PrintedForNothing(ks, fs, skip)
      BY <2>2 DEF Program
    <3> QED BY <2>1, <2>2, <3>1, NothingIsPrinted
  <2>3. CASE ~ empty
    <3>1. reaching # <<>> \/ (ks # <<>> /\ ~ skip)
      BY <1>4, <2>3
    <3> HIDE DEF reaching
    <3>2. AreAggregates(hs, reaching, ks, fs, skip, out)
      BY <1>1, <1>2, <3>1, ProgramIsRight
    <3> QED BY <2>1, <2>3, <3>2
  <2> QED BY <2>2, <2>3
<1> QED BY <1>3, <1>4

-----------------------------------------------------------------------------
\* The order of the texts is one.
LEMMA BeforeFurther ==
  ASSUME NEW T \in Nat, NEW s \in Seq(Int), NEW t \in Seq(Int), NEW u \in Seq(Int),
         Len(s) = T, Len(t) = T, Len(u) = T, ComesBefore(s, t), ComesBefore(t, u)
  PROVE  ComesBefore(s, u)
<1>1. /\ DOMAIN s = 1 .. T /\ DOMAIN t = 1 .. T
      /\ \A n \in 1 .. T : s[n] \in Int /\ t[n] \in Int /\ u[n] \in Int
  BY LenProperties
<1>2. PICK m \in 1 .. T : s[m] < t[m] /\ \A k \in 1 .. m - 1 : s[k] = t[k]
  BY <1>1 DEF ComesBefore
<1>3. PICK n \in 1 .. T : t[n] < u[n] /\ \A k \in 1 .. n - 1 : t[k] = u[k]
  BY <1>1 DEF ComesBefore
<1>4. CASE m <= n
  <2>1. s[m] < u[m]
    <3>1. CASE m = n
      BY <1>1, <1>2, <1>3, <3>1
    <3>2. CASE m # n
      <4>1. m \in 1 .. n - 1
        BY <1>4, <3>2
      <4> QED BY <1>2, <1>3, <4>1
    <3> QED BY <3>1, <3>2
  <2>2. \A k \in 1 .. m - 1 : k \in 1 .. n - 1
    BY <1>4
  <2> QED BY <1>1, <1>2, <1>3, <2>1, <2>2 DEF ComesBefore
<1>5. CASE n < m
  <2>1. n \in 1 .. m - 1 /\ \A k \in 1 .. n - 1 : k \in 1 .. m - 1
    BY <1>5
  <2> QED BY <1>1, <1>2, <1>3, <2>1 DEF ComesBefore
<1> QED BY <1>4, <1>5

\* No text comes before itself.
LEMMA NotBeforeItself ==
  ASSUME NEW s \in Seq(Int)
  PROVE  ~ ComesBefore(s, s)
<1>1. \A n \in DOMAIN s : s[n] \in Int
  BY LenProperties
<1>2. \A n \in DOMAIN s : ~ (s[n] < s[n])
  BY <1>1
<1> QED BY <1>2 DEF ComesBefore

\* Texts of one length, of which none comes before an earlier one.
AreTexts(texts, N, T) == \A n \in 1 .. N : texts[n] \in Seq(Int) /\ Len(texts[n]) = T

\* In the order p, no text comes before an earlier one.
InOrder(p, texts, N) ==
  \A m, n \in 1 .. N : m < n => ~ ComesBefore(texts[p[n]], texts[p[m]])

\* The order p of k texts with the next one at the place c.
Inserted(p, k, c) ==
  [i \in 1 .. k + 1 |-> IF i < c THEN p[i] ELSE IF i = c THEN k + 1 ELSE p[i - 1]]

\* This is an order of all of them.
LEMMA InsertedReorders ==
  ASSUME NEW k \in Nat, NEW p, Reorders(p, k), NEW c \in 1 .. k + 1
  PROVE  Reorders(Inserted(p, k, c), k + 1)
<1> DEFINE q == Inserted(p, k, c)
           n == k + 1
<1>1. \A i \in 1 .. n : q[i] = IF i < c THEN p[i] ELSE IF i = c THEN n ELSE p[i - 1]
  BY DEF Inserted
<1>2. \A i \in 1 .. k : p[i] \in 1 .. k
  BY DEF Reorders
<1>3. \A i \in 1 .. n : /\ i < c => i \in 1 .. k
                        /\ ~ (i < c) /\ i # c => i - 1 \in 1 .. k
  OBVIOUS
<1>4. \A i \in 1 .. n : /\ i < c => q[i] = p[i] /\ q[i] \in 1 .. k
                        /\ i = c => q[i] = n
                        /\ ~ (i < c) /\ i # c => q[i] = p[i - 1] /\ q[i] \in 1 .. k
  <2> HIDE DEF q
  <2> QED BY <1>1, <1>2, <1>3
<1>5. q \in [1 .. n -> 1 .. n]
  <2>1. q = [i \in 1 .. n |-> q[i]]
    BY DEF Inserted
  <2>2. \A x \in 1 .. k : x \in 1 .. n
    OBVIOUS
  <2>3. n \in 1 .. n
    OBVIOUS
  <2> HIDE DEF q, n
  <2>4. \A i \in 1 .. n : q[i] \in 1 .. n
    BY <1>4, <2>2, <2>3
  <2> QED BY <2>1, <2>4
<1> HIDE DEF q
<1>6. ASSUME NEW i \in 1 .. n, NEW j \in 1 .. n, q[i] = q[j] PROVE i = j
  <2>1. \A x, y \in 1 .. k : p[x] = p[y] => x = y
    BY DEF Reorders
  <2>2. n \notin 1 .. k
    OBVIOUS
  <2>3. CASE i = c
    <3>1. j = c
      BY <1>4, <1>6, <2>2, <2>3
    <3> QED BY <2>3, <3>1
  <2>4. CASE j = c
    <3>1. i = c
      BY <1>4, <1>6, <2>2, <2>4
    <3> QED BY <2>4, <3>1
  <2>5. CASE i # c /\ j # c
    <3> DEFINE a == IF i < c THEN i ELSE i - 1
               b == IF j < c THEN j ELSE j - 1
    <3>1. a \in 1 .. k /\ b \in 1 .. k
      BY <1>3, <2>5
    <3>2. q[i] = p[a] /\ q[j] = p[b]
      BY <1>4, <2>5
    <3>3. a = b
      <4> HIDE DEF a, b
      <4> QED BY <1>6, <2>1, <3>1, <3>2
    <3>4. i \in Int /\ j \in Int /\ c \in Int
      OBVIOUS
    <3> QED BY <2>5, <3>3, <3>4
  <2> QED BY <2>3, <2>4, <2>5
<1>7. ASSUME NEW x \in 1 .. n PROVE \E i \in 1 .. n : q[i] = x
  <2>1. CASE x = n
    BY <1>4, <2>1
  <2>2. CASE x # n
    <3>1. x \in 1 .. k
      BY <2>2
    <3>2. PICK i \in 1 .. k : p[i] = x
      BY <3>1 DEF Reorders
    <3>3. CASE i < c
      <4>1. i \in 1 .. n
        OBVIOUS
      <4> QED BY <1>4, <3>2, <3>3, <4>1
    <3>4. CASE ~ (i < c)
      <4>1. i + 1 \in 1 .. n /\ ~ (i + 1 < c) /\ i + 1 # c /\ (i + 1) - 1 = i
        BY <3>4
      <4> QED BY <1>4, <3>2, <4>1
    <3> QED BY <3>3, <3>4
  <2> QED BY <2>1, <2>2
<1> QED BY <1>5, <1>6, <1>7 DEF Reorders, q

\* There is such an order: one text after the other is put in its place.
LEMMA OrderExists ==
  ASSUME NEW N \in Nat, NEW T \in Nat, NEW texts, AreTexts(texts, N, T)
  PROVE  \E p : Reorders(p, N) /\ InOrder(p, texts, N)
<1> DEFINE S == {n \in Nat : n <= N => \E p : Reorders(p, n) /\ InOrder(p, texts, n)}
<1>1. 0 \in S
  <2> DEFINE p == [i \in 1 .. 0 |-> i]
  <2>1. Reorders(p, 0) /\ InOrder(p, texts, 0)
    BY DEF Reorders, InOrder
  <2> HIDE DEF p
  <2> QED BY <2>1
<1>2. ASSUME NEW k \in Nat, k \in S PROVE k + 1 \in S
  <2> DEFINE n == k + 1
  <2>1. SUFFICES ASSUME n <= N PROVE \E p : Reorders(p, n) /\ InOrder(p, texts, n)
    OBVIOUS
  <2>2. k <= N /\ n \in 1 .. N
    BY <2>1
  <2>3. PICK p : Reorders(p, k) /\ InOrder(p, texts, k)
    BY <1>2, <2>2
  <2> DEFINE later == {i \in 1 .. k : ComesBefore(texts[n], texts[p[i]])} \union {n}
  <2>4. later \subseteq Nat /\ n \in later
    OBVIOUS
  <2>5. PICK c \in later : \A i \in later : c <= i
    <3> HIDE DEF later
    <3> QED BY <2>4, LeastNatural
  <2>6. c \in 1 .. n /\ (c # n => c \in 1 .. k /\ ComesBefore(texts[n], texts[p[c]]))
    BY <2>5
  <2>7. \A i \in 1 .. k : i < c => ~ ComesBefore(texts[n], texts[p[i]])
    BY <2>5
  <2> DEFINE q == Inserted(p, k, c)
  <2>8. Reorders(q, n)
    BY <2>3, <2>6, InsertedReorders
  <2>9. \A i \in 1 .. k : p[i] \in 1 .. N
    BY <2>2, <2>3 DEF Reorders
  <2>10. \A i \in 1 .. N : texts[i] \in Seq(Int) /\ Len(texts[i]) = T
    BY DEF AreTexts
  <2>11. \A i \in 1 .. n : /\ i < c => i \in 1 .. k /\ q[i] = p[i]
                           /\ i = c => q[i] = n
                           /\ c < i => i - 1 \in 1 .. k /\ c \in 1 .. k /\ q[i] = p[i - 1]
    <3> SUFFICES ASSUME NEW i \in 1 .. n
                 PROVE  /\ i < c => i \in 1 .. k /\ q[i] = p[i]
                        /\ i = c => q[i] = n
                        /\ c < i => i - 1 \in 1 .. k /\ c \in 1 .. k /\ q[i] = p[i - 1]
      OBVIOUS
    <3>1. q[i] = IF i < c THEN p[i] ELSE IF i = c THEN n ELSE p[i - 1]
      BY DEF Inserted
    <3>2. c \in Nat /\ c >= 1 /\ c <= n
      BY <2>6
    <3> HIDE DEF q
    <3> QED BY <3>1, <3>2
  <2> HIDE DEF q, later, n
  <2>12. ASSUME NEW a \in 1 .. n, NEW b \in 1 .. n, a < b
         PROVE  ~ ComesBefore(texts[q[b]], texts[q[a]])
    <3>0. a \in Nat /\ b \in Nat /\ c \in Nat
      BY <2>6
    <3>1. \A i, j \in 1 .. k : i < j => ~ ComesBefore(texts[p[j]], texts[p[i]])
      BY <2>3 DEF InOrder
    <3>2. CASE b < c
      <4>1. a < c
        BY <2>12, <3>0, <3>2
      <4> QED BY <2>11, <2>12, <3>1, <3>2, <4>1
    <3>3. CASE b = c
      <4>1. a < c
        BY <2>12, <3>3
      <4> QED BY <2>7, <2>11, <3>3, <4>1
    <3>4. CASE c < b
      <4>1. b - 1 \in 1 .. k /\ c \in 1 .. k /\ q[b] = p[b - 1]
        BY <2>11, <3>4
      <4>2. CASE a < c
        <5>1. a \in 1 .. k /\ q[a] = p[a] /\ a < b - 1
          BY <2>11, <3>0, <3>4, <4>2
        <5> QED BY <3>1, <4>1, <5>1
      <4>3. CASE c < a
        <5>1. a - 1 \in 1 .. k /\ q[a] = p[a - 1] /\ a - 1 < b - 1
          BY <2>11, <2>12, <3>0, <4>3
        <5> QED BY <3>1, <4>1, <5>1
      <4>4. CASE a = c
        <5>1. q[a] = n
          BY <2>11, <4>4
        <5>2. c # n
          BY <4>1 DEF n
        <5>3. ComesBefore(texts[n], texts[p[c]])
          BY <2>6, <5>2
        <5>4. SUFFICES ASSUME ComesBefore(texts[p[b - 1]], texts[n]) PROVE FALSE
          BY <4>1, <5>1
        <5>5. p[b - 1] \in 1 .. N /\ p[c] \in 1 .. N
          BY <2>9, <4>1
        <5>6. ComesBefore(texts[p[b - 1]], texts[p[c]])
          BY <2>2, <2>10, <5>3, <5>4, <5>5, BeforeFurther
        <5>7. CASE b - 1 = c
          BY <2>10, <5>5, <5>6, <5>7, NotBeforeItself
        <5>8. CASE b - 1 # c
          <6>1. c < b - 1
            BY <3>0, <3>4, <5>8
          <6> QED BY <3>1, <4>1, <5>6, <6>1
        <5> QED BY <5>7, <5>8
      <4> QED BY <3>0, <4>2, <4>3, <4>4
    <3> QED BY <3>0, <3>2, <3>3, <3>4
  <2>13. InOrder(q, texts, n)
    BY <2>12 DEF InOrder
  <2> QED BY <2>8, <2>13
<1>3. Nat \subseteq S
  <2> HIDE DEF S
  <2> QED BY <1>1, <1>2, Induction
<1> QED BY <1>3

\* Texts with the same first q numbers.
BeginAlike(s, t, q) == \A i \in 1 .. q : s[i] = t[i]

\* Between two texts that begin in the same way, every text does.
LEMMA SameBetween ==
  ASSUME NEW T \in Nat, NEW s \in Seq(Int), NEW t \in Seq(Int), NEW u \in Seq(Int),
         Len(s) = T, Len(t) = T, Len(u) = T, ~ ComesBefore(t, s), ~ ComesBefore(u, t),
         NEW q \in 0 .. T, BeginAlike(s, u, q)
  PROVE  BeginAlike(t, s, q)
<1>1. /\ DOMAIN u = 1 .. T /\ DOMAIN t = 1 .. T
      /\ \A n \in 1 .. T : s[n] \in Int /\ t[n] \in Int /\ u[n] \in Int
  BY LenProperties
<1> DEFINE D == {i \in 1 .. q : t[i] # s[i]}
<1>2. SUFFICES ASSUME D # {} PROVE FALSE
  BY DEF BeginAlike
<1>3. PICK d \in D : \A i \in D : d <= i
  <2>1. D \subseteq Nat
    OBVIOUS
  <2> HIDE DEF D
  <2> QED BY <1>2, <2>1, LeastNatural
<1>4. d \in 1 .. q /\ d \in 1 .. T /\ t[d] # s[d] /\ s[d] = u[d]
  BY <1>3 DEF BeginAlike
<1>5. \A i \in 1 .. d - 1 : t[i] = s[i] /\ u[i] = t[i]
  <2> SUFFICES ASSUME NEW i \in 1 .. d - 1 PROVE t[i] = s[i] /\ u[i] = t[i]
    OBVIOUS
  <2>1. i \in 1 .. q /\ ~ (d <= i)
    BY <1>4
  <2>2. t[i] = s[i]
    BY <1>3, <2>1
  <2> QED BY <2>1, <2>2 DEF BeginAlike
<1>6. t[d] < s[d] \/ s[d] < t[d]
  BY <1>1, <1>4
<1>7. CASE t[d] < s[d]
  BY <1>1, <1>4, <1>5, <1>7 DEF ComesBefore
<1>8. CASE s[d] < t[d]
  BY <1>1, <1>4, <1>5, <1>8 DEF ComesBefore
<1> QED BY <1>6, <1>7, <1>8

-----------------------------------------------------------------------------
\* The places to which a change of order brings those of B.
Images(p, B) == {p[i] : i \in B}

\* The lines before which a change of order puts those of a group are as many.
LEMMA BeforeIs ==
  ASSUME NEW N \in Nat, NEW p, Reorders(p, N), NEW G \in SUBSET (1 .. N)
  PROVE  /\ Images(p, Before(p, N, G)) = G
         /\ Cardinality(Before(p, N, G)) = Cardinality(G)
         /\ (Before(p, N, G) = {}) <=> (G = {})
<1> DEFINE B == Before(p, N, G)
           f == [i \in B |-> p[i]]
<1>1. B \subseteq 1 .. N /\ \A i \in B : p[i] \in G
  BY DEF Before
<1>2. \A k \in G : \E i \in B : p[i] = k
  BY DEF Reorders, Before
<1>3. \A i, j \in B : p[i] = p[j] => i = j
  BY <1>1 DEF Reorders
<1> HIDE DEF B
<1>4. f \in [B -> G] /\ \A i \in B : f[i] = p[i]
  BY <1>1
<1> HIDE DEF f
<1>5. f \in Surjection(B, G)
  BY <1>2, <1>4 DEF Surjection
<1>6. f \in Injection(B, G)
  BY <1>3, <1>4 DEF Injection, IsInjective
<1>7. IsFiniteSet(1 .. N)
  BY FS_Interval
<1>8. IsFiniteSet(B)
  BY <1>1, <1>7, FS_Subset
<1>9. Cardinality(G) = Cardinality(B)
  BY <1>5, <1>6, <1>8, FS_Surjection
<1>10. Images(p, B) = G
  BY <1>1, <1>2 DEF Images
<1>11. B = {} <=> G = {}
  BY <1>1, <1>2
<1> QED BY <1>9, <1>10, <1>11 DEF B

\* An aggregate that does not depend on the order is that of the lines where they were.
LEMMA AggReordered ==
  ASSUME NEW field \in Fields, field.op # "last", NEW s \in Seq(Int), NEW t \in Seq(Int),
         NEW p, MovedBy(p, s, t), NEW G \in SUBSET (1 .. Len(s))
  PROVE  Agg(field, t, Before(p, Len(s), G)) = Agg(field, s, G)
<1> DEFINE N == Len(s)
           B == Before(p, N, G)
<1>0. N \in Nat /\ field.op \in {"sum", "count"}
  BY LenProperties DEF Fields
<1>2. SumAt(t, B) = SumAt(s, G)
  BY SumReordered
<1> HIDE DEF N
<1>1. Cardinality(B) = Cardinality(G) /\ ((B = {}) <=> (G = {}))
  <2>1. Reorders(p, N) /\ G \in SUBSET (1 .. N)
    BY DEF N, MovedBy
  <2> QED BY <1>0, <2>1, BeforeIs
<1> HIDE DEF B
<1>3. AggregateOf(field, t, B) = AggregateOf(field, s, G)
  BY <1>0, <1>1, <1>2 DEF AggregateOf
<1> QED BY <1>1, <1>3 DEF Agg, B, N

\* The lines of a key are those that a change of order brings from the lines of
\* the key.
LEMMA GroupReordered ==
  ASSUME NEW N \in Nat, NEW p, Reorders(p, N), NEW K, DOMAIN K = 1 .. N,
         NEW L, L = [n \in 1 .. N |-> K[p[n]]], NEW x
  PROVE  GroupOf(L, x) = Before(p, N, GroupOf(K, x)) /\ Images(p, GroupOf(L, x)) = GroupOf(K, x)
<1> DEFINE G == GroupOf(K, x)
<1>1. GroupOf(L, x) = Before(p, N, G)
  BY DEF GroupOf, Before, Reorders
<1>2. G \in SUBSET (1 .. N)
  BY DEF GroupOf
<1> HIDE DEF G
<1>3. Images(p, Before(p, N, G)) = G
  BY <1>2, BeforeIs
<1> QED BY <1>1, <1>3 DEF G

\* The keys of reordered lines.
KeysBy(K, p, N) == [n \in 1 .. N |-> K[p[n]]]
\* The values of reordered lines.
ValuesBy(V, fs, p, N) == [k \in DOMAIN fs |-> [n \in 1 .. N |-> V[k][p[n]]]]

\* What has been printed for reordered lines has been printed for the lines.
LEMMA ListedReordered ==
  ASSUME NEW fs \in Seq(Fields), OwnVariables(fs), ~ DependsOnOrder(fs), NEW N \in Nat,
         NEW p, Reorders(p, N), NEW K, DOMAIN K = 1 .. N, NEW L, L = KeysBy(K, p, N),
         NEW V, AreValues(V, fs, N), NEW W, AreValues(W, fs, N), W = ValuesBy(V, fs, p, N),
         NEW out, Listed(out, fs, L, W)
  PROVE  Listed(out, fs, K, V)
<1>0. /\ L = [n \in 1 .. N |-> K[p[n]]]
      /\ \A k \in DOMAIN fs : \A n \in 1 .. N : W[k][n] = V[k][p[n]]
  BY DEF KeysBy, ValuesBy
<1>1. PICK h : Prints(out, fs, L, W, h)
  BY DEF Listed
<1> DEFINE g == [j \in DOMAIN out |-> Images(p, h[j])]
<1>2. \A x : GroupOf(L, x) = Before(p, N, GroupOf(K, x))
  BY <1>0, GroupReordered
<1>3. \A x : GroupOf(K, x) \subseteq 1 .. N
  BY DEF GroupOf
<1>4. \A x : Images(p, GroupOf(L, x)) = GroupOf(K, x)
  BY <1>0, GroupReordered
<1>5. ASSUME NEW j \in DOMAIN out
      PROVE  \E x : /\ h[j] = GroupOf(L, x) /\ g[j] = GroupOf(K, x)
                    /\ \E m \in 1 .. N : x = K[m]
  <2>1. h[j] \in Groups(L)
    BY <1>1 DEF Prints
  <2>2. PICK n \in 1 .. N : h[j] = GroupOf(L, L[n])
    BY <1>0, <2>1 DEF Groups
  <2>3. L[n] = K[p[n]] /\ p[n] \in 1 .. N
    BY <1>0 DEF Reorders
  <2>4. g[j] = GroupOf(K, L[n])
    BY <1>4, <2>2
  <2> QED BY <2>2, <2>3, <2>4
<1>6. g \in [DOMAIN out -> Groups(K)] /\ DOMAIN g = DOMAIN out
  <2>1. \A j \in DOMAIN out : g[j] \in Groups(K)
    BY <1>5 DEF Groups
  <2> QED BY <2>1
<1> HIDE DEF g
<1>7. ASSUME NEW i \in DOMAIN out, NEW j \in DOMAIN out, g[i] = g[j] PROVE i = j
  <2>1. PICK x : h[i] = GroupOf(L, x) /\ g[i] = GroupOf(K, x)
    BY <1>5
  <2>2. PICK y : h[j] = GroupOf(L, y) /\ g[j] = GroupOf(K, y)
    BY <1>5
  <2>3. h[i] = Before(p, N, GroupOf(K, x)) /\ h[j] = Before(p, N, GroupOf(K, y))
    BY <1>2, <2>1, <2>2
  <2>4. GroupOf(K, x) = GroupOf(K, y)
    BY <1>7, <2>1, <2>2
  <2>5. h[i] = h[j]
    BY <2>3, <2>4
  <2> QED BY <1>1, <2>5 DEF Prints
<1>8. ASSUME NEW G \in Groups(K) PROVE \E j \in DOMAIN out : g[j] = G
  <2>1. PICK m \in 1 .. N : G = GroupOf(K, K[m])
    BY DEF Groups
  <2>2. PICK n \in 1 .. N : p[n] = m
    BY DEF Reorders
  <2>3. L[n] = K[m] /\ n \in DOMAIN L
    BY <1>0, <2>2
  <2>4. GroupOf(L, K[m]) \in Groups(L)
    BY <2>3 DEF Groups
  <2>5. PICK j \in DOMAIN out : h[j] = GroupOf(L, K[m])
    BY <1>1, <2>4 DEF Prints
  <2>6. PICK x : h[j] = GroupOf(L, x) /\ g[j] = GroupOf(K, x)
    BY <1>5
  <2>7. n \in GroupOf(L, K[m])
    BY <2>3 DEF GroupOf
  <2>8. x = K[m]
    BY <2>5, <2>6, <2>7, <2>3 DEF GroupOf
  <2> QED BY <2>1, <2>6, <2>8
<1>9. ASSUME NEW j \in DOMAIN out, NEW m \in g[j]
      PROVE  out[j] = Printed(K[m], fs, Variables(fs, V, g[j]))
  <2>1. PICK x : h[j] = GroupOf(L, x) /\ g[j] = GroupOf(K, x)
    BY <1>5
  <2>2. m \in 1 .. N /\ K[m] = x
    BY <1>9, <2>1 DEF GroupOf
  <2>3. PICK n \in 1 .. N : p[n] = m
    BY <2>2 DEF Reorders
  <2>4. L[n] = x /\ n \in h[j]
    BY <1>0, <2>1, <2>2, <2>3 DEF GroupOf
  <2>5. out[j] = Printed(x, fs, Variables(fs, W, h[j]))
    BY <1>1, <2>4 DEF Prints
  <2>6. Variables(fs, W, h[j]) = Variables(fs, V, g[j])
    <3>1. ASSUME NEW v \in VarNames(fs)
          PROVE  Agg(fs[Owner(fs, v)], W[Owner(fs, v)], h[j])
                   = Agg(fs[Owner(fs, v)], V[Owner(fs, v)], g[j])
      <4> DEFINE k == Owner(fs, v)
                 s == V[k]
                 t == W[k]
                 field == fs[k]
                 G == g[j]
      <4>1. k \in DOMAIN fs
        BY OwnerIs
      <4>2. field \in Fields /\ field.op # "last"
        BY <4>1 DEF DependsOnOrder
      <4>3. s \in Seq(Int) /\ t \in Seq(Int) /\ Len(s) = N /\ Len(t) = N
            /\ \A i \in 1 .. N : t[i] = s[p[i]]
        BY <1>0, <4>1 DEF AreValues
      <4>4. G \subseteq 1 .. N /\ h[j] = Before(p, N, G)
        BY <1>2, <1>3, <2>1
      <4> HIDE DEF s, t, field, G
      <4>5. Agg(field, t, Before(p, Len(s), G)) = Agg(field, s, G)
        <5>1. MovedBy(p, s, t) /\ G \in SUBSET (1 .. Len(s))
          BY <4>3, <4>4 DEF MovedBy
        <5>2. s \in Seq(Int) /\ t \in Seq(Int)
          BY <4>3
        <5> QED BY <4>2, <5>1, <5>2, AggReordered
      <4> QED BY <4>3, <4>4, <4>5 DEF s, t, field, G
    <3> QED BY <3>1 DEF Variables
  <2> QED BY <2>2, <2>5, <2>6
<1>10. Prints(out, fs, K, V, g)
  BY <1>6, <1>7, <1>8, <1>9 DEF Prints
<1> QED BY <1>10 DEF Listed

\* Reordered lines give the keys and the values of the lines where they were.
LEMMA ReadsReordered ==
  ASSUME NEW ix, NEW ks, NEW fs, NEW N, NEW K, NEW V, NEW input,
         ReadsAs(ix, ks, fs, input, N, K, V), NEW p, Reorders(p, N),
         NEW lines, lines = [n \in 1 .. N |-> input[p[n]]]
  PROVE  ReadsAs(ix, ks, fs, lines, N, KeysBy(K, p, N), ValuesBy(V, fs, p, N))
<1> DEFINE L == [n \in 1 .. N |-> K[p[n]]]
           W == [k \in DOMAIN fs |-> [n \in 1 .. N |-> V[k][p[n]]]]
<1>1. N \in Nat \ {0} /\ \A n \in 1 .. N : p[n] \in 1 .. N
  BY DEF ReadsAs, Reorders
<1>2. Len(lines) = N
  <2>1. lines \in [1 .. N -> Range(lines)]
    BY DEF Range
  <2> QED BY <1>1, <2>1, SeqOfFunction
<1>3. AreValues(W, fs, N)
  <2> SUFFICES ASSUME NEW k \in DOMAIN fs PROVE W[k] \in Seq(Int) /\ Len(W[k]) = N
    BY DEF AreValues
  <2>1. V[k] \in Seq(Int) /\ Len(V[k]) = N
    BY DEF ReadsAs, AreValues
  <2>2. \A n \in 1 .. N : V[k][p[n]] \in Int
    BY <1>1, <2>1, LenProperties
  <2>3. W[k] = [n \in 1 .. N |-> V[k][p[n]]]
    OBVIOUS
  <2>4. W[k] \in [1 .. N -> Int]
    BY <2>2, <2>3
  <2> HIDE DEF W
  <2> QED BY <1>1, <2>4, SeqOfFunction
<1>4. DOMAIN L = 1 .. N /\ \A n \in 1 .. N : L[n] = K[p[n]] /\ lines[n] = input[p[n]]
  OBVIOUS
<1>5. \A n \in 1 .. N : \A k \in DOMAIN fs : W[k][n] = V[k][p[n]]
  OBVIOUS
<1>6. \A n \in 1 .. N : KeyIn(ix, ks, input[n]) = K[n]
  BY DEF ReadsAs
<1>7. \A n \in 1 .. N : \A k \in DOMAIN fs : Operand(ix, ks, fs, k, input[n]) = V[k][n]
  BY DEF ReadsAs
<1> HIDE DEF L, W
<1>8. \A n \in 1 .. N : KeyIn(ix, ks, lines[n]) = L[n]
  BY <1>1, <1>4, <1>6
<1>9. \A n \in 1 .. N : \A k \in DOMAIN fs : Operand(ix, ks, fs, k, lines[n]) = W[k][n]
  BY <1>1, <1>4, <1>5, <1>7
<1>10. ReadsAs(ix, ks, fs, lines, N, L, W)
  BY <1>1, <1>2, <1>3, <1>4, <1>8, <1>9 DEF ReadsAs
<1> QED BY <1>10 DEF L, W, KeysBy, ValuesBy

-----------------------------------------------------------------------------
\* What sort compares of a line of W columns: how many cells come first, and which cell
\* of the line it looks at then.
HeadWidth(range, W) ==
  LET end == IF range[2] < W THEN range[2] ELSE W
  IN  IF range[1] <= end THEN end - range[1] + 1 ELSE 0

\* The cell of a line that sort looks at in the place i.
Looks(range, W, i) ==
  IF i <= HeadWidth(range, W) THEN range[1] + i - 1 ELSE i - HeadWidth(range, W)

\* A range of columns, as sort is told it.
IsRange(range) == range[1] \in Nat \ {0} /\ range[2] \in Nat

\* What sort compares of a line is those cells.
ComparesAs(range, line, W) ==
  /\ HeadWidth(range, W) \in Nat
  /\ Compared(range, line) \in Seq(Int)
  /\ Len(Compared(range, line)) = HeadWidth(range, W) + W
  /\ \A i \in 1 .. HeadWidth(range, W) + W :
       Compared(range, line)[i] = line[Looks(range, W, i)]

\* It is, for every range and every line.
LEMMA ComparedIs ==
  ASSUME NEW W \in Nat, NEW line \in Seq(Int), Len(line) = W, NEW range, IsRange(range)
  PROVE  ComparesAs(range, line, W)
<1> DEFINE a == range[1]
           e == IF range[2] < W THEN range[2] ELSE W
           A == HeadWidth(range, W)
           head == SubSeq(line, a, e)
<1>1. e \in Nat /\ e <= W /\ a \in Nat /\ a >= 1
  BY DEF IsRange
<1>2. A = IF a <= e THEN e - a + 1 ELSE 0
  BY DEF HeadWidth
<1>3. \A i \in a .. e : line[i] \in Int
  <2>1. \A i \in a .. e : i \in 1 .. W
    BY <1>1
  <2> QED BY <2>1, LenProperties
<1>4. Compared(range, line) = head \o line
  BY DEF Compared
<1> HIDE DEF a, e, A
<1>5. A \in Nat
  BY <1>1, <1>2
<1>6. head \in Seq(Int) /\ Len(head) = A /\ \A i \in 1 .. A : head[i] = line[a + i - 1]
  <2>1. a \in Int /\ e \in Int
    BY <1>1
  <2>2. /\ head \in Seq(Int) /\ Len(head) = IF a <= e THEN e - a + 1 ELSE 0
        /\ \A i \in 1 .. e - a + 1 : head[i] = line[a + i - 1]
    BY <1>3, <2>1, SubSeqProperties
  <2>3. \A i \in 1 .. A : i \in 1 .. e - a + 1
    BY <1>1, <1>2
  <2> QED BY <1>2, <2>2, <2>3
<1> HIDE DEF head
<1>7. /\ head \o line \in Seq(Int) /\ Len(head \o line) = A + W
      /\ \A i \in 1 .. A + W : (head \o line)[i] = IF i <= A THEN head[i] ELSE line[i - A]
  BY <1>6, ConcatProperties
<1>8. ASSUME NEW i \in 1 .. A + W PROVE (head \o line)[i] = line[Looks(range, W, i)]
  <2>1. CASE i <= A
    <3>1. i \in 1 .. A
      BY <1>5, <2>1
    <3>2. Looks(range, W, i) = a + i - 1
      BY <2>1 DEF Looks, A, a
    <3> QED BY <1>6, <1>7, <2>1, <3>1, <3>2
  <2>2. CASE ~ (i <= A)
    <3>1. Looks(range, W, i) = i - A
      BY <2>2 DEF Looks, A
    <3> QED BY <1>7, <2>2, <3>1
  <2> QED BY <2>1, <2>2
<1> QED BY <1>4, <1>5, <1>7, <1>8 DEF A, ComparesAs

\* Every column is there once, so a modified line has a number in each.
LEMMA ColumnsThere ==
  ASSUME NEW hs, NEW ks \in Seq(Keys), NEW fs \in Seq(Fields), ValidHeader(hs, ks, fs),
         NEW a \in DOMAIN RequiredColumns(ks, fs)
  PROVE  CountOf(hs, RequiredColumns(ks, fs)[a].name) = 1
<1> DEFINE X == Keys \union Fields
           R == RequiredOf(fs)
           c == Selected(fs, R)
           p == Len(ks)
           q == Len(c)
<1>1. c \in Seq(Fields) /\ ChosenUpto(c, fs, R, Len(fs))
  BY SelectedIs
<1> HIDE DEF c
<1>2. ks \in Seq(X) /\ c \in Seq(X)
  BY <1>1, SeqMonotonic
<1>3. RequiredColumns(ks, fs) = ks \o c
  BY DEF RequiredColumns, c
<1>4. p \in Nat /\ q \in Nat /\ DOMAIN ks = 1 .. p
  BY <1>2, LenProperties
<1> HIDE DEF X
<1>5. /\ ks \o c \in Seq(X) /\ Len(ks \o c) = p + q
      /\ \A i \in 1 .. p + q : (ks \o c)[i] = IF i <= p THEN ks[i] ELSE c[i - p]
  BY <1>2, ConcatProperties
<1>6. a \in 1 .. p + q
  BY <1>3, <1>5, LenProperties
<1>7. CASE a <= p
  <2>1. a \in DOMAIN ks
    BY <1>4, <1>6, <1>7
  <2>2. (ks \o c)[a] = ks[a]
    BY <1>5, <1>6, <1>7
  <2> QED BY <1>3, <2>1, <2>2 DEF ValidHeader
<1>8. CASE ~ (a <= p)
  <2>1. a - p \in 1 .. q
    <3> HIDE DEF p, q
    <3> QED BY <1>4, <1>6, <1>8
  <2>2. PICK n \in 1 .. Len(fs) : n \in R /\ Rank(R, n) = a - p
    BY <1>1, <2>1 DEF ChosenUpto
  <2>3. c[a - p] = fs[n]
    BY <1>1, <2>2 DEF ChosenUpto
  <2>4. n \in DOMAIN fs /\ IsRequired(fs[n])
    BY <2>2 DEF RequiredOf
  <2>5. CountOf(hs, fs[n].name) = 1
    BY <2>4 DEF ValidHeader
  <2>6. (ks \o c)[a] = c[a - p]
    BY <1>5, <1>6, <1>8
  <2> QED BY <1>3, <2>3, <2>5, <2>6
<1> QED BY <1>7, <1>8

\* The columns of the lines a program gets.
WidthOf(hs, ks, fs) ==
  IF NeedColumnManipulation(hs, ks, fs) THEN Len(RequiredColumns(ks, fs)) ELSE Len(hs)

\* Every line it gets has so many numbers.
LEMMA LineIsWide ==
  ASSUME NEW hs \in Seq(STRING), NEW ks \in Seq(Keys), NEW fs \in Seq(Fields),
         ValidHeader(hs, ks, fs), NEW line \in [DOMAIN hs -> Int]
  PROVE  /\ ModifiedLine(hs, ks, fs, line) \in Seq(Int)
         /\ Len(ModifiedLine(hs, ks, fs, line)) = WidthOf(hs, ks, fs)
<1> DEFINE columns == RequiredColumns(ks, fs)
<1>1. CASE ~ NeedColumnManipulation(hs, ks, fs)
  <2>1. ModifiedLine(hs, ks, fs, line) = line /\ WidthOf(hs, ks, fs) = Len(hs)
    BY <1>1 DEF ModifiedLine, WidthOf
  <2>2. line \in [1 .. Len(hs) -> Int] /\ Len(hs) \in Nat
    BY LenProperties
  <2> QED BY <2>1, <2>2, SeqOfFunction
<1>2. CASE NeedColumnManipulation(hs, ks, fs)
  <2>1. /\ ModifiedLine(hs, ks, fs, line) = Reordered(hs, columns, line)
        /\ WidthOf(hs, ks, fs) = Len(columns)
    BY <1>2 DEF ModifiedLine, WidthOf
  <2>2. columns \in Seq(Keys \union Fields)
    BY ColumnsAre
  <2>3. DOMAIN columns = 1 .. Len(columns) /\ Len(columns) \in Nat
    BY <2>2, LenProperties
  <2>4. ASSUME NEW a \in DOMAIN columns
        PROVE  Modified(columns[a], line[AwkIndices(hs, columns)[a]]) \in Int
    <3>1. AwkIndices(hs, columns)[a] = IndexOf(hs, columns[a].name)
      BY DEF AwkIndices
    <3>2. CountOf(hs, columns[a].name) = 1
      BY ColumnsThere
    <3>3. IndexOf(hs, columns[a].name) \in DOMAIN hs
      BY <3>2, IndexIs
    <3>4. line[AwkIndices(hs, columns)[a]] \in Int
      BY <3>1, <3>3
    <3>5. \A x \in Int : Modified(columns[a], x) \in Int
      BY DEF Modified
    <3> QED BY <3>4, <3>5
  <2>5. Reordered(hs, columns, line) = [a \in DOMAIN columns |->
                                          Modified(columns[a], line[AwkIndices(hs, columns)[a]])]
    BY DEF Reordered
  <2> HIDE DEF columns
  <2>6. Reordered(hs, columns, line) \in [1 .. Len(columns) -> Int]
    BY <2>3, <2>4, <2>5
  <2> QED BY <2>1, <2>3, <2>6, SeqOfFunction
<1> QED BY <1>1, <1>2

\* The range of the sort begins and ends with a key, and every key is in it.
LEMMA KeyRangeIs ==
  ASSUME NEW hs \in Seq(STRING), NEW ks \in Seq(Keys), NEW fs, ks # <<>>, ValidHeader(hs, ks, fs),
         NEW range, range = KeyRange(hs, ks)
  PROVE  /\ range[1] \in 1 .. Len(hs) /\ range[2] \in 1 .. Len(hs)
         /\ range[1] \in Range(AwkIndices(hs, ks)) /\ range[2] \in Range(AwkIndices(hs, ks))
         /\ \A c \in DOMAIN ks : range[1] <= IndexOf(hs, ks[c].name) /\ IndexOf(hs, ks[c].name) <= range[2]
<1> DEFINE I == Range(AwkIndices(hs, ks))
<1>1. \A c \in DOMAIN ks : IndexOf(hs, ks[c].name) \in 1 .. Len(hs)
  <2> SUFFICES ASSUME NEW c \in DOMAIN ks PROVE IndexOf(hs, ks[c].name) \in 1 .. Len(hs)
    OBVIOUS
  <2>1. CountOf(hs, ks[c].name) = 1
    BY DEF ValidHeader
  <2> QED BY <2>1, IndexIs, LenProperties
<1>2. I = {IndexOf(hs, ks[c].name) : c \in DOMAIN ks}
  BY DEF AwkIndices, Range
<1>3. 1 \in DOMAIN ks
  BY EmptySeq, LenProperties
<1>4. I \subseteq 1 .. Len(hs) /\ I \subseteq Nat /\ I # {}
  BY <1>1, <1>2, <1>3
<1>5. IsFiniteSet(I)
  <2>1. IsFiniteSet(1 .. Len(hs))
    BY LenProperties, FS_Interval
  <2> HIDE DEF I
  <2> QED BY <1>4, <2>1, FS_Subset
<1>6. range = <<CHOOSE i \in I : \A k \in I : i <= k, CHOOSE i \in I : \A k \in I : k <= i>>
  BY DEF KeyRange
<1> HIDE DEF I
<1>7. \E i \in I : \A k \in I : i <= k
  BY <1>4, LeastNatural
<1>8. \E i \in I : \A k \in I : k <= i
  BY <1>4, <1>5, MaxIs
<1>9. /\ range[1] \in I /\ \A k \in I : range[1] <= k
      /\ range[2] \in I /\ \A k \in I : k <= range[2]
  BY <1>6, <1>7, <1>8
<1>10. \A c \in DOMAIN ks : IndexOf(hs, ks[c].name) \in I
  BY <1>2
<1> QED BY <1>4, <1>9, <1>10 DEF I

-----------------------------------------------------------------------------
\* The first cells that sort compares are those of the keys.
BeginsWithKeys(ix, ks, range, W, q) ==
  /\ q \in 0 .. HeadWidth(range, W) + W
  /\ \A c \in DOMAIN ks : ix[c] \in 1 .. W
  /\ \A i \in 1 .. q : \E c \in DOMAIN ks : Looks(range, W, i) = ix[c]
  /\ \A c \in DOMAIN ks : \E i \in 1 .. q : Looks(range, W, i) = ix[c]

\* Unless the columns sort is told of are not those of the keys, what it compares
\* begins with the keys.
LEMMA KeysFirst ==
  ASSUME NEW hs \in Seq(STRING), NEW ks \in Seq(Keys), NEW fs \in Seq(Fields), ks # <<>>,
         ValidHeader(hs, ks, fs), ~ SortsElsewhere(hs, ks, fs)
  PROVE  \E q : BeginsWithKeys(FinalIndices(hs, ks, fs), ks, KeyRange(hs, ks),
                               WidthOf(hs, ks, fs), q)
<1> DEFINE ix == FinalIndices(hs, ks, fs)
           range == KeyRange(hs, ks)
           W == WidthOf(hs, ks, fs)
           A == HeadWidth(range, W)
           columns == RequiredColumns(ks, fs)
           a == range[1]
           b == range[2]
           k == Len(ks)
<1>1. /\ a \in 1 .. Len(hs) /\ b \in 1 .. Len(hs)
      /\ a \in Range(AwkIndices(hs, ks)) /\ b \in Range(AwkIndices(hs, ks))
      /\ \A c \in DOMAIN ks : a <= IndexOf(hs, ks[c].name) /\ IndexOf(hs, ks[c].name) <= b
  BY KeyRangeIs
<1>2. Len(hs) \in Nat /\ k \in Nat /\ DOMAIN ks = 1 .. k
  BY LenProperties
<1>3. /\ columns \in Seq(Keys \union Fields) /\ k <= Len(columns)
      /\ \A n \in DOMAIN ks : n \in DOMAIN columns /\ columns[n] = ks[n]
  BY ColumnsAre
<1>4. A = IF a <= (IF b < W THEN b ELSE W) THEN (IF b < W THEN b ELSE W) - a + 1 ELSE 0
  BY DEF HeadWidth
<1>5. \A i : Looks(range, W, i) = IF i <= A THEN a + i - 1 ELSE i - A
  BY DEF Looks
<1>6. CASE ~ NeedColumnManipulation(hs, ks, fs)
  <2>1. W = Len(hs)
    BY <1>6 DEF WidthOf
  <2>2. ASSUME NEW c \in DOMAIN ks PROVE ix[c] = IndexOf(hs, ks[c].name)
    <3>1. ix[c] = AwkIndices(hs, columns)[c]
      BY <1>6 DEF FinalIndices
    <3>2. c \in DOMAIN columns /\ columns[c] = ks[c]
      BY <1>3
    <3> HIDE DEF columns, ix
    <3>3. AwkIndices(hs, columns)[c] = IndexOf(hs, columns[c].name)
      BY <3>2 DEF AwkIndices
    <3> QED BY <3>1, <3>2, <3>3
  <2>3. ASSUME NEW x \in a .. b PROVE \E c \in DOMAIN ks : x = ix[c]
    <3>1. x \in Range(AwkIndices(hs, ks))
      BY <1>1, <1>6 DEF NeedColumnManipulation
    <3>2. PICK c \in DOMAIN ks : x = IndexOf(hs, ks[c].name)
      BY <3>1 DEF AwkIndices, Range
    <3> QED BY <2>2, <3>2
  <2>4. \A c \in DOMAIN ks : a <= ix[c] /\ ix[c] <= b /\ ix[c] \in 1 .. W
    <3> SUFFICES ASSUME NEW c \in DOMAIN ks PROVE a <= ix[c] /\ ix[c] <= b /\ ix[c] \in 1 .. W
      OBVIOUS
    <3>1. CountOf(hs, ks[c].name) = 1
      BY DEF ValidHeader
    <3>2. IndexOf(hs, ks[c].name) \in 1 .. Len(hs)
      BY <3>1, IndexIs, LenProperties
    <3> QED BY <1>1, <2>1, <2>2, <3>2
  <2> HIDE DEF ix, W, A, a, b, k, columns, range
  <2>5. 1 \in DOMAIN ks
    BY EmptySeq, LenProperties
  <2>6. a <= b
    BY <1>1, <1>2, <2>4, <2>5
  <2>7. (IF b < W THEN b ELSE W) = b
    BY <1>1, <1>2, <2>1
  <2>8. A = b - a + 1 /\ A \in Nat /\ W \in Nat
    BY <1>1, <1>2, <1>4, <2>1, <2>6, <2>7
  <2>9. A \in 0 .. A + W
    BY <2>8
  <2>10. ASSUME NEW i \in 1 .. A PROVE \E c \in DOMAIN ks : Looks(range, W, i) = ix[c]
    <3>1. Looks(range, W, i) = a + i - 1
      BY <1>5, <2>8
    <3>2. a + i - 1 \in a .. b
      BY <1>1, <1>2, <2>8
    <3> QED BY <2>3, <3>1, <3>2
  <2>11. ASSUME NEW c \in DOMAIN ks PROVE \E i \in 1 .. A : Looks(range, W, i) = ix[c]
    <3> DEFINE i == ix[c] - a + 1
    <3>1. i \in 1 .. A /\ i <= A /\ a + i - 1 = ix[c]
      BY <1>1, <1>2, <2>4, <2>8
    <3> QED BY <1>5, <3>1
  <2> QED BY <2>4, <2>9, <2>10, <2>11 DEF BeginsWithKeys, A, W, range, ix
<1>7. CASE NeedColumnManipulation(hs, ks, fs)
  <2>1. W = Len(columns) /\ ~ (a \in 2 .. W)
    BY <1>7 DEF WidthOf, SortsElsewhere
  <2>2. \A c \in DOMAIN ks : ix[c] = c
    BY <1>3, <1>7 DEF FinalIndices
  <2>3. W \in Nat
    BY <1>3, <2>1, LenProperties
  <2> HIDE DEF ix, W, A, a, b, k, columns, range
  <2>4. a = 1 \/ a > W
    BY <1>1, <1>2, <2>1, <2>3
  <2>5. A \in Nat /\ (a = 1 \/ A = 0) /\ k <= W
    <3>1. a \in Nat /\ a >= 1 /\ b \in Nat /\ b >= 1
      BY <1>1, <1>2
    <3>2. A \in Nat
      BY <1>4, <2>3, <3>1
    <3>3. a > W => A = 0
      BY <1>4, <2>3, <3>1
    <3> QED BY <1>3, <2>1, <2>4, <3>2, <3>3
  <2>6. \A c \in DOMAIN ks : c \in 1 .. k /\ ix[c] = c /\ ix[c] \in 1 .. W
    BY <1>2, <2>2, <2>3, <2>5
  <2>7. \A i \in 1 .. A : i \in Nat /\ Looks(range, W, i) = i
    <3> SUFFICES ASSUME NEW i \in 1 .. A PROVE Looks(range, W, i) = i
      OBVIOUS
    <3>1. Looks(range, W, i) = a + i - 1 /\ a = 1
      BY <1>5, <2>5
    <3> QED BY <2>5, <3>1
  <2>8. \A i \in 1 .. k : A + i \in A + 1 .. A + k /\ Looks(range, W, A + i) = i
    <3> SUFFICES ASSUME NEW i \in 1 .. k PROVE A + i \in A + 1 .. A + k /\ Looks(range, W, A + i) = i
      OBVIOUS
    <3>1. ~ (A + i <= A) /\ (A + i) - A = i
      BY <2>5
    <3> QED BY <1>2, <1>5, <2>5, <3>1
  <2>9. CASE k <= A
    <3>1. k \in 0 .. A + W
      BY <1>2, <2>3, <2>5, <2>9
    <3>2. \A i \in 1 .. k : i \in 1 .. A
      BY <1>2, <2>5, <2>9
    <3> QED BY <1>2, <2>6, <2>7, <3>1, <3>2 DEF BeginsWithKeys, A, W, range, ix
  <2>10. CASE ~ (k <= A)
    <3> DEFINE q == A + k
    <3>1. q \in 0 .. A + W
      BY <1>2, <2>3, <2>5
    <3>2. ASSUME NEW i \in 1 .. q PROVE \E c \in DOMAIN ks : Looks(range, W, i) = ix[c]
      <4>1. CASE i <= A
        <5>1. i \in 1 .. A /\ i \in 1 .. k
          BY <1>2, <2>5, <2>10, <4>1
        <5> QED BY <1>2, <2>6, <2>7, <5>1
      <4>2. CASE ~ (i <= A)
        <5>1. i - A \in 1 .. k /\ A + (i - A) = i
          BY <1>2, <2>5, <4>2
        <5>2. Looks(range, W, i) = i - A
          BY <1>5, <4>2
        <5> QED BY <1>2, <2>6, <5>1, <5>2
      <4> QED BY <4>1, <4>2
    <3>3. ASSUME NEW c \in DOMAIN ks PROVE \E i \in 1 .. q : Looks(range, W, i) = ix[c]
      <4>1. c \in 1 .. k /\ ix[c] = c
        BY <2>6
      <4>2. A + c \in 1 .. q
        BY <1>2, <2>5, <4>1
      <4> QED BY <2>8, <4>1, <4>2
    <3> HIDE DEF q
    <3> QED BY <2>6, <3>1, <3>2, <3>3 DEF BeginsWithKeys, A, W, range, ix
  <2> QED BY <2>9, <2>10
<1> QED BY <1>6, <1>7

\* Lines of numbers that are in the order of sort, which begins with the keys, have the
\* lines of a key one after the other.
LEMMA SortedContiguous ==
  ASSUME NEW ix, NEW ks, NEW range, NEW W \in Nat, NEW q, BeginsWithKeys(ix, ks, range, W, q),
         IsRange(range),
         NEW N \in Nat, NEW lines, AreTexts(lines, N, W),
         \A m, n \in 1 .. N : m < n => ~ ComesBefore(Compared(range, lines[n]), Compared(range, lines[m])),
         NEW L, DOMAIN L = 1 .. N, \A n \in 1 .. N : L[n] = KeyIn(ix, ks, lines[n])
  PROVE  Contiguous(L)
<1> DEFINE T == HeadWidth(range, W) + W
           Text(n) == Compared(range, lines[n])
<1>1. \A n \in 1 .. N : lines[n] \in Seq(Int) /\ Len(lines[n]) = W
  BY DEF AreTexts
<1>2. \A n \in 1 .. N : /\ T \in Nat /\ Text(n) \in Seq(Int) /\ Len(Text(n)) = T
                        /\ \A i \in 1 .. T : Text(n)[i] = lines[n][Looks(range, W, i)]
  <2> SUFFICES ASSUME NEW n \in 1 .. N
               PROVE  /\ T \in Nat /\ Text(n) \in Seq(Int) /\ Len(Text(n)) = T
                      /\ \A i \in 1 .. T : Text(n)[i] = lines[n][Looks(range, W, i)]
    OBVIOUS
  <2> DEFINE line == lines[n]
  <2>1. line \in Seq(Int) /\ Len(line) = W
    BY <1>1
  <2> HIDE DEF line
  <2>2. ComparesAs(range, line, W)
    BY <2>1, ComparedIs
  <2> QED BY <2>2 DEF line, ComparesAs
<1> HIDE DEF T, Text
<1>3. /\ q \in 0 .. T
      /\ \A c \in DOMAIN ks : ix[c] \in 1 .. W
      /\ \A i \in 1 .. q : \E c \in DOMAIN ks : Looks(range, W, i) = ix[c]
      /\ \A c \in DOMAIN ks : \E i \in 1 .. q : Looks(range, W, i) = ix[c]
  BY DEF BeginsWithKeys, T
<1>4. \A n \in 1 .. N : L[n] = [c \in DOMAIN ks |-> lines[n][ix[c]]]
  <2> SUFFICES ASSUME NEW n \in 1 .. N PROVE L[n] = [c \in DOMAIN ks |-> lines[n][ix[c]]]
    OBVIOUS
  <2>1. \A c \in DOMAIN ks : CellOf(lines[n], ix[c]) = lines[n][ix[c]]
    BY <1>1, <1>3, LenProperties DEF CellOf
  <2> QED BY <2>1 DEF KeyIn
<1>5. ASSUME NEW m \in 1 .. N, NEW n \in 1 .. N, T \in Nat
      PROVE  (\A i \in 1 .. q : Text(m)[i] = Text(n)[i]) <=> L[m] = L[n]
  <2>1. \A i \in 1 .. q : i \in 1 .. T
    BY <1>3, <1>5
  <2>2. \A i \in 1 .. q : /\ Text(m)[i] = lines[m][Looks(range, W, i)]
                          /\ Text(n)[i] = lines[n][Looks(range, W, i)]
    BY <1>2, <2>1
  <2>3. /\ L[m] = [c \in DOMAIN ks |-> lines[m][ix[c]]]
        /\ L[n] = [c \in DOMAIN ks |-> lines[n][ix[c]]]
    BY <1>4
  <2>4. ASSUME \A i \in 1 .. q : Text(m)[i] = Text(n)[i] PROVE L[m] = L[n]
    <3>1. ASSUME NEW c \in DOMAIN ks PROVE lines[m][ix[c]] = lines[n][ix[c]]
      <4>1. PICK i \in 1 .. q : Looks(range, W, i) = ix[c]
        BY <1>3
      <4> QED BY <2>2, <2>4, <4>1
    <3> QED BY <2>3, <3>1
  <2>5. ASSUME L[m] = L[n], NEW i \in 1 .. q PROVE Text(m)[i] = Text(n)[i]
    <3>1. PICK c \in DOMAIN ks : Looks(range, W, i) = ix[c]
      BY <1>3
    <3>2. L[m][c] = lines[m][ix[c]] /\ L[n][c] = lines[n][ix[c]]
      BY <2>3
    <3> QED BY <2>2, <2>5, <3>1, <3>2
  <2> QED BY <2>4, <2>5
<1>6. \A m, n \in 1 .. N : m < n => ~ ComesBefore(Text(n), Text(m))
  BY DEF Text
<1>7. ASSUME NEW i \in 1 .. N, NEW j \in 1 .. N, NEW n \in i .. j, L[i] = L[j]
      PROVE  L[n] = L[i]
  <2>1. n \in 1 .. N /\ T \in Nat
    BY <1>2
  <2>2. CASE n = i \/ n = j
    BY <1>7, <2>2
  <2>3. CASE i < n /\ n < j
    <3>1. \A x \in 1 .. q : Text(i)[x] = Text(j)[x]
      BY <1>5, <1>7, <2>1
    <3>2. ~ ComesBefore(Text(n), Text(i)) /\ ~ ComesBefore(Text(j), Text(n))
      BY <1>6, <2>1, <2>3
    <3>3. \A x \in 1 .. q : Text(n)[x] = Text(i)[x]
      <4> DEFINE s == Text(i)
                 t == Text(n)
                 u == Text(j)
      <4>1. s \in Seq(Int) /\ t \in Seq(Int) /\ u \in Seq(Int) /\ Len(s) = T /\ Len(t) = T /\ Len(u) = T
        BY <1>2, <2>1
      <4>2. ~ ComesBefore(t, s) /\ ~ ComesBefore(u, t) /\ BeginAlike(s, u, q)
        BY <3>1, <3>2 DEF BeginAlike
      <4> HIDE DEF s, t, u
      <4>3. BeginAlike(t, s, q)
        BY <1>3, <2>1, <4>1, <4>2, SameBetween
      <4> QED BY <4>3 DEF s, t, BeginAlike
    <3> QED BY <1>5, <2>1, <3>3
  <2> QED BY <2>2, <2>3
<1> QED BY <1>7 DEF Contiguous

\* The program prints the aggregates of the lines that it sorts.
LEMMA SortedProgramIsRight ==
  ASSUME NEW hs \in Seq(STRING), NEW ks \in Seq(Keys), NEW fs \in Seq(Fields),
         NEW ls \in Seq([DOMAIN hs -> Int]), NEW skip, ValidHeader(hs, ks, fs), ks # <<>>,
         ls # <<>>, skip \/ (~ SortsElsewhere(hs, ks, fs) /\ ~ DependsOnOrder(fs)),
         NEW result, result = SortedProgram(hs, ls, ks, fs, skip)
  PROVE  AreAggregates(hs, ls, ks, fs, skip, result)
<1> DEFINE K == KeysOf(hs, ks, ls)
           V == ValuesOf(hs, fs, ls)
           N == Len(ls)
           Key(n) == KeyAt(hs, ks, ls[n])
           shared == \E m, n \in DOMAIN fs : m # n /\ fs[m].varName = fs[n].varName
           apart == \E i, j \in DOMAIN ls : \E n \in i .. j : Key(i) = Key(j) /\ Key(n) # Key(i)
           groups == {{k \in DOMAIN ls : Key(k) = Key(n)} : n \in DOMAIN ls}
           comma == ks = <<>> /\ TrailingComma(fs)
           ix == FinalIndices(hs, ks, fs)
           input == Ordered(hs, ks, fs, ls)
           lines == SortedByKeys(hs, ks, skip, input)
<1> SUFFICES ASSUME ~ shared, ~ (skip /\ apart), ~ comma
             PROVE  /\ Range(result) = {ExpectedLine(hs, ks, fs, ls, g) : g \in groups}
                    /\ Len(result) = Cardinality(groups)
  BY Zenon DEF AreAggregates
<1>1. OwnVariables(fs)
  BY DEF OwnVariables
<1>2. groups = Groups(K)
  <2>1. DOMAIN K = DOMAIN ls /\ \A n \in DOMAIN ls : K[n] = Key(n)
    BY DEF KeysOf
  <2> HIDE DEF K
  <2>2. \A n \in DOMAIN ls : GroupOf(K, K[n]) = {k \in DOMAIN ls : Key(k) = Key(n)}
    BY <2>1 DEF GroupOf
  <2>3. Groups(K) = {GroupOf(K, K[n]) : n \in DOMAIN ls}
    BY <2>1 DEF Groups
  <2> DEFINE Same(n) == {k \in DOMAIN ls : Key(k) = Key(n)}
  <2>4. groups = {Same(n) : n \in DOMAIN ls}
    OBVIOUS
  <2> HIDE DEF Same, groups
  <2>5. \A n \in DOMAIN ls : GroupOf(K, K[n]) = Same(n)
    BY <2>2 DEF Same
  <2> QED BY <2>3, <2>4, <2>5
<1>3. ls # <<>>
  OBVIOUS
<1>4. AreExpected(hs, ks, fs, ls, groups, result)
  <2>1. ValidHeader(hs, ks, fs) /\ ks # <<>>
    OBVIOUS
  <2>2. input = [n \in DOMAIN ls |-> ModifiedLine(hs, ks, fs, ls[n])]
    <3>1. CASE NeedColumnManipulation(hs, ks, fs)
      BY <3>1 DEF ModifiedLine, Ordered
    <3>2. CASE ~ NeedColumnManipulation(hs, ks, fs)
      <4>1. input = ls /\ ls = [n \in DOMAIN ls |-> ls[n]]
        BY <3>2 DEF Ordered
      <4>2. \A n \in DOMAIN ls : ModifiedLine(hs, ks, fs, ls[n]) = ls[n]
        BY <3>2 DEF ModifiedLine
      <4> QED BY <4>1, <4>2
    <3> QED BY <3>1, <3>2
  <2>3. ReadsAs(ix, ks, fs, input, N, K, V)
    <3> HIDE DEF input
    <3> QED BY <1>3, <2>1, <2>2, InputReads
  <2>4. result = SkipGroupProgram(ix, ks, fs, lines)
    BY <1>3 DEF SortedProgram, RunProgram
  <2>5. ~ apart => Contiguous(K)
    BY DEF Contiguous, KeysOf
  <2>6. SUFFICES Listed(SkipGroupProgram(ix, ks, fs, lines), fs, K, V)
    <3> DEFINE out == SkipGroupProgram(ix, ks, fs, lines)
    <3>1. result = out /\ Listed(out, fs, KeysOf(hs, ks, ls), ValuesOf(hs, fs, ls))
      BY <2>4, <2>6
    <3> HIDE DEF groups, out
    <3>2. AreExpected(hs, ks, fs, ls, groups, out)
      BY <1>1, <1>2, <3>1, ListedIsRight
    <3> QED BY <3>1, <3>2
  <2>7. CASE skip
    <3>1. lines = input
      BY <2>7 DEF SortedByKeys
    <3>2. Contiguous(K)
      BY <2>5, <2>7
    <3> HIDE DEF lines, ix, K, V, input, N
    <3> QED BY <1>1, <2>3, <3>1, <3>2, SkipGroupIs
  <2>8. CASE ~ skip
    <3>1. ~ SortsElsewhere(hs, ks, fs) /\ ~ DependsOnOrder(fs)
      BY <2>8
    <3> DEFINE W == WidthOf(hs, ks, fs)
               range == KeyRange(hs, ks)
               Text(line) == Compared(range, line)
               IsOrder(p) == \A m, n \in DOMAIN input :
                               m < n => ~ ComesBefore(Text(input[p[n]]), Text(input[p[m]]))
               orders == {f \in [DOMAIN input -> DOMAIN input] : Range(f) = DOMAIN input}
               p == CHOOSE f \in orders : IsOrder(f)
    <3>2. lines = [n \in DOMAIN input |-> input[p[n]]]
      BY <2>8 DEF SortedByKeys
    <3>3. N \in Nat /\ DOMAIN ls = 1 .. N /\ DOMAIN input = 1 .. N
          /\ \A n \in 1 .. N : ls[n] \in [DOMAIN hs -> Int]
      BY <2>2, LenProperties
    <3>4. AreTexts(input, N, W)
      <4>1. \A n \in 1 .. N : input[n] = ModifiedLine(hs, ks, fs, ls[n])
        BY <2>2, <3>3
      <4> HIDE DEF input, N, W
      <4>2. \A n \in 1 .. N : input[n] \in Seq(Int) /\ Len(input[n]) = W
        BY <2>1, <3>3, <4>1, LineIsWide DEF W
      <4> QED BY <4>2 DEF AreTexts
    <3>5. IsRange(range) /\ W \in Nat
      <4>1. range[1] \in 1 .. Len(hs) /\ range[2] \in 1 .. Len(hs)
        BY <2>1, KeyRangeIs
      <4>2. RequiredColumns(ks, fs) \in Seq(Keys \union Fields)
        BY ColumnsAre
      <4>3. W \in Nat
        BY <4>2, LenProperties DEF WidthOf
      <4>4. IsRange(range)
        BY <4>1 DEF IsRange
      <4> QED BY <4>3, <4>4
    <3> DEFINE T == HeadWidth(range, W) + W
               texts == [n \in 1 .. N |-> Text(input[n])]
    <3> HIDE DEF input, N, W, range, K, V, ix, orders, p, lines
    <3>6. \A n \in 1 .. N : Text(input[n]) \in Seq(Int) /\ Len(Text(input[n])) = T
      <4> SUFFICES ASSUME NEW n \in 1 .. N
                   PROVE  Text(input[n]) \in Seq(Int) /\ Len(Text(input[n])) = T
        OBVIOUS
      <4> DEFINE line == input[n]
      <4>1. line \in Seq(Int) /\ Len(line) = W
        BY <3>4 DEF AreTexts
      <4> HIDE DEF line
      <4>2. ComparesAs(range, line, W)
        BY <3>5, <4>1, ComparedIs
      <4> QED BY <4>2 DEF line, ComparesAs
    <3>7. T \in Nat
      <4>1. 1 \in 1 .. N
        BY <1>3, <3>3, EmptySeq DEF N
      <4>2. Text(input[1]) \in Seq(Int) /\ Len(Text(input[1])) = T
        BY <3>6, <4>1
      <4> HIDE DEF T, Text
      <4> QED BY <4>2, LenProperties
    <3>8. AreTexts(texts, N, T)
      BY <3>6 DEF AreTexts
    <3>9. \A n \in 1 .. N : texts[n] = Text(input[n])
      OBVIOUS
    <3> HIDE DEF texts, T, Text
    <3>10. PICK o : Reorders(o, N) /\ InOrder(o, texts, N)
      BY <3>3, <3>7, <3>8, OrderExists
    <3>11. o \in orders /\ IsOrder(o)
      <4>0. o \in [1 .. N -> 1 .. N] /\ \A x \in 1 .. N : \E n \in 1 .. N : o[n] = x
        BY <3>10 DEF Reorders
      <4>1. o \in [1 .. N -> 1 .. N] /\ Range(o) = 1 .. N
        <5>1. DOMAIN o = 1 .. N /\ \A n \in 1 .. N : o[n] \in 1 .. N
          BY <4>0
        <5>2. Range(o) = {o[n] : n \in 1 .. N}
          BY <5>1 DEF Range
        <5>3. Range(o) \subseteq 1 .. N
          BY <5>1, <5>2
        <5>4. 1 .. N \subseteq Range(o)
          BY <4>0, <5>2
        <5> QED BY <4>0, <5>3, <5>4
      <4>2. \A n \in 1 .. N : texts[o[n]] = Text(input[o[n]])
        BY <3>9, <4>1
      <4> QED BY <3>3, <3>10, <4>1, <4>2 DEF orders, InOrder
    <3>12. p \in orders /\ IsOrder(p)
      <4> HIDE DEF IsOrder
      <4> QED BY <3>11 DEF p
    <3>13. Reorders(p, N)
      <4>1. p \in [1 .. N -> 1 .. N] /\ Range(p) = 1 .. N
        BY <3>3, <3>12 DEF orders
      <4>2. p \in Surjection(1 .. N, 1 .. N)
        BY <4>1 DEF Surjection, Range
      <4>3. IsFiniteSet(1 .. N)
        BY <3>3, FS_Interval
      <4>4. p \in Injection(1 .. N, 1 .. N)
        BY <4>2, <4>3, FS_Surjection
      <4>5. \A m, n \in 1 .. N : p[m] = p[n] => m = n
        BY <4>1, <4>4 DEF Injection, IsInjective
      <4> QED BY <4>1, <4>5 DEF Reorders, Range
    <3> DEFINE L == KeysBy(K, p, N)
               U == ValuesBy(V, fs, p, N)
    <3>14. lines = [n \in 1 .. N |-> input[p[n]]]
      BY <3>2, <3>3
    <3>15. ReadsAs(ix, ks, fs, lines, N, L, U)
      BY <2>3, <3>13, <3>14, ReadsReordered
    <3>16. L = KeysBy(K, p, N) /\ U = ValuesBy(V, fs, p, N)
      OBVIOUS
    <3>17. DOMAIN L = 1 .. N
      BY DEF KeysBy
    <3> HIDE DEF L, U
    <3>19. Contiguous(L)
      <4>1. PICK q : BeginsWithKeys(ix, ks, range, W, q)
        BY <2>1, <3>1, KeysFirst DEF ix, range, W
      <4>2. \A n \in 1 .. N : lines[n] = input[p[n]] /\ p[n] \in 1 .. N
        BY <3>13, <3>14 DEF Reorders
      <4>3. AreTexts(lines, N, W)
        BY <3>4, <4>2 DEF AreTexts
      <4>4. \A m, n \in 1 .. N : m < n => ~ ComesBefore(Compared(range, lines[n]), Compared(range, lines[m]))
        BY <3>3, <3>12, <4>2 DEF Text
      <4>5. \A n \in 1 .. N : L[n] = KeyIn(ix, ks, lines[n])
        BY <3>15 DEF ReadsAs
      <4> QED BY <3>3, <3>5, <3>17, <4>1, <4>3, <4>4, <4>5, SortedContiguous
    <3>20. Listed(SkipGroupProgram(ix, ks, fs, lines), fs, L, U)
      BY <1>1, <3>15, <3>19, SkipGroupIs
    <3>21. DOMAIN K = 1 .. N /\ AreValues(V, fs, N) /\ AreValues(U, fs, N)
      BY <2>3, <3>15 DEF ReadsAs
    <3> DEFINE out == SkipGroupProgram(ix, ks, fs, lines)
    <3> HIDE DEF out
    <3>22. Listed(out, fs, L, U)
      BY <3>20 DEF out
    <3>23. Listed(out, fs, K, V)
      BY <1>1, <3>1, <3>3, <3>13, <3>16, <3>21, <3>22, ListedReordered
    <3> QED BY <3>23 DEF out
  <2> QED BY <2>7, <2>8
<1> HIDE DEF groups
<1> QED BY <1>4 DEF AreExpected

\* A variable begins with the value that one of the fields gives it.
LEMMA InitialisedAs ==
  ASSUME NEW fs \in Seq(Fields), NEW v \in VarNames(fs)
  PROVE  \E k \in DOMAIN fs : Initialised(fs)[v] = fs[k].init
<1> DEFINE I == {i \in 1 .. Len(fs) : fs[i].varName = v}
<1>1. DOMAIN fs = 1 .. Len(fs) /\ Len(fs) \in Nat
  BY LenProperties
<1>2. PICK k \in 1 .. Len(fs) : fs[k].varName = v
  BY <1>1 DEF VarNames, Range
<1>3. I # {}
  BY <1>2
<1>4. I \in SUBSET Nat /\ IsFiniteSet(I)
  <2>1. I \subseteq 1 .. Len(fs) /\ IsFiniteSet(1 .. Len(fs))
    BY <1>1, FS_Interval
  <2>2. IsFiniteSet(I)
    BY <2>1, FS_Subset
  <2> QED BY <2>1, <2>2
<1>5. SelectLastInSeq(fs, LAMBDA f : f.varName = v) = Max(I)
  BY <1>3 DEF SelectLastInSeq
<1>6. Initialised(fs)[v] = fs[SelectLastInSeq(fs, LAMBDA f : f.varName = v)].init
  BY DEF Initialised, VarNames
<1> HIDE DEF I
<1>7. Max(I) \in I
  BY <1>3, <1>4, MaxIs
<1>8. Max(I) \in DOMAIN fs
  BY <1>1, <1>7 DEF I
<1> QED BY <1>5, <1>6, <1>8

\* A sort of nothing, or of lines that did not get to it, prints no aggregate.
LEMMA NothingIsSorted ==
  ASSUME NEW fs \in Seq(Fields)
  PROVE  IsEmptyLine(fs, <<Printed(<<EmptyCell>>, fs, Initialised(fs))>>)
<1> DEFINE X == {EmptyCell, 7} \union {f.init : f \in Range(fs)}
           line == Printed(<<EmptyCell>>, fs, Initialised(fs))
<1>1. 7 \in X /\ EmptyCell \in X
  OBVIOUS
<1>2. ASSUME NEW v \in {f.varName : f \in Range(fs)} PROVE Initialised(fs)[v] \in X
  <2>1. v \in VarNames(fs)
    BY DEF VarNames
  <2>2. PICK k \in DOMAIN fs : Initialised(fs)[v] = fs[k].init
    BY <2>1, InitialisedAs
  <2> QED BY <2>2 DEF Range
<1> HIDE DEF X
<1>3. <<EmptyCell>> \in Seq(X)
  BY <1>1
<1>4. line \in Seq(X)
  BY <1>1, <1>2, <1>3, PrintedCells
<1> HIDE DEF line
<1>5. Range(line) \subseteq X
  <2>1. \A n \in DOMAIN line : line[n] \in X
    BY <1>4, LenProperties
  <2> QED BY <2>1 DEF Range
<1> QED BY <1>5 DEF IsEmptyLine, X, line

\* The sorting transformer keeps its promise.
LEMMA SortedIsRight ==
  ASSUME NEW hs \in Seq(STRING), NEW ks \in Seq(Keys), NEW fs \in Seq(Fields),
         NEW ls \in Seq([DOMAIN hs -> Int]), NEW skip, NEW passed, NEW result,
         result = AggregateFields(hs, ls, ks, fs, skip, passed)
  PROVE  IsSortedAggregate(hs, ls, ks, fs, skip, passed, result)
<1> DEFINE reaching == ReachingSorted(hs, ls, ks, fs, skip, passed)
           out == SortedProgram(hs, reaching, ks, fs, skip)
           moved == ~ skip /\ (SortsElsewhere(hs, ks, fs) \/ DependsOnOrder(fs))
           empty == ls # <<>> /\ reaching = <<>>
<1> SUFFICES ASSUME result # <<>>
             PROVE  IF empty THEN IsEmptyLine(fs, result[1])
                    ELSE (ls # <<>> => ~ moved) =>
                           AreAggregates(hs, reaching, ks, fs, skip, result[1])
  BY DEF IsSortedAggregate
<1>1. ValidHeader(hs, ks, fs) /\ ks # <<>>
  BY DEF AggregateFields, IsAccepted
<1>2. reaching \in Seq([DOMAIN hs -> Int]) /\ (ls = <<>> => reaching = <<>>)
  <2>1. Selected(ls, passed) \in Seq([DOMAIN hs -> Int])
    BY SelectedIs
  <2>2. ASSUME ls = <<>> PROVE Selected(ls, passed) = <<>>
    BY <2>2, SelectedOfNothing
  <2> QED BY <2>1, <2>2 DEF ReachingSorted
<1>3. CASE ls = <<>>
  <2>1. result[1] = <<>> /\ reaching = <<>>
    BY <1>1, <1>2, <1>3 DEF AggregateFields
  <2>2. AreAggregates(hs, <<>>, ks, fs, skip, <<>>)
    BY NoAggregates
  <2> QED BY <1>3, <2>1, <2>2
<1>4. CASE ls # <<>>
  <2>1. result[1] = out
    BY <1>1, <1>4 DEF AggregateFields
  <2>2. CASE reaching = <<>>
    <3>1. out = <<Printed(<<EmptyCell>>, fs, Initialised(fs))>>
      BY <2>2 DEF SortedProgram
    <3> QED BY <1>4, <2>1, <2>2, <3>1, NothingIsSorted
  <2>3. CASE reaching # <<>>
    <3> HIDE DEF reaching, moved
    <3>1. ASSUME ~ moved PROVE AreAggregates(hs, reaching, ks, fs, skip, out)
      BY <1>1, <1>2, <2>3, <3>1, SortedProgramIsRight DEF moved
    <3> QED BY <1>4, <2>1, <2>3, <3>1
  <2> QED BY <2>2, <2>3
<1> QED BY <1>3, <1>4

-----------------------------------------------------------------------------
\* What a request has when it has met the streams before c.next, and its files.
IsMet(c, fs) ==
  /\ c.multi <=> MultiKey
  /\ c.main = Tail(Prepared(1)) /\ c.keyIndex = KeyPlace(1)
  /\ \A f \in fs : f.lines = PreparedLines(f.stream + 1)
  /\ \E cols : Chain(c.outHeader, c.joinCommand, cols, c.next)

\* The key that a request has taken is the one of the stream, or several in one.
Took(c, n) ==
  c.joinKey # <<>> =>
    /\ CanRewrite(Streams[n], c.joinKey)
    /\ c.joinKey = StreamKeys(n) \/ c.joinKey = <<KeyName(n)>>

\* What a request has come to that joins streams.
CallJoins(c, fs) ==
  /\ c.stage = "main" => (c.multi => MultiKey) /\ Took(c, 1)
  /\ c.stage = "streams" =>
       /\ c.multi => MultiKey
       /\ Took(c, c.next + 1)
       /\ Joinable => c.cut \/ IsMet(c, fs)
  /\ c.stage \in {"store", "done"} /\ side.joins # <<>> /\ side.behavior = "columnJoin" =>
       (Joinable => c.cut \/ IsTheJoin(c.out))

\* A request that saw one name has seen the key as it will stay.
Saw(c, k) == c.stage = "main" /\ ~ c.multi => ~ (Len(k) > 1)

\* A key is the one that was configured, or several in one.
KeysKept ==
  /\ DOMAIN keys = 1 .. Len(side.joins) + 1
  /\ \A n \in 1 .. Len(side.joins) + 1 :
       keys[n] = StreamKeys(n) \/ (MultiKey /\ keys[n] = RewrittenKey(StreamKeys(n)))

\* What the node has come to that joins streams by columns.
ColumnsInv ==
  KeysKept /\ \A r \in Request : CallJoins(Call(r), FilesOf(r)) /\ Saw(Call(r), keys[1])

\* What this is of a request depends on the side, the streams, the request and its
\* files.
LEMMA SameCallJoins ==
  ASSUME UNCHANGED <<side, content>>
  PROVE  \A c, fs : CallJoins(c, fs)' <=> CallJoins(c, fs)
<1>1. (MultiKey' <=> MultiKey) /\ (Joinable' <=> Joinable)
  BY SameNames, SameColumns
<1>2. \A out : IsTheJoin(out)' <=> IsTheJoin(out)
  BY SameCombinations
<1>3. /\ Prepared(1)' = Prepared(1) /\ KeyPlace(1)' = KeyPlace(1)
      /\ \A n : PreparedLines(n)' = PreparedLines(n)
      /\ \A hdr, cmds, cols, n : Chain(hdr, cmds, cols, n)' <=> Chain(hdr, cmds, cols, n)
  BY SameChains
<1>4. \A c, fs : IsMet(c, fs)' <=> IsMet(c, fs)
  BY <1>1, <1>3 DEF IsMet
<1>5. \A c, n : Took(c, n)' <=> Took(c, n)
  <2>1. Streams' = Streams
    BY DEF Streams, MainStream
  <2>2. \A n : StreamKeys(n)' = StreamKeys(n) /\ KeyName(n)' = KeyName(n)
    BY DEF StreamKeys, KeyName, ConfiguredKeys
  <2> QED BY <2>1, <2>2 DEF Took
<1> QED BY <1>1, <1>2, <1>4, <1>5 DEF CallJoins

\* A step of one request, which leaves the streams and the files of the others.
LEMMA OneJoins ==
  ASSUME JoinInv, ColumnsInv, NEW r \in Request, NEW call, Update(r, call),
         UNCHANGED <<side, content>>, KeysKept',
         \A q \in Request : q # r => FilesOf(q)' = FilesOf(q),
         Len(keys'[1]) > 1 => Len(keys[1]) > 1, Saw(call, keys'[1]),
         CallJoins(call, FilesOf(r)')
  PROVE  ColumnsInv'
<1>1. calls'[r] = call /\ \A q \in Request : q # r => calls'[q] = calls[q]
  BY DEF JoinInv, Update
<1>2. \A c, fs : CallJoins(c, fs)' <=> CallJoins(c, fs)
  BY SameCallJoins
<1>3. CallJoins(Call(r), FilesOf(r))'
  <2>1. Call(r)' = call
    BY <1>1 DEF Call
  <2>2. CallJoins(Call(r), FilesOf(r))' <=> CallJoins(Call(r)', FilesOf(r)')
    BY <1>2
  <2> QED BY <2>1, <2>2
<1>4. ASSUME NEW q \in Request, q # r PROVE CallJoins(Call(q), FilesOf(q))'
  <2>1. CallJoins(Call(q), FilesOf(q))
    BY DEF ColumnsInv
  <2>2. Call(q)' = Call(q) /\ FilesOf(q)' = FilesOf(q)
    BY <1>1, <1>4 DEF Call
  <2>3. CallJoins(Call(q), FilesOf(q))' <=> CallJoins(Call(q)', FilesOf(q)')
    BY <1>2
  <2> QED BY <2>1, <2>2, <2>3
<1>5. ASSUME NEW q \in Request PROVE Saw(Call(q), keys[1])'
  <2>1. CASE q = r
    BY <1>1, <2>1 DEF Saw, Call
  <2>2. CASE q # r
    <3>1. Saw(Call(q), keys[1]) /\ Call(q)' = Call(q)
      BY <1>1, <2>2 DEF ColumnsInv, Call
    <3> QED BY <3>1 DEF Saw
  <2> QED BY <2>1, <2>2
<1> QED BY <1>3, <1>4, <1>5 DEF ColumnsInv

\* Keys that stay are kept.
LEMMA SameKeysKept ==
  ASSUME KeysKept, side' = side, keys' = keys
  PROVE  KeysKept'
<1>1. MultiKey' <=> MultiKey
  BY DEF MultiKey
<1>2. \A n : StreamKeys(n)' = StreamKeys(n)
  BY DEF StreamKeys, ConfiguredKeys
<1> QED BY <1>1, <1>2 DEF KeysKept

\* At first there are the configured keys, and nothing was joined.
LEMMA ColumnsFirst == JoinInit => ColumnsInv
<1> SUFFICES ASSUME JoinInit PROVE ColumnsInv
  OBVIOUS
<1>1. KeysKept
  <2>1. keys = ConfiguredKeys(side)
    BY DEF JoinInit
  <2>2. JoinInv
    BY JoinInitInv
  <2> QED BY <2>1, <2>2, KeysAre DEF KeysKept, StreamKeys
<1>2. ASSUME NEW r \in Request PROVE CallJoins(Call(r), FilesOf(r)) /\ Saw(Call(r), keys[1])
  <2>1. Call(r).stage = "new"
    BY DEF JoinInit, Call, NewCall
  <2> QED BY <2>1 DEF CallJoins, Saw
<1> QED BY <1>1, <1>2 DEF ColumnsInv

\* A step that is none of the join.
LEMMA ColumnsInvKept ==
  ASSUME ColumnsInv, UNCHANGED joinVars
  PROVE  ColumnsInv'
<1>1. side' = side /\ content' = content /\ calls' = calls /\ files' = files /\ keys' = keys
  BY DEF joinVars
<1>2. KeysKept'
  BY <1>1, SameKeysKept DEF ColumnsInv
<1>3. \A c, fs : CallJoins(c, fs)' <=> CallJoins(c, fs)
  BY <1>1, SameCallJoins
<1>4. ASSUME NEW q \in Request PROVE CallJoins(Call(q), FilesOf(q))'
  <2>1. CallJoins(Call(q), FilesOf(q))
    BY DEF ColumnsInv
  <2>2. Call(q)' = Call(q) /\ FilesOf(q)' = FilesOf(q)
    BY <1>1 DEF Call, FilesOf
  <2>3. CallJoins(Call(q), FilesOf(q))' <=> CallJoins(Call(q)', FilesOf(q)')
    BY <1>3
  <2> QED BY <2>1, <2>2, <2>3
<1>5. ASSUME NEW q \in Request PROVE Saw(Call(q), keys[1])'
  <2>1. Saw(Call(q), keys[1])
    BY DEF ColumnsInv
  <2> QED BY <1>1, <2>1 DEF Saw, Call
<1> QED BY <1>2, <1>4, <1>5 DEF ColumnsInv

\* A step that leaves the keys and the files too.
LEMMA PlainJoins ==
  ASSUME JoinInv, ColumnsInv, NEW r \in Request, NEW call, Update(r, call),
         UNCHANGED <<side, keys, content, files>>, Saw(call, keys[1]),
         CallJoins(call, FilesOf(r))
  PROVE  ColumnsInv'
<1>1. KeysKept'
  BY SameKeysKept DEF ColumnsInv
<1>2. \A q \in Request : FilesOf(q)' = FilesOf(q)
  BY DEF FilesOf
<1> QED BY <1>1, <1>2, OneJoins

-----------------------------------------------------------------------------
\* A request that is refused,
LEMMA FailJoins ==
  ASSUME JoinInv, ColumnsInv, NEW r \in Request, Fail(r) PROVE ColumnsInv'
<1> DEFINE call == [calls[r] EXCEPT !.stage = "failed"]
<1>1. Update(r, call) /\ UNCHANGED <<side, keys, content, files>>
  BY DEF Fail, Call
<1>2. CallOK(calls[r])
  BY DEF JoinInv
<1>3. call.stage = "failed"
  BY <1>2 DEF CallOK, CallFields
<1> HIDE DEF call
<1>4. CallJoins(call, FilesOf(r)) /\ Saw(call, keys[1])
  BY <1>3 DEF CallJoins, Saw
<1> QED BY <1>1, <1>4, PlainJoins

\* one that has nothing to join,
LEMMA ForwardJoins ==
  ASSUME JoinInv, ColumnsInv, NEW r \in Request, Forward(r) PROVE ColumnsInv'
<1> DEFINE to == Onward
           call == [calls[r] EXCEPT !.stage = to, !.out = MainStream]
<1>1. Update(r, call) /\ UNCHANGED <<side, keys, content, files>> /\ side.joins = <<>>
  BY DEF Forward, Call, Onward
<1>2. CallOK(calls[r])
  BY DEF JoinInv
<1>3. call.stage = to /\ to \notin {"main", "streams"}
  BY <1>2 DEF CallOK, CallFields, Onward
<1> HIDE DEF call
<1>4. CallJoins(call, FilesOf(r))
  BY <1>1, <1>3 DEF CallJoins
<1>5. Saw(call, keys[1])
  BY <1>3 DEF Saw
<1> QED BY <1>1, <1>4, <1>5, PlainJoins

\* one that appends,
LEMMA AppendJoins ==
  ASSUME JoinInv, AppendInv, ColumnsInv, NEW r \in Request,
         LoadMainToAppend(r) \/ AppendStream(r) \/ Appended(r) PROVE ColumnsInv'
<1>1. CallOK(calls[r]) /\ AppendOK(r)
  BY Zenon DEF JoinInv, AppendInv
<1>2. side.behavior = "append" /\ UNCHANGED <<side, keys, content, files>>
  BY <1>1, Zenon DEF LoadMainToAppend, AppendStream, Appended, AppendOK
<1>3. side.behavior # "columnJoin"
  BY <1>2
<1>4. CASE LoadMainToAppend(r)
  <2> DEFINE call == [calls[r] EXCEPT !.stage = "append", !.out = MainStream]
  <2>1. Update(r, call)
    BY <1>4 DEF LoadMainToAppend, Call
  <2>2. call.stage = "append"
    BY <1>1 DEF CallOK, CallFields
  <2> HIDE DEF call
  <2>3. CallJoins(call, FilesOf(r)) /\ Saw(call, keys[1])
    BY <2>2, Zenon DEF CallJoins, Saw
  <2> QED BY <1>2, <2>1, <2>3, PlainJoins
<1>5. CASE AppendStream(r)
  <2>1. PICK added, broken :
          Update(r, [calls[r] EXCEPT !.next = @ + 1, !.out = @ \o added, !.broken = broken])
    BY <1>5, Zenon DEF AppendStream, Call
  <2> DEFINE call == [calls[r] EXCEPT !.next = @ + 1, !.out = @ \o added, !.broken = broken]
  <2>2. call.stage = "append"
    BY <1>1, <1>5, Zenon DEF CallOK, CallFields, AppendStream, Call
  <2>3. Update(r, call)
    BY <2>1
  <2> HIDE DEF call
  <2>4. CallJoins(call, FilesOf(r)) /\ Saw(call, keys[1])
    BY <2>2 DEF CallJoins, Saw
  <2> QED BY <1>2, <2>3, <2>4, PlainJoins
<1>6. CASE Appended(r)
  <2> DEFINE to == Onward
             call == [calls[r] EXCEPT !.stage = to]
  <2>1. Update(r, call)
    BY <1>6 DEF Appended, Call, Onward
  <2>2. call.stage = to /\ to \notin {"main", "streams"}
    BY <1>1 DEF CallOK, CallFields, Onward
  <2> HIDE DEF call
  <2>3. CallJoins(call, FilesOf(r)) /\ Saw(call, keys[1])
    BY <1>3, <2>2 DEF CallJoins, Saw
  <2> QED BY <1>2, <2>1, <2>3, PlainJoins
<1> QED BY <1>4, <1>5, <1>6

\* and one that is answered: none of them joins columns.
LEMMA StoredJoins ==
  ASSUME JoinInv, ColumnsInv, NEW r \in Request, Stored(r) PROVE ColumnsInv'
<1> DEFINE c == calls[r]
           call == [c EXCEPT !.stage = "done"]
<1>1. UNCHANGED <<side, keys, content, files>> /\ c.stage = "store" /\ Update(r, call)
  BY DEF Stored, Call
<1>2. CallOK(c) /\ CallJoins(c, FilesOf(r))
  BY DEF JoinInv, ColumnsInv, Call
<1>3. call.stage = "done" /\ call.out = c.out /\ call.cut = c.cut
  BY <1>2 DEF CallOK, CallFields
<1> HIDE DEF call
<1>4. CallJoins(call, FilesOf(r)) /\ Saw(call, keys[1])
  BY <1>1, <1>2, <1>3 DEF CallJoins, Saw
<1> QED BY <1>1, <1>4, PlainJoins

\* A request that sees several keys is at a node that has several, and one that
\* sees one name sees it as it will stay.
LEMMA BeginJoinJoins ==
  ASSUME JoinInv, ColumnsInv, NEW r \in Request, BeginJoin(r) PROVE ColumnsInv'
<1> DEFINE several == Len(keys[1]) > 1
           call == [calls[r] EXCEPT !.stage = "main", !.multi = several]
<1>1. Update(r, call) /\ UNCHANGED <<side, keys, content, files>> /\ calls[r].stage = "new"
  BY DEF BeginJoin, Call
<1>2. CallOK(calls[r])
  BY DEF JoinInv
<1>3. several => MultiKey
  <2>1. 1 \in 1 .. Len(side.joins) + 1
    BY StreamsAre
  <2>2. keys[1] = StreamKeys(1) \/ (MultiKey /\ keys[1] = RewrittenKey(StreamKeys(1)))
    BY <2>1 DEF ColumnsInv, KeysKept
  <2>3. StreamKeys(1) = side.key
    BY KeysAre DEF StreamKeys, ConfiguredKeys
  <2> QED BY <2>2, <2>3 DEF MultiKey, RewrittenKey
<1>4. ~ several => ~ (Len(keys[1]) > 1)
  OBVIOUS
<1> HIDE DEF several
<1>5. call.stage = "main" /\ call.multi = several /\ call.joinKey = calls[r].joinKey
  BY <1>2 DEF CallOK, CallFields
<1>6. calls[r].joinKey = <<>>
  BY <1>1, <1>2 DEF CallOK
<1> HIDE DEF call
<1>7. CallJoins(call, FilesOf(r)) /\ Saw(call, keys[1])
  BY <1>3, <1>4, <1>5, <1>6 DEF CallJoins, Saw, Took
<1> QED BY <1>1, <1>7, PlainJoins

\* The key in the node is the configured one wherever a stream with it is found.
LEMMA KeyFound ==
  ASSUME JoinInv, KeysKept, NEW n \in 1 .. Len(side.joins) + 1
  PROVE  /\ ~ MultiKey => keys[n] = StreamKeys(n)
         /\ keys[n] = StreamKeys(n) \/ keys[n] = <<KeyName(n)>>
         /\ RewrittenKey(keys[n]) = <<KeyName(n)>>
<1>1. keys[n] = StreamKeys(n) \/ (MultiKey /\ keys[n] = RewrittenKey(StreamKeys(n)))
  BY DEF KeysKept
<1>2. RewrittenKey(StreamKeys(n)) = <<KeyName(n)>>
  BY DEF RewrittenKey, KeyName
<1>3. StreamKeys(n) \in Cells
  BY KeysAre
<1>4. KeyName(n) \in Seq(STRING)
  BY <1>3, FlattenSeqType DEF KeyName, Cells
<1>5. FlattenSeq(<<KeyName(n)>>) = KeyName(n)
  BY <1>4, FlattenSeqOne
<1>6. RewrittenKey(<<KeyName(n)>>) = <<KeyName(n)>>
  BY <1>5 DEF RewrittenKey
<1> QED BY <1>1, <1>2, <1>6

-----------------------------------------------------------------------------
\* A name that is found is there.
LEMMA FoundIsThere ==
  ASSUME NEW X, NEW hs \in Seq(X), NEW name, KeyIndex(hs, name) # 0
  PROVE  name \in Range(hs)
<1>1. KeyIndex(hs, name) \in 0 .. Len(hs) /\ hs[KeyIndex(hs, name)] = name
  BY KeyIndexIs
<1>2. Len(hs) \in Nat /\ DOMAIN hs = 1 .. Len(hs)
  BY LenProperties
<1>3. KeyIndex(hs, name) \in DOMAIN hs
  BY <1>1, <1>2
<1> QED BY <1>1, <1>3 DEF Range

\* A stream that has its key is the one with the configured key, in one column.
LEMMA KeyIsFound ==
  ASSUME JoinInv, AreTables, KeysAgree, KeysKept,
         NEW n \in 1 .. Len(side.joins) + 1, Streams[n] # <<>>, NEW multi, multi <=> MultiKey,
         NEW taken, multi => taken = StreamKeys(n) \/ taken = <<KeyName(n)>>,
         NEW stream, stream = IF multi THEN WriteMultiKeyStream(Streams[n], taken) ELSE Streams[n],
         NEW key, key = IF multi THEN RewrittenKey(keys[n]) ELSE keys[n],
         multi => CanRewrite(Streams[n], taken),
         key # <<>>, KeyIndex(Head(stream), key[1]) # 0
  PROVE  /\ HasKeys(n) /\ stream = Prepared(n) /\ key = <<KeyName(n)>>
         /\ KeyIndex(Head(stream), key[1]) = KeyPlace(n)
<1> DEFINE head == Head(Streams[n])
           K == StreamKeys(n)
           L == Len(side.key)
<1>1. n \in DOMAIN Streams
  BY StreamsAre
<1>2. head \in Seq(Seq(STRING))
  BY <1>1, TableIs DEF Cells
<1>3. K \in Cells /\ Len(K) = L /\ L \in Nat
  <2>1. K \in Cells
    BY KeysAre
  <2>2. Len(K) = L
    BY <1>1 DEF KeysAgree, StreamKeys
  <2> QED BY <2>1, <2>2, LenProperties DEF Cells
<1>4. /\ ~ MultiKey => keys[n] = K
      /\ keys[n] = K \/ keys[n] = <<KeyName(n)>>
      /\ RewrittenKey(keys[n]) = <<KeyName(n)>>
  BY KeyFound
<1>5. MultiKey <=> L > 1
  BY DEF MultiKey
<1>6. MultiKey => KeyName(n) \notin Range(head)
  BY <1>1, <1>5 DEF KeysAgree, KeyName, StreamKeys
<1>7. 1 .. L = DOMAIN K
  BY <1>3, LenProperties DEF Cells
<1> HIDE DEF head, K, L
<1>8. CASE MultiKey
  <2>1. \A k \in DOMAIN taken : KeyIndex(head, taken[k]) # 0
    <3>1. 0 \notin Range(JoinColIndeces(head, taken))
      BY <1>8 DEF CanRewrite, head
    <3> QED BY <3>1 DEF Range, JoinColIndeces
  <2>2. taken = K
    <3> SUFFICES ASSUME taken = <<KeyName(n)>> PROVE FALSE
      BY <1>8 DEF K
    <3>1. 1 \in DOMAIN taken /\ taken[1] = KeyName(n)
      OBVIOUS
    <3>2. KeyIndex(head, KeyName(n)) # 0
      BY <2>1, <3>1
    <3> QED BY <1>2, <1>6, <1>8, <3>2, FoundIsThere
  <2>3. stream = Prepared(n) /\ key = <<KeyName(n)>>
    BY <1>4, <1>8, <2>2 DEF Prepared, K
  <2>4. HasKeys(n)
    <3>1. L >= 1 /\ \A k \in 1 .. L : KeyIndex(head, K[k]) # 0
      BY <1>3, <1>5, <1>7, <1>8, <2>1, <2>2
    <3> QED BY <1>1, <3>1 DEF HasKeys, L, K, head
  <2>5. key[1] = KeyName(n)
    BY <2>3
  <2> QED BY <2>3, <2>4, <2>5 DEF KeyPlace
<1>9. CASE ~ MultiKey
  <2>1. key = K /\ stream = Streams[n] /\ stream = Prepared(n)
    BY <1>4, <1>9 DEF Prepared
  <2>2. L = 1
    <3>1. L # 0
      BY <1>3, <2>1, EmptySeq DEF Cells
    <3> QED BY <1>3, <1>5, <1>9, <3>1
  <2>3. K = <<K[1]>> /\ K[1] \in Seq(STRING)
    BY <1>3, <2>2, SingleIs DEF Cells
  <2>4. FlattenSeq(<<K[1]>>) = K[1]
    BY <2>3, FlattenSeqOne
  <2>5. KeyName(n) = K[1]
    BY <2>3, <2>4 DEF KeyName, K
  <2>6. key = <<KeyName(n)>> /\ key[1] = KeyName(n)
    BY <2>1, <2>3, <2>5
  <2>7. HasKeys(n)
    <3>1. KeyIndex(head, K[1]) # 0
      BY <2>1 DEF head
    <3>2. L >= 1 /\ \A k \in 1 .. L : KeyIndex(head, K[k]) # 0
      BY <2>2, <3>1
    <3> QED BY <1>1, <3>2 DEF HasKeys, L, K, head
  <2> QED BY <2>1, <2>6, <2>7 DEF KeyPlace
<1> QED BY <1>8, <1>9

\* A key that is rewritten, by whatever request, is still kept.
LEMMA KeysKeptAfter ==
  ASSUME JoinInv, KeysKept, side' = side, NEW n \in 1 .. Len(side.joins) + 1, NEW key,
         keys' = [keys EXCEPT ![n] = key],
         key = keys[n] \/ (MultiKey /\ key = RewrittenKey(keys[n]))
  PROVE  KeysKept' /\ (Len(keys'[1]) > 1 => Len(keys[1]) > 1)
<1>1. MultiKey' <=> MultiKey
  BY DEF MultiKey
<1>2. \A k : StreamKeys(k)' = StreamKeys(k)
  BY DEF StreamKeys, ConfiguredKeys
<1>3. DOMAIN keys = 1 .. Len(side.joins) + 1
  BY DEF KeysKept
<1>4. DOMAIN keys' = DOMAIN keys /\ keys'[n] = key /\ \A k \in DOMAIN keys : k # n => keys'[k] = keys[k]
  BY <1>3
<1>5. RewrittenKey(keys[n]) = <<KeyName(n)>> /\ RewrittenKey(StreamKeys(n)) = <<KeyName(n)>>
  BY KeyFound DEF RewrittenKey, KeyName
<1>6. keys'[n] = StreamKeys(n) \/ (MultiKey /\ keys'[n] = RewrittenKey(StreamKeys(n)))
  BY <1>4, <1>5 DEF KeysKept
<1>7. \A k \in 1 .. Len(side.joins) + 1 :
        keys'[k] = StreamKeys(k) \/ (MultiKey /\ keys'[k] = RewrittenKey(StreamKeys(k)))
  BY <1>3, <1>4, <1>6 DEF KeysKept
<1>8. KeysKept'
  BY <1>1, <1>2, <1>3, <1>4, <1>7 DEF KeysKept
<1>9. Len(keys'[1]) > 1 => Len(keys[1]) > 1
  <2>1. Len(<<KeyName(n)>>) = 1
    OBVIOUS
  <2>2. 1 \in DOMAIN keys
    BY <1>3, StreamsAre
  <2>3. keys'[1] = keys[1] \/ keys'[1] = <<KeyName(n)>>
    BY <1>4, <1>5, <2>2
  <2>4. CASE keys'[1] = keys[1]
    BY <2>4
  <2>5. CASE keys'[1] = <<KeyName(n)>>
    <3>1. Len(keys'[1]) = 1
      BY <2>1, <2>5
    <3>2. ~ (1 > 1)
      OBVIOUS
    <3> QED BY <3>1, <3>2, Zenon
  <2> QED BY <2>3, <2>4, <2>5
<1> QED BY <1>8, <1>9

-----------------------------------------------------------------------------
\* A request takes the key of the stream that it reads.
LEMMA TakeKeyJoins ==
  ASSUME JoinInv, ColumnsInv, NEW r \in Request, NEW n \in 1 .. Len(side.joins) + 1,
         TakeKey(r, Streams[n], n),
         \/ calls[r].stage = "main" /\ n = 1
         \/ calls[r].stage = "streams" /\ n = calls[r].next + 1
  PROVE  ColumnsInv'
<1> DEFINE c == calls[r]
           taken == keys[n]
           call == [c EXCEPT !.joinKey = taken]
<1>1. Update(r, call) /\ UNCHANGED <<side, keys, content, files>>
  BY DEF TakeKey, Call
<1>2. c.multi /\ CanRewrite(Streams[n], taken)
  BY DEF TakeKey, Call
<1>3. CallOK(c) /\ CallJoins(c, FilesOf(r)) /\ KeysKept
  BY DEF JoinInv, ColumnsInv, Call
<1>4. taken = StreamKeys(n) \/ taken = <<KeyName(n)>>
  BY <1>3, KeyFound
<1>5. \/ c.stage = "main" /\ n = 1
      \/ c.stage = "streams" /\ n = c.next + 1
  OBVIOUS
<1> HIDE DEF taken, c
<1>6. /\ call.stage = c.stage /\ call.joinKey = taken /\ call.multi = c.multi
      /\ call.next = c.next /\ call.cut = c.cut /\ call.main = c.main
      /\ call.keyIndex = c.keyIndex /\ call.outHeader = c.outHeader
      /\ call.joinCommand = c.joinCommand
  BY <1>3 DEF CallOK, CallFields
<1> HIDE DEF call
<1>7. Took(call, n)
  BY <1>2, <1>4, <1>6 DEF Took
<1>8. IsMet(c, FilesOf(r)) => IsMet(call, FilesOf(r))
  BY <1>6 DEF IsMet
<1>9. CallJoins(call, FilesOf(r))
  <2>1. CASE c.stage = "main" /\ n = 1
    BY <1>3, <1>6, <1>7, <2>1 DEF CallJoins
  <2>2. CASE c.stage = "streams" /\ n = c.next + 1
    <3>1. Took(call, call.next + 1) /\ call.stage = "streams"
      BY <1>6, <1>7, <2>2
    <3>2. (call.multi => MultiKey) /\ (Joinable => call.cut \/ IsMet(call, FilesOf(r)))
      BY <1>3, <1>6, <1>8, <2>2, Zenon DEF CallJoins
    <3> QED BY <3>1, <3>2 DEF CallJoins
  <2> QED BY <1>5, <2>1, <2>2
<1>10. Saw(call, keys[1])
  BY <1>2, <1>6 DEF Saw
<1> QED BY <1>1, <1>9, <1>10, PlainJoins

\* Both readers of a key are such a step.
LEMMA TakeJoins ==
  ASSUME JoinInv, ColumnsInv, NEW r \in Request, TakeMainKey(r) \/ TakeStreamKey(r)
  PROVE  ColumnsInv'
<1>1. CASE TakeMainKey(r)
  <2>1. 1 \in 1 .. Len(side.joins) + 1 /\ Streams[1] = MainStream
    BY StreamsAre
  <2>2. TakeKey(r, Streams[1], 1) /\ calls[r].stage = "main"
    BY <1>1, <2>1 DEF TakeMainKey, Call
  <2> QED BY <2>1, <2>2, TakeKeyJoins
<1>2. CASE TakeStreamKey(r)
  <2> DEFINE n == calls[r].next
  <2>1. /\ calls[r].stage = "streams" /\ n \in DOMAIN side.joins
        /\ TakeKey(r, content[side.joins[n].node], n + 1)
    BY <1>2, Zenon DEF TakeStreamKey, Call
  <2>2. n \in 1 .. Len(side.joins) /\ Len(side.joins) \in Nat
    BY <2>1, StreamsAre
  <2>3. Streams[n + 1] = content[side.joins[n].node]
    BY <2>2, StreamsAre
  <2> DEFINE m == n + 1
  <2>4. m \in 1 .. Len(side.joins) + 1 /\ m = calls[r].next + 1
    <3>1. n + 1 \in 1 .. Len(side.joins) + 1
      <4> HIDE DEF n
      <4> QED BY <2>2
    <3> QED BY <3>1
  <2>5. TakeKey(r, Streams[m], m)
    BY <2>1, <2>3
  <2> HIDE DEF m, n
  <2> QED BY <2>1, <2>4, <2>5, TakeKeyJoins
<1> QED BY <1>1, <1>2

\* The main stream is prepared, and the header has what is wanted of it.
LEMMA LoadMainJoins ==
  ASSUME JoinInv, ColumnsInv, NEW r \in Request, LoadMain(r) PROVE ColumnsInv'
<1> DEFINE c == calls[r]
           multi == c.multi
           taken == c.joinKey
           stream == IF multi THEN WriteMultiKeyStream(MainStream, taken) ELSE MainStream
           key == IF multi THEN RewrittenKey(keys[1]) ELSE keys[1]
           header == Head(stream)
           keyIndex == IF key = <<>> THEN 0 ELSE KeyIndex(header, key[1])
           failed == [c EXCEPT !.stage = "failed"]
           call == [c EXCEPT !.stage = "streams", !.joinKey = <<>>, !.main = Tail(stream),
                             !.keyIndex = keyIndex,
                             !.outHeader = IncludeColumns(header, side.columns, keyIndex)]
<1>1. /\ UNCHANGED <<side, content, files>> /\ MainStream # <<>>
      /\ multi => taken # <<>>
      /\ keys' = [keys EXCEPT ![1] = key]
  BY Zenon DEF LoadMain, KeyIsTaken, Call
<1>2. Update(r, failed) \/ (keyIndex # 0 /\ Update(r, call))
  BY Zenon DEF LoadMain, Call
<1>3. CallOK(c) /\ c.stage = "main" /\ KeysKept /\ CallJoins(c, FilesOf(r)) /\ Saw(c, keys[1])
  BY Zenon DEF JoinInv, LoadMain, Call, ColumnsInv
<1>4. Streams[1] = MainStream /\ 1 \in 1 .. Len(side.joins) + 1
  BY StreamsAre
<1>5. /\ ~ MultiKey => keys[1] = StreamKeys(1)
      /\ keys[1] = StreamKeys(1) \/ keys[1] = <<KeyName(1)>>
  BY <1>3, <1>4, KeyFound
<1>6. StreamKeys(1) = side.key /\ Len(side.key) \in Nat
  <2>1. StreamKeys(1) = side.key
    BY KeysAre DEF StreamKeys, ConfiguredKeys
  <2>2. side.key \in Cells
    BY <1>4, <2>1, KeysAre
  <2> QED BY <2>1, <2>2, LenProperties DEF Cells
<1>7. (multi => MultiKey) /\ Took(c, 1)
  BY <1>3 DEF CallJoins
<1>8. KeysKept' /\ (Len(keys'[1]) > 1 => Len(keys[1]) > 1)
  <2>1. key = keys[1] \/ (MultiKey /\ key = RewrittenKey(keys[1]))
    BY <1>7
  <2>2. side' = side
    BY <1>1
  <2> HIDE DEF key
  <2> QED BY <1>1, <1>3, <1>4, <2>1, <2>2, KeysKeptAfter
<1>9. FilesOf(r)' = {} /\ \A q \in Request : FilesOf(q)' = FilesOf(q)
  <2>1. FilesOK(r)
    BY DEF JoinInv
  <2>2. Left(r) = {}
    BY <1>3, <2>1 DEF FilesOK, Call
  <2>3. FilesOf(r) = {}
    BY <2>2 DEF Left
  <2> QED BY <1>1, <2>3 DEF FilesOf
<1>10. CASE Update(r, failed)
  <2>1. failed.stage = "failed"
    BY <1>3 DEF CallOK, CallFields
  <2> HIDE DEF failed
  <2>2. CallJoins(failed, FilesOf(r)') /\ Saw(failed, keys'[1])
    BY <2>1 DEF CallJoins, Saw
  <2> QED BY <1>1, <1>8, <1>9, <1>10, <2>2, OneJoins
<1>11. CASE keyIndex # 0 /\ Update(r, call)
  <2> DEFINE main == Tail(stream)
             names == IncludeColumns(header, side.columns, keyIndex)
  <2>1. key # <<>> /\ keyIndex = KeyIndex(Head(stream), key[1]) /\ keyIndex # 0
    BY <1>11
  <2>2. Update(r, call)
    BY <1>11
  <2>3. ASSUME Joinable
        PROVE  /\ (multi <=> MultiKey) /\ main = Tail(Prepared(1)) /\ keyIndex = KeyPlace(1)
               /\ HasKeys(1) /\ names = MainHeader
    <3>1. AreTables /\ KeysAgree
      BY <2>3 DEF Joinable
    <3>2. MultiKey => multi
      <4> SUFFICES ASSUME MultiKey, ~ multi PROVE FALSE
        OBVIOUS
      <4>1. keys[1] = <<KeyName(1)>>
        <5>1. ~ (Len(keys[1]) > 1)
          BY <1>3 DEF Saw
        <5>2. Len(StreamKeys(1)) > 1
          BY <1>6 DEF MultiKey
        <5>3. keys[1] # StreamKeys(1)
          BY <5>1, <5>2, Zenon
        <5> QED BY <1>5, <5>3
      <4>2. KeyIndex(Head(MainStream), KeyName(1)) # 0
        BY <2>1, <4>1
      <4>3. Head(MainStream) \in Seq(Seq(STRING))
        BY <1>1, <1>4, <3>1, TableIs, StreamsAre DEF Cells
      <4>4. KeyName(1) \in Range(Head(Streams[1]))
        BY <1>4, <4>2, <4>3, FoundIsThere
      <4>5. 1 \in DOMAIN Streams
        BY StreamsAre
      <4> QED BY <3>1, <4>4, <4>5 DEF KeysAgree, MultiKey, KeyName, StreamKeys
    <3>3. multi <=> MultiKey
      BY <1>7, <3>2
    <3>4. /\ Streams[1] # <<>>
          /\ stream = IF multi THEN WriteMultiKeyStream(Streams[1], taken) ELSE Streams[1]
          /\ key = IF multi THEN RewrittenKey(keys[1]) ELSE keys[1]
      BY <1>1, <1>4
    <3>8. /\ multi => CanRewrite(Streams[1], taken)
          /\ multi => taken = StreamKeys(1) \/ taken = <<KeyName(1)>>
      BY <1>1, <1>7 DEF Took
    <3>5. KeyIndex(Head(stream), key[1]) # 0
      BY <2>1
    <3> HIDE DEF multi, stream, key, keyIndex, taken
    <3>6. /\ HasKeys(1) /\ stream = Prepared(1)
          /\ KeyIndex(Head(stream), key[1]) = KeyPlace(1)
      BY <1>3, <1>4, <2>1, <3>1, <3>3, <3>4, <3>5, <3>8, KeyIsFound
    <3>7. keyIndex = KeyPlace(1)
      BY <2>1, <3>6
    <3> QED BY <3>3, <3>6, <3>7 DEF MainHeader
  <2>4. call = [c EXCEPT !.stage = "streams", !.joinKey = <<>>, !.main = main,
                         !.keyIndex = keyIndex, !.outHeader = names]
    OBVIOUS
  <2> HIDE DEF main, names, keyIndex, call, multi, stream, key
  <2>5. /\ call.stage = "streams" /\ call.multi = multi /\ call.main = main
        /\ call.keyIndex = keyIndex /\ call.outHeader = names
        /\ call.next = 1 /\ call.joinCommand = <<>> /\ call.joinKey = <<>>
    BY <1>3, <2>4 DEF multi, CallOK, CallFields
  <2>6. ASSUME Joinable PROVE IsMet(call, {})
    <3>1. /\ (multi <=> MultiKey) /\ main = Tail(Prepared(1)) /\ keyIndex = KeyPlace(1)
          /\ HasKeys(1) /\ names = MainHeader
      BY <2>3, <2>6
    <3>2. AreTables /\ KeysAgree /\ KeepsAPrefix
      BY <2>6 DEF Joinable
    <3>3. \E cols : Chain(MainHeader, <<>>, cols, 1)
      BY <3>1, <3>2, ChainFirst
    <3>4. \E cols : Chain(names, <<>>, cols, 1)
      BY <3>1, <3>3
    <3>5. \E cols : Chain(call.outHeader, call.joinCommand, cols, call.next)
      BY <2>5, <3>4
    <3>6. call.main = Tail(Prepared(1)) /\ call.keyIndex = KeyPlace(1)
      BY <2>5, <3>1
    <3>7. call.multi <=> MultiKey
      BY <2>5, <3>1, Zenon
    <3> QED BY <3>5, <3>6, <3>7 DEF IsMet
  <2>7. CallJoins(call, FilesOf(r)') /\ Saw(call, keys'[1])
    <3>1. Took(call, call.next + 1)
      BY <2>5 DEF Took
    <3> QED BY <1>7, <1>9, <2>5, <2>6, <3>1 DEF CallJoins, Saw
  <2> QED BY <1>1, <1>8, <1>9, <2>2, <2>7, OneJoins
<1> QED BY <1>2, <1>10, <1>11

-----------------------------------------------------------------------------
\* The header and the command with one stream more.
LEMMA MetNext ==
  ASSUME JoinInv, Joinable, NEW n \in 1 .. Len(side.joins), HasKeys(n + 1),
         NEW c, NEW fs, IsMet(c, fs), c.next = n, IsSeq(c.joinCommand),
         NEW f, f.stream = n, f.lines = PreparedLines(n + 1),
         NEW call, call.multi = c.multi, call.main = c.main, call.keyIndex = c.keyIndex,
         call.next = n + 1, call.outHeader = NextHeader(c.outHeader, n),
         call.joinCommand = Append(c.joinCommand, CommandOf(Len(c.outHeader), n))
  PROVE  IsMet(call, fs \union {f})
<1>1. AreTables /\ KeysAgree /\ NamesApart
  BY DEF Joinable
<1>2. PICK cols : Chain(c.outHeader, c.joinCommand, cols, n)
  BY DEF IsMet
<1>3. \E more : Chain(NextHeader(c.outHeader, n),
                      Append(c.joinCommand, CommandOf(Len(c.outHeader), n)), more, n + 1)
  BY <1>1, <1>2, ChainNext
<1>4. \E more : Chain(call.outHeader, call.joinCommand, more, call.next)
  BY <1>3
<1>5. \A g \in fs \union {f} : g.lines = PreparedLines(g.stream + 1)
  BY DEF IsMet
<1>6. /\ call.multi <=> MultiKey
      /\ call.main = Tail(Prepared(1)) /\ call.keyIndex = KeyPlace(1)
  BY Zenon DEF IsMet
<1> QED BY <1>4, <1>5, <1>6 DEF IsMet

\* With each stream its sorted lines are in a file, and the header and the command
\* are those of one stream more, whether another request has rewritten the key before
\* or not.
LEMMA JoinStreamJoins ==
  ASSUME JoinInv, ColumnsInv, NEW r \in Request, JoinStream(r) PROVE ColumnsInv'
<1> DEFINE c == calls[r]
           n == c.next
           join == side.joins[n]
           loaded == content[join.node]
           taken == c.joinKey
           stream == IF c.multi THEN WriteMultiKeyStream(loaded, taken) ELSE loaded
           key == IF c.multi THEN RewrittenKey(keys[n + 1]) ELSE keys[n + 1]
           header == Head(stream)
           keyIndex == KeyIndex(header, key[1])
           columns == IncludeColumns(header, join.columns, 0)
           sorted == Sorted(Tail(stream), keyIndex)
           file(lines) == [owner |-> r, stream |-> n, lines |-> lines]
           command == [right |-> keyIndex, pairs |-> Pairs(join.type),
                       alone |-> Alone(join.type),
                       list |-> TrivialColumnList(Len(c.outHeader), c.keyIndex)
                                  \o ColumnList(header, keyIndex, columns)]
           names == AddedNames(c.outHeader, columns, key[1], join.node)
           failed == [c EXCEPT !.stage = "failed"]
           call(cut) == [c EXCEPT !.next = n + 1, !.joinKey = <<>>, !.cut = cut,
                                  !.joinCommand = Append(c.joinCommand, command),
                                  !.outHeader = names]
<1>1. /\ UNCHANGED <<side, content>> /\ c.stage = "streams" /\ n \in DOMAIN side.joins
      /\ loaded # <<>> /\ (c.multi => taken # <<>>)
      /\ keys' = [keys EXCEPT ![n + 1] = key]
  BY Zenon DEF JoinStream, KeyIsTaken, Call
<1>2. \/ Update(r, failed) /\ files' = files
      \/ \E lines \in {sorted} \union {FirstLines(sorted, k) : k \in Cuts} :
           /\ keyIndex # 0 /\ Len(key) = 1 /\ files' = files \union {file(lines)}
           /\ Update(r, call(c.cut \/ lines # sorted)) \/ Update(r, failed)
  BY Zenon DEF JoinStream, Call
<1>3. CallOK(c) /\ KeysKept /\ CallJoins(c, FilesOf(r))
  BY DEF JoinInv, ColumnsInv, Call
<1>4. /\ n \in 1 .. Len(side.joins) /\ n + 1 \in 1 .. Len(side.joins) + 1
      /\ Streams[n + 1] = loaded
  <2>1. Len(side.joins) \in Nat /\ n \in 1 .. Len(side.joins)
    BY <1>1, StreamsAre
  <2>2. Streams[n + 1] = loaded
    BY <2>1, StreamsAre
  <2> HIDE DEF n, loaded
  <2>3. n + 1 \in 1 .. Len(side.joins) + 1
    BY <2>1
  <2> QED BY <2>1, <2>2, <2>3
<1>5. c.multi => MultiKey
  BY <1>1, <1>3 DEF CallJoins
<1>6. KeysKept' /\ (Len(keys'[1]) > 1 => Len(keys[1]) > 1)
  <2>1. key = keys[n + 1] \/ (MultiKey /\ key = RewrittenKey(keys[n + 1]))
    BY <1>5
  <2>2. side' = side
    BY <1>1
  <2> HIDE DEF key, n
  <2> QED BY <1>1, <1>3, <1>4, <2>1, <2>2, KeysKeptAfter
<1>7. ASSUME NEW lines
      PROVE  /\ file(lines).owner = r /\ file(lines).stream = n
             /\ file(lines).lines = lines
  BY Zenon
<1> HIDE DEF file
<1>8. \A q \in Request : q # r => FilesOf(q)' = FilesOf(q)
  BY <1>2, <1>7, Zenon DEF FilesOf
<1>9. CASE Update(r, failed)
  <2>1. failed.stage = "failed"
    BY <1>3 DEF CallOK, CallFields
  <2> HIDE DEF failed
  <2>2. CallJoins(failed, FilesOf(r)') /\ Saw(failed, keys'[1])
    BY <2>1 DEF CallJoins, Saw
  <2> QED BY <1>1, <1>6, <1>8, <1>9, <2>2, OneJoins
<1>10. ASSUME NEW lines, keyIndex # 0, Len(key) = 1, files' = files \union {file(lines)},
              Update(r, call(c.cut \/ lines # sorted))
       PROVE  ColumnsInv'
  <2> DEFINE cut == c.cut \/ lines # sorted
             called == call(cut)
             one == file(lines)
  <2>1. FilesOf(r)' = FilesOf(r) \union {one}
    BY <1>7, <1>10, Zenon DEF FilesOf
  <2>2. Update(r, called) /\ keyIndex # 0 /\ Len(key) = 1
    BY <1>10, Zenon
  <2>3. /\ called.stage = "streams" /\ called.multi = c.multi /\ called.main = c.main
        /\ called.keyIndex = c.keyIndex /\ called.next = n + 1 /\ called.outHeader = names
        /\ called.joinCommand = Append(c.joinCommand, command)
        /\ called.joinKey = <<>> /\ called.cut = cut
    <3> HIDE DEF names, command, cut
    <3> QED BY <1>1, <1>3 DEF CallOK, CallFields
  <2> HIDE DEF call, called
  <2>4. ASSUME Joinable, ~ cut PROVE IsMet(called, FilesOf(r) \union {one})
    <3>1. AreTables /\ KeysAgree
      BY <2>4 DEF Joinable
    <3>2. IsMet(c, FilesOf(r))
      BY <1>1, <1>3, <2>4, Zenon DEF CallJoins
    <3>3. (c.multi <=> MultiKey) /\ c.keyIndex = KeyPlace(1)
      BY <3>2 DEF IsMet
    <3>4. /\ Streams[n + 1] # <<>>
          /\ stream = IF c.multi THEN WriteMultiKeyStream(Streams[n + 1], taken)
                      ELSE Streams[n + 1]
      BY <1>1, <1>4
    <3>17. /\ c.multi => CanRewrite(Streams[n + 1], taken)
           /\ c.multi => taken = StreamKeys(n + 1) \/ taken = <<KeyName(n + 1)>>
      <4>1. Took(c, n + 1)
        BY <1>1, <1>3 DEF CallJoins
      <4> QED BY <1>1, <4>1 DEF Took
    <3>5. key = IF c.multi THEN RewrittenKey(keys[n + 1]) ELSE keys[n + 1]
      OBVIOUS
    <3>6. KeyIndex(Head(stream), key[1]) # 0
      BY <2>2
    <3>7. key # <<>>
      <4> HIDE DEF key, keyIndex
      <4>1. Len(key) = 1 /\ Len(<<>>) = 0
        BY <2>2
      <4> QED BY <4>1
    <3> DEFINE multi == c.multi
               N == n + 1
    <3>8. multi <=> MultiKey
      BY <3>3
    <3>9. /\ HasKeys(n + 1) /\ stream = Prepared(n + 1) /\ key = <<KeyName(n + 1)>>
          /\ keyIndex = KeyPlace(n + 1)
      <4>1. /\ N \in 1 .. Len(side.joins) + 1 /\ Streams[N] # <<>>
            /\ stream = IF multi THEN WriteMultiKeyStream(Streams[N], taken) ELSE Streams[N]
            /\ key = IF multi THEN RewrittenKey(keys[N]) ELSE keys[N]
            /\ multi => CanRewrite(Streams[N], taken)
            /\ multi => taken = StreamKeys(N) \/ taken = <<KeyName(N)>>
        BY <1>4, <3>4, <3>5, <3>17
      <4> HIDE DEF N, multi, stream, key, taken
      <4>2. /\ HasKeys(N) /\ stream = Prepared(N) /\ key = <<KeyName(N)>>
            /\ KeyIndex(Head(stream), key[1]) = KeyPlace(N)
        BY <1>3, <3>1, <3>6, <3>7, <3>8, <4>1, KeyIsFound
      <4> QED BY <4>2 DEF N
    <3> HIDE DEF multi, N, stream, key, keyIndex
    <3>10. key[1] = KeyName(n + 1)
      BY <3>9
    <3>11. one.lines = PreparedLines(n + 1)
      <4>1. one.lines = sorted
        BY <1>7, <2>4
      <4> QED BY <3>9, <4>1 DEF PreparedLines
    <3>12. names = NextHeader(c.outHeader, n)
      BY <3>9, <3>10 DEF NextHeader
    <3>13. command = CommandOf(Len(c.outHeader), n)
      BY <3>3, <3>9 DEF CommandOf, ListOf
    <3>14. IsSeq(c.joinCommand)
      BY <1>3 DEF CallOK
    <3>15. /\ called.outHeader = NextHeader(c.outHeader, n)
           /\ called.joinCommand = Append(c.joinCommand, CommandOf(Len(c.outHeader), n))
      BY <2>3, <3>12, <3>13
    <3> DEFINE m == n
    <3>16. /\ m \in 1 .. Len(side.joins) /\ HasKeys(m + 1) /\ c.next = m
           /\ one.stream = m /\ one.lines = PreparedLines(m + 1)
           /\ called.multi = c.multi /\ called.main = c.main /\ called.keyIndex = c.keyIndex
           /\ called.next = m + 1 /\ called.outHeader = NextHeader(c.outHeader, m)
           /\ called.joinCommand = Append(c.joinCommand, CommandOf(Len(c.outHeader), m))
      BY <1>4, <1>7, <2>3, <3>9, <3>11, <3>15, Zenon
    <3> HIDE DEF m, n, c
    <3> QED BY <2>4, <3>2, <3>14, <3>16, MetNext
  <2>5. CallJoins(called, FilesOf(r)') /\ Saw(called, keys'[1])
    <3>1. Took(called, called.next + 1)
      BY <2>3 DEF Took
    <3>2. Joinable => called.cut \/ IsMet(called, FilesOf(r)')
      BY <2>1, <2>3, <2>4
    <3> HIDE DEF cut
    <3>3. CallJoins(called, FilesOf(r)')
      BY <1>5, <2>3, <3>1, <3>2, Zenon DEF CallJoins
    <3>4. Saw(called, keys'[1])
      BY <2>3 DEF Saw
    <3> QED BY <3>3, <3>4
  <2> QED BY <1>1, <1>6, <1>8, <2>2, <2>5, OneJoins, Zenon
<1> HIDE DEF file, call, failed
<1> QED BY <1>2, <1>9, <1>10, Zenon

-----------------------------------------------------------------------------
\* The lines of a stream that was met are in its file.
LEMMA FilesAreMet ==
  ASSUME JoinInv, NEW r \in Request, Call(r).stage = "streams",
         IsMet(Call(r), FilesOf(r))
  PROVE  StreamsMet(r, Call(r))
<1> DEFINE c == Call(r)
<1>1. c.main = Tail(Prepared(1)) /\ c.keyIndex = KeyPlace(1)
  BY DEF IsMet
<1>2. ASSUME NEW n \in 1 .. c.next - 1 PROVE LinesOf(r, n) = PreparedLines(n + 1)
  <2>1. Left(r) = 1 .. c.next - 1
    BY DEF JoinInv, FilesOK
  <2>2. \E f \in FilesOf(r) : f.stream = n
    BY <1>2, <2>1 DEF Left
  <2>3. PICK f \in FilesOf(r) : LinesOf(r, n) = f.lines /\ f.stream = n
    BY <2>2 DEF LinesOf
  <2>4. f.lines = PreparedLines(f.stream + 1)
    BY DEF IsMet
  <2> QED BY <2>3, <2>4
<1> QED BY <1>1, <1>2 DEF StreamsMet

\* A request that has no more stream to meet has met them all.
LEMMA AllAreMet ==
  ASSUME JoinInv, NEW n \in Nat \ {0}, n \notin DOMAIN side.joins,
         NEW hdr, NEW cmds, NEW cols, Chain(hdr, cmds, cols, n)
  PROVE  n = Len(side.joins) + 1
<1>1. n \in 1 .. n
  OBVIOUS
<1>2. n \in DOMAIN Streams
  BY <1>1 DEF Chain, HasKeys
<1>3. /\ Len(side.joins) \in Nat /\ DOMAIN side.joins = 1 .. Len(side.joins)
      /\ DOMAIN Streams = 1 .. Len(side.joins) + 1
  BY StreamsAre
<1> QED BY <1>2, <1>3

\* The commands print the join.
LEMMA ExecuteJoinJoins ==
  ASSUME JoinInv, AppendInv, ColumnsInv, NEW r \in Request, ExecuteJoin(r) PROVE ColumnsInv'
<1>10. PICK failing \in SUBSET Unseen(Call(r)) : \E cuts \in [failing -> Cuts] :
         LET c == Call(r)
             stream == <<c.outHeader>> \o PipedOf(r, c, cuts)
         IN  Update(r, [c EXCEPT !.stage = Onward, !.cut = @ \/ failing # {},
                                 !.out = IF c.multi THEN [n \in DOMAIN stream |-> Expanded(stream[n])]
                                         ELSE stream])
  BY Zenon DEF ExecuteJoin, PipedOf, Onward
<1>11. PICK cuts \in [failing -> Cuts] :
         LET c == Call(r)
             stream == <<c.outHeader>> \o PipedOf(r, c, cuts)
         IN  Update(r, [c EXCEPT !.stage = Onward, !.cut = @ \/ failing # {},
                                 !.out = IF c.multi THEN [n \in DOMAIN stream |-> Expanded(stream[n])]
                                         ELSE stream])
  BY <1>10
<1> DEFINE c == calls[r]
           cut == c.cut \/ failing # {}
           stream == <<c.outHeader>> \o PipedOf(r, c, cuts)
           out == IF c.multi THEN [n \in DOMAIN stream |-> Expanded(stream[n])] ELSE stream
           to == Onward
           call == [c EXCEPT !.stage = to, !.cut = cut, !.out = out]
<1>1. /\ UNCHANGED <<side, content, keys>> /\ files' = files \ FilesOf(r)
      /\ c.stage = "streams" /\ c.next \notin DOMAIN side.joins
  BY Zenon DEF ExecuteJoin, RemoveFiles, Call
<1>2. Update(r, call)
  BY <1>11, Zenon DEF Call
<1>3. CallOK(c) /\ KeysKept /\ CallJoins(c, FilesOf(r)) /\ AppendOK(r)
  BY DEF JoinInv, ColumnsInv, AppendInv, Call
<1>4. side.joins # <<>>
  BY <1>1, <1>3 DEF AppendOK, Call
<1>5. KeysKept'
  BY <1>1, <1>3, SameKeysKept
<1>6. \A q \in Request : q # r => FilesOf(q)' = FilesOf(q)
  BY <1>1 DEF FilesOf
<1>7. ASSUME Joinable, ~ cut PROVE IsTheJoin(out)
  <2>10. DOMAIN cuts = {} /\ ~ c.cut
    BY <1>7
  <2>1. IsMet(c, FilesOf(r)) /\ c = Call(r) /\ Call(r).stage = "streams"
    BY <1>1, <1>3, <1>7, <2>10, Zenon DEF CallJoins, Call
  <2>2. StreamsMet(r, c)
    BY <2>1, FilesAreMet
  <2>3. PICK cols : Chain(c.outHeader, c.joinCommand, cols, c.next)
    BY <2>1 DEF IsMet
  <2>4. c.next = Len(side.joins) + 1
    <3>1. c.next \in Nat \ {0}
      BY <1>3 DEF CallOK
    <3> DEFINE n == c.next
    <3>2. n \in Nat \ {0} /\ n \notin DOMAIN side.joins /\ Chain(c.outHeader, c.joinCommand, cols, n)
      BY <1>1, <2>3, <3>1
    <3> HIDE DEF n
    <3>3. n = Len(side.joins) + 1
      BY <3>2, AllAreMet
    <3> QED BY <3>3 DEF n
  <2>5. IsSeq(c.main) /\ IsSeq(c.joinCommand)
    BY <1>3 DEF CallOK
  <2>6. \A n \in 1 .. Len(c.joinCommand) : IsSeq(LinesOf(r, n))
    BY <2>1, FileOfCommand
  <2>7. c.multi <=> MultiKey
    BY <2>1 DEF IsMet
  <2>8. out = IF MultiKey THEN [n \in DOMAIN stream |-> Expanded(stream[n])] ELSE stream
    <3> HIDE DEF stream, c
    <3> QED BY <2>7
  <2>9. stream = <<c.outHeader>> \o PipedOf(r, c, cuts)
    OBVIOUS
  <2> HIDE DEF out, stream, c
  <2> QED BY <1>4, <1>7, <2>2, <2>3, <2>4, <2>5, <2>6, <2>8, <2>9, <2>10, JoinIsMade
<1> HIDE DEF out, cut
<1>8. call.stage = to /\ call.out = out /\ call.cut = cut /\ to \notin {"main", "streams"}
  BY <1>3 DEF CallOK, CallFields, Onward
<1> HIDE DEF call
<1>9. CallJoins(call, FilesOf(r)') /\ Saw(call, keys'[1])
  BY <1>7, <1>8 DEF CallJoins, Saw
<1>12. Len(keys'[1]) > 1 => Len(keys[1]) > 1
  BY <1>1
<1> QED BY <1>1, <1>2, <1>5, <1>6, <1>9, <1>12, OneJoins, Zenon

-----------------------------------------------------------------------------
\* Every step of the pipeline keeps this.
LEMMA ColumnsInvKeeps ==
  ASSUME JoinInv, AppendInv, ColumnsInv, NEW r \in Request, JoinThenPartition(r)
  PROVE  ColumnsInv'
<1>1. CASE JoinStep(r)
  BY <1>1, FailJoins, ForwardJoins, BeginJoinJoins, TakeJoins, LoadMainJoins, JoinStreamJoins, ExecuteJoinJoins, AppendJoins
     DEF JoinStep
<1>2. CASE SendOn(r) \/ SplitOn(r)
  BY <1>2, ColumnsInvKept DEF SendOn, SplitOn
<1>3. CASE Answered(r)
  BY <1>3, StoredJoins, FailJoins DEF Answered
<1> QED BY <1>1, <1>2, <1>3 DEF JoinThenPartition

\* And it says that what is answered is the join.
LEMMA ColumnsInvIsRight == ColumnsInv => JoinIsRight
<1> SUFFICES ASSUME ColumnsInv, NEW r \in Request,
                    Call(r).stage \in {"store", "done"}, side.joins # <<>>,
                    side.behavior = "columnJoin",
                    ~ Call(r).cut, AreTables, KeysAgree, NamesApart, KeepsAPrefix
             PROVE  IsTheJoin(Call(r).out)
  BY DEF JoinIsRight
<1>1. CallJoins(Call(r), FilesOf(r)) /\ Joinable
  BY DEF ColumnsInv, Joinable
<1> QED BY <1>1 DEF CallJoins

-----------------------------------------------------------------------------
\* The inductive invariant: what holds of the requests of a join and its partition,
\* what holds of the requests of a translator, and that a result is the result of
\* what was computed.
NodesInv ==
  /\ task \in {"pipeline", "translate", "compute", "computed"}
  /\ task = "pipeline" => JoinInv /\ PartsInv /\ AppendInv /\ ColumnsInv
  /\ task = "translate" => TranslatorInv
  /\ task \in {"compute", "computed"} => work \in Computations
  /\ task = "computed" => answer = Result(work)

\* Every behaviour begins in a state of the invariant.
LEMMA NodesInvFirst == Init => NodesInv
<1> SUFFICES ASSUME Init PROVE NodesInv
  OBVIOUS
<1>1. CASE task = "pipeline" /\ PipelineInit
  BY <1>1, JoinInitInv, PartsInitInv, AppendFirst, ColumnsFirst
  DEF NodesInv, PipelineInit
<1>2. CASE task = "translate" /\ TranslatorInit
  BY <1>2, TranslatorFirst DEF NodesInv
<1>3. CASE task = "compute" /\ work \in Computations
  BY <1>3 DEF NodesInv
<1> QED BY <1>1, <1>2, <1>3 DEF Init

\* Every step keeps the invariant.
LEMMA NodesInvNext == NodesInv /\ [Next]_vars => NodesInv'
<1> SUFFICES ASSUME NodesInv, [Next]_vars PROVE NodesInv'
  OBVIOUS
<1>1. ASSUME NEW r \in Request, task = "pipeline", JoinThenPartition(r),
             UNCHANGED <<translatorVars, task, work, answer>>
      PROVE  NodesInv'
  <2>1. JoinInv' /\ PartsInv' /\ AppendInv' /\ ColumnsInv'
    BY <1>1, PipelineKeeps, AppendInvKeeps, ColumnsInvKeeps DEF NodesInv
  <2> QED BY <1>1, <2>1 DEF NodesInv
<1>2. ASSUME NEW c \in Caller, task = "translate", TranslatorStep(c),
             UNCHANGED <<pipelineVars, task, work, answer>>
      PROVE  NodesInv'
  <2>1. TranslatorInv'
    BY <1>2, TranslatorKeeps DEF NodesInv
  <2> QED BY <1>2, <2>1 DEF NodesInv
<1>3. CASE Compute
  BY <1>3 DEF Compute, NodesInv
<1>4. CASE UNCHANGED vars
  <2>1. UNCHANGED pipelineVars /\ task' = task /\ work' = work /\ answer' = answer
    BY <1>4 DEF vars
  <2>2. task = "pipeline" => JoinInv' /\ PartsInv' /\ AppendInv' /\ ColumnsInv'
    <3>1. UNCHANGED joinVars
      BY <2>1 DEF pipelineVars, joinVars
    <3> QED BY <2>1, <3>1, PipelineKept, AppendInvKept, ColumnsInvKept DEF NodesInv
  <2>3. (answer = Result(work))' <=> answer = Result(work)
    BY <2>1 DEF Result
  <2>4. task = "translate" => TranslatorInv'
    <3>1. UNCHANGED translatorVars
      BY <1>4 DEF vars
    <3> QED BY <3>1, TranslatorKept DEF NodesInv
  <2> QED BY <2>1, <2>2, <2>3, <2>4 DEF NodesInv
<1> QED BY <1>1, <1>2, <1>3, <1>4 DEF Next

\* The invariant holds in every reachable state, for every configuration, every
\* content of the streams, any number of requests and every computation.
THEOREM NodesInvHolds == Spec => []NodesInv
BY NodesInvFirst, NodesInvNext, PTL DEF Spec

\* The sorted copies of the joined streams are there as long as the command needs them
\* and no longer; only a request that failed leaves some. (JoinNode::
\* WriteHorizontalJoin, step 4)
THEOREM TempFilesAccountedHolds == Spec => []TempFilesAccounted
<1>1. NodesInv => TempFilesAccounted
  <2> SUFFICES ASSUME NodesInv, task = "pipeline" PROVE FilesAccounted
    BY DEF TempFilesAccounted
  <2>1. \A r \in Request : FilesOK(r)
    BY DEF NodesInv, JoinInv
  <2> QED BY <2>1 DEF FilesAccounted, FilesOK, Left
<1> QED BY <1>1, NodesInvHolds, PTL

\* Of what a join sends to a partition every line is stored once, under its own value,
\* and a request is answered only when all of it was stored. (JoinNode::StoreImpl,
\* PartitionNode::StoreImpl)
THEOREM PartitionsAreRightHolds == Spec => []PartitionsAreRight
<1>1. NodesInv => PartitionsAreRight
  BY PartsInvIsRight DEF NodesInv, PartitionsAreRight
<1> QED BY <1>1, NodesInvHolds, PTL

\* With the behavior append, or with nothing to join, the answer is one stream after
\* the other, each without the lines to skip, for any configuration, any streams and
\* any number of requests in any interleaving; but for a store that has met a stream
\* that is too short. (JoinNode::LoadImpl, StoreImpl)
THEOREM AppendsAreRightHolds == Spec => []AppendsAreRight
<1>1. NodesInv => AppendsAreRight
  BY AppendInvIsRight DEF NodesInv, AppendsAreRight
<1> QED BY <1>1, NodesInvHolds, PTL

\* What a join by columns answers with, or sends on, is the join of the streams by
\* the names of their columns, for any tables, any list of joined nodes, any types
\* of join in a row, one key or several, and any number of requests.
\* (JoinNode::WriteHorizontalJoin)
THEOREM JoinsAreRightHolds == Spec => []JoinsAreRight
<1>1. NodesInv => JoinsAreRight
  BY ColumnsInvIsRight DEF NodesInv, JoinsAreRight
<1> QED BY <1>1, NodesInvHolds, PTL

\* The four loops, in the order of the names, with renaming, defaults and values
\* derived from others, give every name what the rule for that name alone says, for
\* any configuration the constructor accepts; and the values of the second call are
\* right unless another request came in between. (ParameterTranslator::Translate,
\* TranslateDelayedParameters)
THEOREM TranslationsAreRightHolds == Spec => []TranslationsAreRight
<1>1. NodesInv => TranslationsAreRight
  BY TranslatorInvIsRight DEF NodesInv, TranslationsAreRight
<1> QED BY <1>1, NodesInvHolds, PTL

\* The check follows single paths and gives up at the first node it meets twice; of the
\* configurations whose nodes report every forward it accepts exactly those in which no
\* node comes to itself or to a node that does not exist.
\* (DataProxyClient::CheckForCycles)
THEOREM CyclesAreRefusedHolds == Spec => []CyclesAreRefused
<1>1. NodesInv => CyclesAreRefused
  <2> SUFFICES ASSUME NodesInv, task = "computed", work.kind = "cycles"
               PROVE  AcceptsTheAcyclic(work.nodes, answer # <<>>)
    BY DEF CyclesAreRefused
  <2>1. work \in Computations /\ answer = Result(work)
    BY DEF NodesInv
  <2>2. Result(work) = IF NoCycles(work.nodes) THEN <<"accepted">> ELSE <<>>
    BY DEF Result
  <2>3. (answer # <<>>) <=> NoCycles(work.nodes)
    BY <2>1, <2>2
  <2>4. AcceptsTheAcyclic(work.nodes, NoCycles(work.nodes))
    BY <2>1, NodesAssumption, ChecksForCycles
  <2> QED BY <2>3, <2>4 DEF AcceptsTheAcyclic
<1> QED BY <1>1, NodesInvHolds, PTL

\* The two loops of a store, over the header and over the parameters, leave every
\* column with the one source that the policy names, or refuse the request; the lines of
\* the data file have under every column what that source has.
\* (DatabaseProxy::StoreImpl, WriteDataFile)
THEOREM StoredColumnsAreRightHolds == Spec => []StoredColumnsAreRight
<1>1. NodesInv => StoredColumnsAreRight
  <2> SUFFICES ASSUME NodesInv, task = "computed", work.kind = "columns"
               PROVE  ColumnsAreRight(work.required, work.policy, work.header, work.lines,
                                      work.parameters, answer)
    BY DEF StoredColumnsAreRight
  <2>1. work \in Computations /\ answer = Result(work)
    BY DEF NodesInv
  <2>2. answer = StoredTable(work.required, work.policy, work.header, work.lines, work.parameters)
    BY <2>1 DEF Result
  <2>3. /\ work.policy \in Policies
        /\ work.header \in Seq(Nat \ {0}) /\ work.lines \in Seq(Seq(Nat))
        /\ DOMAIN work.required \subseteq Nat \ {0} /\ IsFiniteSet(DOMAIN work.required)
        /\ DOMAIN work.parameters \subseteq Nat \ {0} /\ IsFiniteSet(DOMAIN work.parameters)
    BY <2>1, NodesAssumption
  <2> QED BY <2>2, <2>3, StoredAreRight
<1> QED BY <1>1, NodesInvHolds, PTL

\* What the two aggregating transformers print has one line per group, with the
\* aggregates of exactly that group, for every table and every list of keys and
\* fields. (GroupingAggregateStreamTransformer::TransformInput,
\* AggregateStreamTransformer::TransformInput)
THEOREM AggregatesAreRightHolds == Spec => []AggregatesAreRight
<1>1. NodesInv => AggregatesAreRight
  <2> SUFFICES ASSUME NodesInv, task = "computed", work.kind \in {"aggregate", "sorted"}
               PROVE  /\ work.kind = "aggregate" =>
                           IsAggregate(work.header, work.lines, work.keys, work.fields,
                                       work.skipGroup, work.passed, answer)
                      /\ work.kind = "sorted" =>
                           IsSortedAggregate(work.header, work.lines, work.keys, work.fields,
                                             work.skipGroup, work.passed, answer)
    BY DEF AggregatesAreRight
  <2>1. work \in Computations /\ answer = Result(work)
    BY DEF NodesInv
  <2>2. /\ work.header \in Seq(STRING) /\ work.lines \in Seq([DOMAIN work.header -> Int])
        /\ work.keys \in Seq(Keys) /\ work.fields \in Seq(Fields)
    BY <2>1, NodesAssumption
  <2>3. CASE work.kind = "aggregate"
    <3>1. answer = TransformInput(work.header, work.lines, work.keys, work.fields, work.skipGroup,
                                  work.passed)
      BY <2>1, <2>3 DEF Result
    <3>2. IsAggregate(work.header, work.lines, work.keys, work.fields, work.skipGroup,
                           work.passed, answer)
      BY <2>2, <3>1, TransformedIsRight
    <3> QED BY <2>3, <3>2
  <2>4. CASE work.kind = "sorted"
    <3>1. answer = AggregateFields(work.header, work.lines, work.keys, work.fields, work.skipGroup,
                                   work.passed)
      BY <2>1, <2>4 DEF Result
    <3>2. IsSortedAggregate(work.header, work.lines, work.keys, work.fields, work.skipGroup,
                                 work.passed, answer)
      BY <2>2, <3>1, SortedIsRight
    <3> QED BY <2>4, <3>2
  <2> QED BY <2>3, <2>4
<1> QED BY <1>1, NodesInvHolds, PTL
=============================================================================
