---------------------------- MODULE JoinNodeProofs ----------------------------
(***************************************************************************)
(* Lemmas about the requests of a join, for any tables, nodes and types of *)
(* join. The first part is about data: recursion over a number, sequences  *)
(* of lines, their sorting and splitting, files that pipes hand on. The    *)
(* second is about the temporary files of a request, the third about joins *)
(* that append, and about what Selected returns. The last is about joins   *)
(* by columns: what a list of lines is a list of, what join prints, the    *)
(* columns of the header, the combinations the rows stand for, and what    *)
(* the whole command returns.  NodesProofs draws the theorems from them.   *)
(***************************************************************************)
EXTENDS NodePipeline, Integers, FiniteSetTheorems, FunctionTheorems, SequenceTheorems, TLAPS

\* A set of numbers has a least one.
LEMMA LeastNatural ==
  ASSUME NEW T, T \subseteq Nat, T # {}
  PROVE  \E n \in T : \A m \in T : n <= m
<1>1. IsWellFoundedOn(OpToRel(<, Nat), Nat)
  BY NatLessThanWellFounded
<1>2. PICK n \in T : \A m \in T : ~ (<<m, n>> \in OpToRel(<, Nat))
  BY <1>1, WFMin
<1>3. ASSUME NEW m \in T PROVE n <= m
  <2>1. ~ (m < n)
    BY <1>2 DEF OpToRel
  <2> QED BY <2>1
<1> QED BY <1>3

\* Induction, for sets.
LEMMA Induction ==
  ASSUME NEW S, 0 \in S, \A n \in Nat : n \in S => n + 1 \in S
  PROVE  Nat \subseteq S
<1> DEFINE T == Nat \ S
<1>1. SUFFICES ASSUME T # {} PROVE FALSE
  OBVIOUS
<1>2. PICK n \in T : \A m \in T : n <= m
  BY <1>1, LeastNatural
<1>3. n # 0 /\ n - 1 \in Nat /\ n - 1 \notin T
  BY <1>2
<1> QED BY <1>3

\* The steps F of a recursion over S, and a function that is defined by them.
IsStep(F, S) == F \in [Nat -> [S -> S]]

\* What f[n] and f[n - 1] of a recursive definition have to do with one another, for all n.
Iterates(g, b, F, S) ==
  g \in [Nat -> S] /\ \A n \in Nat : g[n] = IF n = 0 THEN b ELSE F[n][g[n - 1]]

\* The same up to m.
IteratesUpto(g, m, b, F, S) ==
  g \in [0 .. m -> S] /\ \A n \in 0 .. m : g[n] = IF n = 0 THEN b ELSE F[n][g[n - 1]]

\* A function that is defined step by step exists.
LEMMA Recursion ==
  ASSUME NEW S, NEW b, NEW F, b \in S, IsStep(F, S)
  PROVE  \E g : Iterates(g, b, F, S)
<1> SUFFICES ASSUME b \in S, F \in [Nat -> [S -> S]]
               PROVE  \E g \in [Nat -> S] : \A n \in Nat : g[n] = IF n = 0 THEN b ELSE F[n][g[n - 1]]
  BY DEF IsStep, Iterates
<1> DEFINE Upto(n, g) == /\ g \in [0 .. n -> S] /\ g[0] = b
                         /\ \A k \in 1 .. n : g[k] = F[k][g[k - 1]]
           T == {n \in Nat : \E g : Upto(n, g)}
<1>1. 0 \in T
  <2>1. Upto(0, [k \in 0 .. 0 |-> b])
    OBVIOUS
  <2> QED BY <2>1
<1>2. ASSUME NEW n \in Nat, n \in T PROVE n + 1 \in T
  <2>1. PICK g : Upto(n, g)
    BY <1>2
  <2> DEFINE h == [k \in 0 .. n + 1 |-> IF k = n + 1 THEN F[n + 1][g[n]] ELSE g[k]]
  <2>2a. g \in [0 .. n -> S] /\ g[0] = b /\ \A k \in 1 .. n : g[k] = F[k][g[k - 1]]
    BY <2>1
  <2>2b. n \in 0 .. n
    OBVIOUS
  <2>2. g \in [0 .. n -> S] /\ g[n] \in S
    BY <2>2a, <2>2b
  <2>3a. n + 1 \in Nat /\ F[n + 1] \in [S -> S]
    BY <2>2
  <2>3. F[n + 1][g[n]] \in S
    BY <2>2, <2>3a
  <2>4. \A k \in 0 .. n + 1 : h[k] = IF k = n + 1 THEN F[n + 1][g[n]] ELSE g[k]
    OBVIOUS
  <2>5. DOMAIN h = 0 .. n + 1 /\ h = [k \in 0 .. n + 1 |-> h[k]]
    OBVIOUS
  <2> HIDE DEF h
  <2>7. ASSUME NEW k \in 0 .. n + 1 PROVE h[k] \in S
    <3>1. CASE k = n + 1
      BY <2>3, <2>4, <3>1
    <3>2. CASE k # n + 1
      <4>1. k \in 0 .. n
        BY <3>2
      <4> QED BY <2>2, <2>4, <3>2, <4>1
    <3> QED BY <3>1, <3>2
  <2>8. h \in [0 .. n + 1 -> S]
    BY <2>5, <2>7
  <2>9. h[0] = b
    BY <2>2a, <2>4
  <2>10. ASSUME NEW k \in 1 .. n + 1 PROVE h[k] = F[k][h[k - 1]]
    <3>1. k - 1 \in 0 .. n /\ k - 1 \in 0 .. n + 1 /\ k \in 0 .. n + 1 /\ k - 1 # n + 1
      OBVIOUS
    <3>2. h[k - 1] = g[k - 1]
      BY <2>4, <3>1
    <3>3. CASE k = n + 1
      BY <2>4, <3>1, <3>2, <3>3
    <3>4. CASE k # n + 1
      BY <2>4, <3>1, <3>2, <3>4, <2>2a
    <3> QED BY <3>3, <3>4
  <2>6. Upto(n + 1, h)
    BY <2>8, <2>9, <2>10
  <2> HIDE DEF Upto
  <2> QED BY <2>6
<1>3. \A n \in Nat : \E g : Upto(n, g)
  <2>1. Nat \subseteq T
    <3> HIDE DEF T
    <3> QED BY <1>1, <1>2, Induction
  <2> QED BY <2>1
<1> DEFINE G == [n \in Nat |-> CHOOSE g : Upto(n, g)]
<1>4. \A n \in Nat : Upto(n, G[n])
  <2> HIDE DEF Upto
  <2> QED BY <1>3
<1>5. ASSUME NEW n \in Nat
      PROVE  /\ G[n][0] = b
             /\ \A k \in 0 .. n : G[n][k] \in S
             /\ \A k \in 1 .. n : G[n][k] = F[k][G[n][k - 1]]
  <2>1. Upto(n, G[n])
    BY <1>4
  <2> HIDE DEF G
  <2> QED BY <2>1
<1> HIDE DEF G, Upto, T
<1>6. ASSUME NEW n \in Nat, NEW k \in Nat, k <= n PROVE G[n][k] = G[n + 1][k]
  <2> DEFINE V == {i \in Nat : i <= n => G[n][i] = G[n + 1][i]}
  <2>1. 0 \in V
    BY <1>5, n + 1 \in Nat
  <2>2. ASSUME NEW i \in Nat, i \in V PROVE i + 1 \in V
    <3>1. SUFFICES ASSUME i + 1 <= n PROVE G[n][i + 1] = G[n + 1][i + 1]
      OBVIOUS
    <3>2. i + 1 \in 1 .. n /\ i + 1 \in 1 .. n + 1 /\ n + 1 \in Nat /\ (i + 1) - 1 = i /\ i <= n
      BY <3>1
    <3>3. G[n][i + 1] = F[i + 1][G[n][i]] /\ G[n + 1][i + 1] = F[i + 1][G[n + 1][i]]
      <4>1. \A j \in 1 .. n : G[n][j] = F[j][G[n][j - 1]]
        BY <1>5
      <4>2. \A j \in 1 .. n + 1 : G[n + 1][j] = F[j][G[n + 1][j - 1]]
        BY <1>5, <3>2
      <4>3. G[n][i + 1] = F[i + 1][G[n][(i + 1) - 1]]
        BY <4>1, <3>2
      <4>4. G[n + 1][i + 1] = F[i + 1][G[n + 1][(i + 1) - 1]]
        BY <4>2, <3>2
      <4> QED BY <4>3, <4>4, <3>2
    <3>4. G[n][i] = G[n + 1][i]
      BY <2>2, <3>2
    <3> QED BY <3>3, <3>4
  <2>3. Nat \subseteq V
    <3> HIDE DEF V
    <3> QED BY <2>1, <2>2, Induction
  <2>4. k \in V
    BY <2>3
  <2> QED BY <2>4, <1>6
<1> DEFINE f == [n \in Nat |-> G[n][n]]
<1>7. \A n \in Nat : f[n] = G[n][n]
  OBVIOUS
<1>8. DOMAIN f = Nat /\ f = [n \in Nat |-> f[n]]
  OBVIOUS
<1> HIDE DEF f
<1>9. f \in [Nat -> S]
  <2>1. ASSUME NEW n \in Nat PROVE f[n] \in S
    <3>1. n \in 0 .. n
      OBVIOUS
    <3> QED BY <1>5, <1>7, <3>1
  <2> QED BY <2>1, <1>8
<1>10. ASSUME NEW n \in Nat PROVE f[n] = IF n = 0 THEN b ELSE F[n][f[n - 1]]
  <2>1. CASE n = 0
    BY <1>5, <1>7, <2>1
  <2>2. CASE n # 0
    <3>1. n - 1 \in Nat /\ n - 1 <= n - 1 /\ (n - 1) + 1 = n /\ n \in 1 .. n
      BY <2>2
    <3>2. G[n][n] = F[n][G[n][n - 1]]
      BY <1>5, <3>1
    <3>3. G[n - 1][n - 1] = G[n][n - 1]
      BY <3>1, <1>6
    <3>4. f[n - 1] = G[n - 1][n - 1]
      BY <1>7, <3>1
    <3> QED BY <1>7, <2>2, <3>2, <3>3, <3>4
  <2> QED BY <2>1, <2>2
<1> QED BY <1>8, <1>9, <1>10

\* The same for finitely many steps.
LEMMA FiniteRecursion ==
  ASSUME NEW S, NEW b, NEW F, NEW m, m \in Nat, b \in S, F \in [1 .. m -> [S -> S]]
  PROVE  \E g : IteratesUpto(g, m, b, F, S)
<1> DEFINE E == [n \in Nat |-> IF n \in 1 .. m THEN F[n] ELSE [x \in S |-> x]]
<1>1. E \in [Nat -> [S -> S]] /\ \A n \in 1 .. m : E[n] = F[n]
  OBVIOUS
<1> HIDE DEF E
<1>2. PICK g : Iterates(g, b, E, S)
  BY <1>1, Recursion DEF IsStep
<1> DEFINE h == [n \in 0 .. m |-> g[n]]
<1>3. h \in [0 .. m -> S] /\ \A n \in 0 .. m : h[n] = g[n]
  BY <1>2 DEF Iterates
<1> HIDE DEF h
<1>4. ASSUME NEW n \in 0 .. m PROVE h[n] = IF n = 0 THEN b ELSE F[n][h[n - 1]]
  <2>1. CASE n = 0
    BY <2>1, <1>2, <1>3 DEF Iterates
  <2>2. CASE n # 0
    <3>1. n \in 1 .. m /\ n - 1 \in 0 .. m /\ n \in Nat
      BY <2>2
    <3>2. g[n] = E[n][g[n - 1]]
      BY <2>2, <3>1, <1>2 DEF Iterates
    <3> QED BY <1>1, <1>3, <2>2, <3>1, <3>2
  <2> QED BY <2>1, <2>2
<1>5. IteratesUpto(h, m, b, F, S)
  BY <1>3, <1>4 DEF IteratesUpto
<1> QED BY <1>5

-----------------------------------------------------------------------------
\* The sequences that FlattenSeq concatenates, one after the other.
Flattens(g, ss, X) ==
  /\ g \in [0 .. Len(ss) -> Seq(X)] /\ g[0] = <<>>
  /\ \A n \in 1 .. Len(ss) : g[n] = g[n - 1] \o ss[n]
  /\ FlattenSeq(ss) = g[Len(ss)]

\* FlattenSeq goes through the sequences from the first to the last.
LEMMA FlattenSeqSteps ==
  ASSUME NEW X, NEW ss \in Seq(Seq(X))
  PROVE  \E g : Flattens(g, ss, X)
<1> DEFINE L == Len(ss)
           F == [n \in 1 .. L |-> [x \in Seq(X) |-> x \o ss[n]]]
           P(h) == h = [i \in 1 .. L |-> IF i = 1 THEN ss[i] ELSE h[i - 1] \o ss[i]]
<1>1. L \in Nat /\ \A n \in 1 .. L : ss[n] \in Seq(X)
  BY LenProperties
<1>2. \A n \in 1 .. L, x \in Seq(X) : x \o ss[n] \in Seq(X)
  BY <1>1, ConcatProperties
<1>3. F \in [1 .. L -> [Seq(X) -> Seq(X)]] /\ \A n \in 1 .. L, x \in Seq(X) : F[n][x] = x \o ss[n]
  BY <1>2
<1> HIDE DEF F, L
<1>4. PICK g : IteratesUpto(g, L, <<>>, F, Seq(X))
  <2>1. <<>> \in Seq(X)
    OBVIOUS
  <2> QED BY <1>1, <1>3, <2>1, FiniteRecursion
<1>5. /\ g \in [0 .. L -> Seq(X)]
      /\ g[0] = <<>>
      /\ \A n \in 1 .. L : g[n] = g[n - 1] \o ss[n]
  <2>1. g \in [0 .. L -> Seq(X)] /\ \A n \in 0 .. L : g[n] = IF n = 0 THEN <<>> ELSE F[n][g[n - 1]]
    BY <1>4 DEF IteratesUpto
  <2>2. g[0] = <<>>
    BY <1>1, <2>1
  <2>3. ASSUME NEW n \in 1 .. L PROVE g[n] = g[n - 1] \o ss[n]
    <3>1. n \in 0 .. L /\ n # 0 /\ n - 1 \in 0 .. L
      BY <1>1
    <3>2. g[n - 1] \in Seq(X) /\ g[n] = F[n][g[n - 1]]
      BY <2>1, <3>1
    <3> QED BY <1>3, <3>2
  <2> QED BY <2>1, <2>2, <2>3
<1>5a. ASSUME L # 0 PROVE g[1] = <<>> \o ss[1] /\ ss[1] \in Seq(X) /\ 1 \in 1 .. L
  <2>1. 1 \in 1 .. L /\ 1 - 1 = 0
    BY <1>1, <1>5a
  <2>2. g[1] = g[1 - 1] \o ss[1]
    BY <1>5, <2>1
  <2> QED BY <1>1, <1>5, <2>1, <2>2
<1>6. CASE L = 0
  <2>1. FlattenSeq(ss) = ss
    BY <1>6 DEF FlattenSeq, L
  <2>2. ss = <<>>
    BY <1>6, EmptySeq DEF L
  <2> QED BY <1>5, <1>6, <2>1, <2>2 DEF Flattens, L
<1>7. CASE L # 0
  <2> DEFINE h == [i \in 1 .. L |-> g[i]]
             f == CHOOSE k : P(k)
  <2>1. P(h)
    <3>1. ASSUME NEW i \in 1 .. L PROVE g[i] = IF i = 1 THEN ss[i] ELSE h[i - 1] \o ss[i]
      <4>1. CASE i = 1
        BY <1>5a, <1>7, <4>1, ConcatEmptySeq
      <4>2. CASE i # 1
        <5>1. i - 1 \in 1 .. L
          BY <1>1, <4>2
        <5> QED BY <1>5, <4>2, <5>1
      <4> QED BY <4>1, <4>2
    <3> QED BY <3>1
  <2>2. P(f)
    <3> HIDE DEF P, h
    <3> QED BY <2>1
  <2>3. FlattenSeq(ss) = f[L]
    <3>1. L = Len(ss)
      BY DEF L
    <3> HIDE DEF L
    <3> QED BY Zenon, <1>7, <3>1 DEF FlattenSeq, f, P
  <2>4. \A i \in 1 .. L : f[i] = IF i = 1 THEN ss[i] ELSE f[i - 1] \o ss[i]
    <3> HIDE DEF f
    <3> QED BY <2>2
  <2> HIDE DEF f, h, P
  <2> DEFINE S == {n \in Nat : n + 1 <= L => f[n + 1] = g[n + 1]}
  <2>5. 0 \in S
    <3>2. f[1] = g[1]
      BY <1>5a, <1>7, <2>4, ConcatEmptySeq
    <3> QED BY <3>2
  <2>6. ASSUME NEW n \in Nat, n \in S PROVE n + 1 \in S
    <3>1. SUFFICES ASSUME (n + 1) + 1 <= L PROVE f[(n + 1) + 1] = g[(n + 1) + 1]
      OBVIOUS
    <3> DEFINE i == (n + 1) + 1
    <3>2. i \in 1 .. L /\ i # 1 /\ i - 1 = n + 1 /\ n + 1 <= L
      BY <1>1, <3>1
    <3>3. f[n + 1] = g[n + 1]
      BY <2>6, <3>2
    <3> HIDE DEF i
    <3>4. f[i] = f[i - 1] \o ss[i] /\ g[i] = g[i - 1] \o ss[i]
      BY <1>5, <2>4, <3>2
    <3>5. f[i] = g[i]
      BY <3>2, <3>3, <3>4
    <3> QED BY <3>5 DEF i
  <2>7. L - 1 \in S
    <3>1. Nat \subseteq S
      <4> HIDE DEF S
      <4> QED BY <2>5, <2>6, Induction
    <3>2. L - 1 \in Nat
      BY <1>1, <1>7
    <3> QED BY <3>1, <3>2
  <2>8. f[L] = g[L]
    BY <1>1, <2>7
  <2> QED BY <1>5, <2>3, <2>8 DEF Flattens, L
<1> QED BY <1>6, <1>7

\* What FlattenSeq returns is a sequence of what the sequences hold.
LEMMA FlattenSeqType ==
  ASSUME NEW X, NEW ss \in Seq(Seq(X))
  PROVE  FlattenSeq(ss) \in Seq(X)
<1>1. PICK g : Flattens(g, ss, X)
  BY FlattenSeqSteps
<1>2. Len(ss) \in 0 .. Len(ss)
  BY LenProperties
<1> QED BY <1>1, <1>2 DEF Flattens

\* What one sequence more adds.
LEMMA FlattenSeqAppend ==
  ASSUME NEW X, NEW ss \in Seq(Seq(X)), NEW s \in Seq(X)
  PROVE  FlattenSeq(Append(ss, s)) = FlattenSeq(ss) \o s
<1> DEFINE L == Len(ss)
           tt == Append(ss, s)
<1>1. /\ tt \in Seq(Seq(X)) /\ Len(tt) = L + 1 /\ tt[L + 1] = s
      /\ \A n \in 1 .. L : tt[n] = ss[n]
  BY AppendProperties
<1>2. L \in Nat
  BY LenProperties
<1> HIDE DEF L, tt
<1>3. PICK g : Flattens(g, ss, X)
  BY FlattenSeqSteps
<1>4. PICK h : Flattens(h, tt, X)
  BY <1>1, FlattenSeqSteps
<1> DEFINE S == {n \in Nat : n <= L => h[n] = g[n]}
<1>5. 0 \in S
  BY <1>3, <1>4 DEF Flattens
<1>6. ASSUME NEW n \in Nat, n \in S PROVE n + 1 \in S
  <2>1. SUFFICES ASSUME n + 1 <= L PROVE h[n + 1] = g[n + 1]
    OBVIOUS
  <2>2. n + 1 \in 1 .. L /\ n + 1 \in 1 .. L + 1 /\ (n + 1) - 1 = n /\ n <= L
    BY <1>2, <2>1
  <2>3. h[n + 1] = h[(n + 1) - 1] \o tt[n + 1] /\ g[n + 1] = g[(n + 1) - 1] \o ss[n + 1]
    BY <1>1, <1>3, <1>4, <2>2 DEF Flattens, L
  <2>4. h[n] = g[n]
    BY <1>6, <2>2
  <2> QED BY <1>1, <2>2, <2>3, <2>4
<1>7. h[L] = g[L]
  <2>1. Nat \subseteq S
    <3> HIDE DEF S
    <3> QED BY <1>5, <1>6, Induction
  <2> QED BY <1>2, <2>1
<1>8. h[L + 1] = h[L] \o s
  <2>1. L + 1 \in 1 .. L + 1 /\ (L + 1) - 1 = L
    BY <1>2
  <2>2. h[L + 1] = h[(L + 1) - 1] \o tt[L + 1]
    BY <1>1, <1>4, <2>1 DEF Flattens
  <2> QED BY <1>1, <2>1, <2>2
<1> QED BY <1>1, <1>3, <1>4, <1>7, <1>8 DEF Flattens, L, tt

\* No sequences make an empty one.
LEMMA FlattenSeqEmpty == FlattenSeq(<<>>) = <<>>
BY DEF FlattenSeq

-----------------------------------------------------------------------------
\* The lines with a cell at i among the first n lines.
Picks(g, lines, i, cell, X) ==
  /\ g \in [0 .. Len(lines) -> Seq(X)] /\ g[0] = <<>>
  /\ \A n \in 1 .. Len(lines) :
       g[n] = IF CellAt(lines[n], i) = cell THEN Append(g[n - 1], lines[n]) ELSE g[n - 1]
  /\ Having(lines, i, cell) = g[Len(lines)]

\* Having goes through the lines from the first to the last.
LEMMA HavingSteps ==
  ASSUME NEW X, NEW lines \in Seq(X), NEW i, NEW cell
  PROVE  \E g : Picks(g, lines, i, cell, X)
<1> DEFINE L == Len(lines)
           One(n, x) == IF CellAt(lines[n], i) = cell THEN Append(x, lines[n]) ELSE x
           F == [n \in 1 .. L |-> [x \in Seq(X) |-> One(n, x)]]
           P(h) == h = [n \in 0 .. L |->
                          IF n = 0 THEN <<>>
                          ELSE IF CellAt(lines[n], i) = cell THEN Append(h[n - 1], lines[n])
                          ELSE h[n - 1]]
           f == CHOOSE h : P(h)
<1>1. L \in Nat /\ \A n \in 1 .. L : lines[n] \in X
  BY LenProperties
<1>2. \A n \in 1 .. L, x \in Seq(X) : One(n, x) \in Seq(X)
  BY <1>1, AppendProperties
<1>3. F \in [1 .. L -> [Seq(X) -> Seq(X)]] /\ \A n \in 1 .. L, x \in Seq(X) : F[n][x] = One(n, x)
  BY <1>2
<1>4. Having(lines, i, cell) = f[L]
  BY Zenon DEF Having, L, f, P
<1>5. \A n, x : One(n, x) = IF CellAt(lines[n], i) = cell THEN Append(x, lines[n]) ELSE x
  OBVIOUS
<1> HIDE DEF F, L, One
<1>6. PICK g : IteratesUpto(g, L, <<>>, F, Seq(X))
  <2>1. <<>> \in Seq(X)
    OBVIOUS
  <2> QED BY <1>1, <1>3, <2>1, FiniteRecursion
<1>7. g \in [0 .. L -> Seq(X)] /\ \A n \in 0 .. L : g[n] = IF n = 0 THEN <<>> ELSE F[n][g[n - 1]]
  BY <1>6 DEF IteratesUpto
<1>8. ASSUME NEW n \in 1 .. L PROVE g[n] = One(n, g[n - 1])
  <2>1. n \in 0 .. L /\ n # 0 /\ n - 1 \in 0 .. L
    BY <1>1
  <2>2. g[n - 1] \in Seq(X) /\ g[n] = F[n][g[n - 1]]
    BY <1>7, <2>1
  <2> QED BY <1>3, <2>2
<1>9. g[0] = <<>>
  BY <1>1, <1>7
<1>10. P(g)
  <2>1. ASSUME NEW n \in 0 .. L
        PROVE  g[n] = IF n = 0 THEN <<>>
                      ELSE IF CellAt(lines[n], i) = cell THEN Append(g[n - 1], lines[n])
                      ELSE g[n - 1]
    <3>1. CASE n = 0
      BY <1>9, <3>1
    <3>2. CASE n # 0
      <4>1. n \in 1 .. L
        BY <1>1, <3>2
      <4> QED BY <1>5, <1>8, <3>2, <4>1
    <3> QED BY <3>1, <3>2
  <2> QED BY <1>7, <2>1
<1>11. P(f)
  <2> HIDE DEF P
  <2> QED BY <1>10
<1>12. /\ f[0] = <<>>
       /\ \A n \in 1 .. L : f[n] = One(n, f[n - 1])
  <2> HIDE DEF f
  <2>1. 0 \in 0 .. L /\ \A n \in 1 .. L : n \in 0 .. L /\ n # 0
    BY <1>1
  <2> QED BY <1>5, <1>11, <2>1
<1> HIDE DEF f, P
<1> DEFINE S == {n \in Nat : n <= L => f[n] = g[n]}
<1>13. 0 \in S
  BY <1>9, <1>12
<1>14. ASSUME NEW n \in Nat, n \in S PROVE n + 1 \in S
  <2>1. SUFFICES ASSUME n + 1 <= L PROVE f[n + 1] = g[n + 1]
    OBVIOUS
  <2>2. n + 1 \in 1 .. L /\ (n + 1) - 1 = n /\ n <= L
    BY <1>1, <2>1
  <2>3. f[n] = g[n]
    BY <1>14, <2>2
  <2>4. f[n + 1] = One(n + 1, f[(n + 1) - 1]) /\ g[n + 1] = One(n + 1, g[(n + 1) - 1])
    BY <1>8, <1>12, <2>2
  <2> QED BY <2>2, <2>3, <2>4
<1>15. f[L] = g[L]
  <2>1. Nat \subseteq S
    <3> HIDE DEF S
    <3> QED BY <1>13, <1>14, Induction
  <2> QED BY <1>1, <2>1
<1> QED BY <1>4, <1>5, <1>7, <1>8, <1>9, <1>15 DEF Picks, L

\* How often a line occurs.
Count(s, x) == Cardinality({n \in DOMAIN s : s[n] = x})

\* Counts add up.
LEMMA CountConcat ==
  ASSUME NEW X, NEW s \in Seq(X), NEW t \in Seq(X), NEW x
  PROVE  Count(s, x) \in Nat /\ Count(s \o t, x) = Count(s, x) + Count(t, x)
<1> DEFINE A == {n \in DOMAIN s : s[n] = x}
           B == {n \in DOMAIN t : t[n] = x}
           C == {n \in DOMAIN (s \o t) : (s \o t)[n] = x}
           k == Len(s)
           E == {n \in C : n > k}
           f == [n \in B |-> n + k]
<1>1. /\ k \in Nat /\ Len(t) \in Nat /\ DOMAIN s = 1 .. k /\ DOMAIN t = 1 .. Len(t)
      /\ DOMAIN (s \o t) = 1 .. k + Len(t)
      /\ \A n \in 1 .. k + Len(t) : (s \o t)[n] = IF n <= k THEN s[n] ELSE t[n - k]
  BY ConcatProperties, LenProperties
<1>2. IsFiniteSet(A) /\ IsFiniteSet(B) /\ IsFiniteSet(C)
  <2>1. IsFiniteSet(1 .. k) /\ IsFiniteSet(1 .. Len(t)) /\ IsFiniteSet(1 .. k + Len(t))
    BY <1>1, FS_Interval
  <2>2. A \in SUBSET (1 .. k) /\ B \in SUBSET (1 .. Len(t)) /\ C \in SUBSET (1 .. k + Len(t))
    BY <1>1
  <2> HIDE DEF A, B, C
  <2> QED BY <2>1, <2>2, FS_Subset
<1>3. A \cup E = C /\ A \cap E = {}
  <2>1. ASSUME NEW n \in A PROVE n \in C /\ n \notin E
    <3>1. n \in 1 .. k /\ n \in 1 .. k + Len(t) /\ n <= k /\ s[n] = x /\ ~ (n > k)
      BY <1>1
    <3>2. (s \o t)[n] = s[n]
      BY <1>1, <3>1
    <3> QED BY <1>1, <3>1, <3>2
  <2>2. ASSUME NEW n \in C, n \notin E PROVE n \in A
    <3>1. n \in 1 .. k + Len(t) /\ ~ (n > k) /\ (s \o t)[n] = x
      BY <1>1, <2>2
    <3>2. n \in 1 .. k /\ n <= k
      BY <1>1, <3>1
    <3>3. (s \o t)[n] = s[n]
      BY <1>1, <3>1, <3>2
    <3> QED BY <1>1, <3>1, <3>2, <3>3
  <2> QED BY <2>1, <2>2
<1>4. f \in Bijection(B, E)
  <2>1. ASSUME NEW n \in B PROVE n + k \in E
    <3>1. n \in 1 .. Len(t) /\ t[n] = x /\ n + k \in 1 .. k + Len(t) /\ n + k > k
          /\ ~ (n + k <= k) /\ (n + k) - k = n
      BY <1>1
    <3>2. (s \o t)[n + k] = t[(n + k) - k]
      BY <1>1, <3>1
    <3>3. (s \o t)[n + k] = x
      BY <3>1, <3>2
    <3> QED BY <1>1, <3>1, <3>3
  <2>2. ASSUME NEW n \in E PROVE \E m \in B : f[m] = n
    <3>1. n \in 1 .. k + Len(t) /\ n > k /\ (s \o t)[n] = x
      BY <1>1
    <3>2. n - k \in 1 .. Len(t) /\ ~ (n <= k) /\ (n - k) + k = n
      BY <1>1, <3>1
    <3>3. t[n - k] = x
      BY <1>1, <3>1, <3>2
    <3> QED BY <1>1, <3>2, <3>3
  <2>3. ASSUME NEW m \in B, NEW n \in B, f[m] = f[n] PROVE m = n
    <3>1. m \in 1 .. Len(t) /\ n \in 1 .. Len(t) /\ m + k = n + k
      BY <1>1, <2>3
    <3> QED BY <1>1, <3>1
  <2>4. f \in [B -> E] /\ DOMAIN f = B
    BY <2>1
  <2> HIDE DEF f, B, E
  <2> QED BY <2>2, <2>3, <2>4 DEF Bijection, Injection, Surjection, IsInjective
<1> HIDE DEF A, B, C, E, f
<1>5. IsFiniteSet(E) /\ Cardinality(E) = Cardinality(B)
  BY <1>2, <1>4, FS_Bijection DEF ExistsBijection
<1>6. Cardinality(C) = Cardinality(A) + Cardinality(E) - Cardinality({})
  BY <1>2, <1>3, <1>5, FS_Union
<1>7. Cardinality(A) \in Nat /\ Cardinality(E) \in Nat
  BY <1>2, <1>5, FS_CardinalityType
<1>8. Cardinality(C) = Cardinality(A) + Cardinality(B)
  BY <1>5, <1>6, <1>7, FS_EmptySet
<1> QED BY <1>7, <1>8 DEF Count, A, B, C

\* A sequence of one element has it once.
LEMMA CountOne ==
  ASSUME NEW y, NEW x
  PROVE  Count(<<y>>, x) = IF y = x THEN 1 ELSE 0
<1>1. DOMAIN <<y>> = {1} /\ <<y>>[1] = y
  OBVIOUS
<1>2. CASE y = x
  <2>1. {n \in DOMAIN <<y>> : <<y>>[n] = x} = {1}
    BY <1>1, <1>2
  <2> QED BY <1>2, <2>1, FS_Singleton DEF Count
<1>3. CASE y # x
  <2>1. {n \in DOMAIN <<y>> : <<y>>[n] = x} = {}
    BY <1>1, <1>3
  <2> QED BY <1>3, <2>1, FS_EmptySet DEF Count
<1> QED BY <1>2, <1>3

\* The empty sequence has nothing.
LEMMA CountEmpty ==
  ASSUME NEW x PROVE Count(<<>>, x) = 0
<1>1. {n \in DOMAIN <<>> : <<>>[n] = x} = {}
  OBVIOUS
<1> QED BY <1>1, FS_EmptySet DEF Count

\* Two sequences in which every line occurs as often are the same bag.
LEMMA SameTimes ==
  ASSUME NEW X, NEW s \in Seq(X), NEW t \in Seq(X), \A x : Count(s, x) = Count(t, x)
  PROVE  Range(s) = Range(t)
<1>1. ASSUME NEW u \in Seq(X), NEW x
      PROVE  x \in Range(u) <=> Count(u, x) # 0
  <2> DEFINE A == {n \in DOMAIN u : u[n] = x}
  <2>1. DOMAIN u = 1 .. Len(u) /\ Len(u) \in Nat
    BY <1>1, LenProperties
  <2>2. IsFiniteSet(DOMAIN u)
    BY <2>1, FS_Interval
  <2>3. IsFiniteSet(A)
    <3>1. A \in SUBSET DOMAIN u
      OBVIOUS
    <3> HIDE DEF A
    <3> QED BY <2>2, <3>1, FS_Subset
  <2>4. Count(u, x) = Cardinality(A)
    BY DEF Count
  <2>5. x \in Range(u) <=> A # {}
    BY DEF Range
  <2> HIDE DEF A
  <2> QED BY <2>3, <2>4, <2>5, FS_EmptySet
<1> QED BY <1>1

-----------------------------------------------------------------------------
\* Having picks the lines with that cell, each as often as it is there.
LEMMA HavingIs ==
  ASSUME NEW X, NEW lines \in Seq(X), NEW i, NEW cell
  PROVE  /\ Having(lines, i, cell) \in Seq(X)
         /\ \A n \in 1 .. Len(Having(lines, i, cell)) : CellAt(Having(lines, i, cell)[n], i) = cell
         /\ \A x : Count(Having(lines, i, cell), x) = IF CellAt(x, i) = cell THEN Count(lines, x) ELSE 0
<1> DEFINE L == Len(lines)
           Before(n) == SubSeq(lines, 1, n)
<1>1. L \in Nat /\ \A n \in 1 .. L : lines[n] \in X
  BY LenProperties
<1>2. PICK g : Picks(g, lines, i, cell, X)
  BY HavingSteps
<1>3. /\ g \in [0 .. L -> Seq(X)] /\ g[0] = <<>>
      /\ \A n \in 1 .. L : g[n] = IF CellAt(lines[n], i) = cell THEN Append(g[n - 1], lines[n]) ELSE g[n - 1]
      /\ Having(lines, i, cell) = g[L]
  BY <1>2 DEF Picks
<1>4. ASSUME NEW n \in 1 .. L
      PROVE  /\ Before(n - 1) \in Seq(X) /\ Before(n) = Before(n - 1) \o <<lines[n]>>
  <2>1. n \in 1 .. Len(lines) /\ 1 \in 1 .. Len(lines) /\ n \in 1 .. Len(lines)
    BY <1>1
  <2>2. SubSeq(lines, 1, n) = SubSeq(lines, 1, n - 1) \o << lines[n] >>
    BY <2>1, SubSeqRecursiveSecond
  <2>3. \A m \in 1 .. n - 1 : lines[m] \in X
    BY <1>1
  <2>4. SubSeq(lines, 1, n - 1) \in Seq(X)
    <3>1. n - 1 \in Int
      BY <1>1
    <3> QED BY <2>3, <3>1, SubSeqProperties
  <2> QED BY <2>2, <2>4
<1>5. Before(0) = <<>> /\ Before(L) = lines
  <2>1. SubSeq(lines, 1, 0) = <<>>
    BY SubSeqEmpty
  <2> QED BY <2>1, SubSeqFull
<1> HIDE DEF L, Before
<1> DEFINE Counts(n) == \A x : Count(g[n], x) = IF CellAt(x, i) = cell THEN Count(Before(n), x) ELSE 0
           Cells(n) == \A m \in 1 .. Len(g[n]) : CellAt(g[n][m], i) = cell
           S == {n \in Nat : n <= L => Counts(n) /\ Cells(n)}
<1>6. 0 \in S
  <2>1. Counts(0)
    BY <1>3, <1>5, CountEmpty
  <2>2. Cells(0)
    BY <1>3
  <2> QED BY <2>1, <2>2
<1>7. ASSUME NEW k \in Nat, k \in S PROVE k + 1 \in S
  <2>1. SUFFICES ASSUME k + 1 <= L PROVE Counts(k + 1) /\ Cells(k + 1)
    OBVIOUS
  <2> DEFINE n == k + 1
  <2>2. n \in 1 .. L /\ n - 1 = k /\ k <= L /\ k \in 0 .. L
    BY <1>1, <2>1
  <2>3. Counts(k) /\ Cells(k)
    BY <1>7, <2>2
  <2>4. g[k] \in Seq(X) /\ lines[n] \in X /\ Before(k) \in Seq(X) /\ Before(n) = Before(k) \o <<lines[n]>>
    BY <1>1, <1>3, <1>4, <2>2
  <2>5. g[n] = IF CellAt(lines[n], i) = cell THEN Append(g[k], lines[n]) ELSE g[k]
    BY <1>3, <2>2
  <2> HIDE DEF n
  <2>6. \A x : Count(Before(n), x) = Count(Before(k), x) + Count(<<lines[n]>>, x) /\ Count(Before(k), x) \in Nat
    <3>1. <<lines[n]>> \in Seq(X)
      BY <2>4
    <3>2. ASSUME NEW x
          PROVE  Count(Before(k) \o <<lines[n]>>, x) = Count(Before(k), x) + Count(<<lines[n]>>, x)
                   /\ Count(Before(k), x) \in Nat
      BY <2>4, <3>1, CountConcat
    <3> QED BY <2>4, <3>2
  <2>7. CASE CellAt(lines[n], i) = cell
    <3>1. g[n] = g[k] \o <<lines[n]>> /\ <<lines[n]>> \in Seq(X)
      BY <2>4, <2>5, <2>7, AppendIsConcat
    <3>2a. ASSUME NEW x
           PROVE  Count(g[k] \o <<lines[n]>>, x) = Count(g[k], x) + Count(<<lines[n]>>, x)
      BY <2>4, <3>1, CountConcat
    <3>2. \A x : Count(g[n], x) = Count(g[k], x) + Count(<<lines[n]>>, x)
      BY <3>1, <3>2a
    <3>3. ASSUME NEW x PROVE Count(g[n], x) = IF CellAt(x, i) = cell THEN Count(Before(n), x) ELSE 0
      <4>1. CASE CellAt(x, i) = cell
        BY <2>3, <2>6, <3>2, <4>1
      <4>2. CASE CellAt(x, i) # cell
        <5>1. Count(<<lines[n]>>, x) = 0
          BY <2>7, <4>2, CountOne
        <5>2. Count(g[k], x) = 0
          BY <2>3, <4>2
        <5> QED BY <3>2, <4>2, <5>1, <5>2
      <4> QED BY <4>1, <4>2
    <3>4. Cells(n)
      <4>1. /\ Len(g[n]) = Len(g[k]) + 1 /\ g[n][Len(g[k]) + 1] = lines[n]
            /\ \A m \in 1 .. Len(g[k]) : g[n][m] = g[k][m]
            /\ Len(g[k]) \in Nat
        BY <2>4, <2>5, <2>7, AppendProperties, LenProperties
      <4>2. \A m \in 1 .. Len(g[k]) + 1 : m \in 1 .. Len(g[k]) \/ m = Len(g[k]) + 1
        BY <4>1
      <4> QED BY <2>3, <2>7, <4>1, <4>2
    <3> QED BY <3>3, <3>4 DEF n
  <2>8. CASE CellAt(lines[n], i) # cell
    <3>1. g[n] = g[k]
      BY <2>5, <2>8
    <3>2. ASSUME NEW x PROVE Count(g[n], x) = IF CellAt(x, i) = cell THEN Count(Before(n), x) ELSE 0
      <4>1. CASE CellAt(x, i) = cell
        <5>1. Count(<<lines[n]>>, x) = 0
          BY <2>8, <4>1, CountOne
        <5> QED BY <2>3, <2>6, <3>1, <4>1, <5>1
      <4>2. CASE CellAt(x, i) # cell
        BY <2>3, <3>1, <4>2
      <4> QED BY <4>1, <4>2
    <3>3. Cells(n)
      BY <2>3, <3>1
    <3> QED BY <3>2, <3>3 DEF n
  <2> QED BY <2>7, <2>8
<1>8. Counts(L) /\ Cells(L)
  <2>1. Nat \subseteq S
    <3> HIDE DEF S
    <3> QED BY <1>6, <1>7, Induction
  <2> QED BY <1>1, <2>1
<1>9. g[L] \in Seq(X)
  <2>1. L \in 0 .. L
    BY <1>1
  <2> QED BY <1>3, <2>1
<1> QED BY <1>3, <1>5, <1>8, <1>9

\* The sequence of a finite set has every element once.
LEMMA SetToSeqIs ==
  ASSUME NEW S, IsFiniteSet(S)
  PROVE  /\ SetToSeq(S) \in Seq(S) /\ Len(SetToSeq(S)) = Cardinality(S)
         /\ SetToSeq(S) \in [1 .. Cardinality(S) -> S]
         /\ \A m, n \in 1 .. Len(SetToSeq(S)) : SetToSeq(S)[m] = SetToSeq(S)[n] => m = n
         /\ \A x \in S : \E n \in 1 .. Len(SetToSeq(S)) : SetToSeq(S)[n] = x
<1> DEFINE c == Cardinality(S)
           f == SetToSeq(S)
<1>1. c \in Nat /\ ExistsBijection(1 .. c, S)
  BY FS_CardinalityType
<1>2. PICK h \in [1 .. c -> S] : IsInjective(h)
  BY <1>1 DEF ExistsBijection, Bijection, Injection
<1>3. f \in [1 .. c -> S] /\ IsInjective(f)
  BY <1>2 DEF SetToSeq
<1> HIDE DEF f
<1>4. f \in Seq(S) /\ Len(f) = c
  <2>1. f \in Seq(S)
    BY <1>1, <1>3, SeqDef
  <2>2. Len(f) \in Nat /\ DOMAIN f = 1 .. Len(f) /\ DOMAIN f = 1 .. c
    BY <1>3, <2>1, LenProperties
  <2>3. (Len(f) # 0 => Len(f) \in 1 .. c) /\ (c # 0 => c \in 1 .. Len(f))
    <3>1. (Len(f) # 0 => Len(f) \in 1 .. Len(f)) /\ (c # 0 => c \in 1 .. c)
      BY <1>1, <2>2
    <3> QED BY <2>2, <3>1
  <2>4. Len(f) \in Nat /\ c \in Nat
    BY <1>1, <2>2
  <2>5. Len(f) = c
    BY <2>3, <2>4
  <2> QED BY <2>1, <2>5
<1>5. f \in Injection(1 .. c, S)
  BY <1>3 DEF Injection
<1>6. IsFiniteSet(1 .. c) /\ Cardinality(1 .. c) = c
  BY <1>1, FS_Interval
<1>7. f \in Surjection(1 .. c, S)
  BY <1>5, <1>6, FS_Injection
<1> QED BY <1>3, <1>4, <1>7 DEF IsInjective, Surjection, f

\* Lines of one cell are next to each other.
Grouped(rows, i) ==
  \A a, b, c \in 1 .. Len(rows) :
    a < b /\ b < c /\ CellAt(rows[a], i) = CellAt(rows[c], i) => CellAt(rows[b], i) = CellAt(rows[a], i)

\* The cells of a column are finitely many, and those of every line are among them.
LEMMA CellsOfFinite ==
  ASSUME NEW X, NEW lines \in Seq(X), NEW i
  PROVE  IsFiniteSet(CellsOf(lines, i)) /\ \A n \in 1 .. Len(lines) : CellAt(lines[n], i) \in CellsOf(lines, i)
<1> DEFINE K == CellsOf(lines, i)
           f == [n \in 1 .. Len(lines) |-> CellAt(lines[n], i)]
<1>1. Len(lines) \in Nat /\ DOMAIN lines = 1 .. Len(lines)
  BY LenProperties
<1>2. \A n \in 1 .. Len(lines) : CellAt(lines[n], i) \in K
  BY <1>1 DEF CellsOf, Range
<1>3. \A k \in K : \E n \in 1 .. Len(lines) : CellAt(lines[n], i) = k
  BY <1>1 DEF CellsOf, Range
<1> HIDE DEF K
<1>4. f \in Surjection(1 .. Len(lines), K)
  BY <1>2, <1>3 DEF Surjection
<1> HIDE DEF f
<1>5. IsFiniteSet(1 .. Len(lines))
  BY <1>1, FS_Interval
<1>6. IsFiniteSet(K)
  BY <1>4, <1>5, FS_Surjection
<1> QED BY <1>2, <1>6 DEF K

\* sort keeps every line as often as it is there and puts those of one cell together.
LEMMA SortedIs ==
  ASSUME NEW X, NEW lines \in Seq(X), NEW i
  PROVE  /\ Sorted(lines, i) \in Seq(X)
         /\ \A x : Count(Sorted(lines, i), x) = Count(lines, x)
         /\ Grouped(Sorted(lines, i), i)
<1> DEFINE K == CellsOf(lines, i)
           cells == SetToSeq(K)
           m == Len(cells)
           ss == [n \in DOMAIN cells |-> Having(lines, i, cells[n])]
<1>1. /\ cells \in Seq(K)
      /\ \A n, k \in 1 .. m : cells[n] = cells[k] => n = k
      /\ \A c \in K : \E n \in 1 .. m : cells[n] = c
  BY CellsOfFinite, SetToSeqIs
<1>2. m \in Nat /\ DOMAIN cells = 1 .. m
  BY <1>1, LenProperties
<1>3. \A n \in 1 .. m : ss[n] = Having(lines, i, cells[n])
  BY <1>2
<1>4. ss \in Seq(Seq(X)) /\ Len(ss) = m
  <2>1. \A n \in 1 .. m : Having(lines, i, cells[n]) \in Seq(X)
    BY HavingIs
  <2>2. ss \in [1 .. m -> Seq(X)]
    BY <1>2, <2>1
  <2>3. ss \in Seq(Seq(X))
    BY <1>2, <2>2, SeqDef
  <2>4. Len(ss) = m
    <3>1. DOMAIN ss = 1 .. m
      BY <2>2
    <3> HIDE DEF ss, m
    <3>2. Len(ss) \in Nat /\ m \in Nat /\ DOMAIN ss = 1 .. Len(ss)
      BY <1>2, <2>3, LenProperties
    <3>3. (Len(ss) # 0 => Len(ss) \in 1 .. m) /\ (m # 0 => m \in 1 .. Len(ss))
      <4>1. (Len(ss) # 0 => Len(ss) \in 1 .. Len(ss)) /\ (m # 0 => m \in 1 .. m)
        BY <3>2
      <4> QED BY <3>1, <3>2, <4>1
    <3>4. Len(ss) \in Nat /\ m \in Nat
      BY <3>2
    <3> QED BY <3>3, <3>4
  <2> QED BY <2>3, <2>4
<1>5. Sorted(lines, i) = FlattenSeq(ss)
  BY DEF Sorted
<1>6. /\ \A n \in 1 .. m : ss[n] \in Seq(X)
      /\ \A n \in 1 .. m : \A k \in 1 .. Len(ss[n]) : CellAt(ss[n][k], i) = cells[n]
      /\ \A n \in 1 .. m : \A x : Count(ss[n], x) = IF CellAt(x, i) = cells[n] THEN Count(lines, x) ELSE 0
  BY <1>3, HavingIs
<1>7. \A n \in 1 .. Len(lines) : CellAt(lines[n], i) \in K
  BY CellsOfFinite
<1> HIDE DEF ss, cells, K, m
<1>8. PICK g : Flattens(g, ss, X)
  BY <1>4, FlattenSeqSteps
<1>9. /\ g \in [0 .. m -> Seq(X)] /\ g[0] = <<>>
      /\ \A n \in 1 .. m : g[n] = g[n - 1] \o ss[n]
      /\ FlattenSeq(ss) = g[m]
  BY <1>4, <1>8 DEF Flattens
<1> DEFINE Counts(n) == \A x : Count(g[n], x) =
                          IF \E k \in 1 .. n : CellAt(x, i) = cells[k] THEN Count(lines, x) ELSE 0
           Cells(n) == \A a \in 1 .. Len(g[n]) : \E k \in 1 .. n : CellAt(g[n][a], i) = cells[k]
           S == {n \in Nat : n <= m => Counts(n) /\ Cells(n) /\ Grouped(g[n], i)}
<1>10. 0 \in S
  <2>1. Counts(0)
    BY <1>9, CountEmpty
  <2>2. Cells(0) /\ Grouped(g[0], i)
    BY <1>9 DEF Grouped
  <2> QED BY <2>1, <2>2
<1>11. ASSUME NEW k \in Nat, k \in S PROVE k + 1 \in S
  <2>1. SUFFICES ASSUME k + 1 <= m PROVE Counts(k + 1) /\ Cells(k + 1) /\ Grouped(g[k + 1], i)
    OBVIOUS
  <2> DEFINE n == k + 1
  <2>2. n \in 1 .. m /\ n - 1 = k /\ k <= m /\ k \in 0 .. m
    BY <1>2, <2>1
  <2>3. Counts(k) /\ Cells(k) /\ Grouped(g[k], i)
    BY <1>11, <2>2
  <2>4. g[k] \in Seq(X) /\ ss[n] \in Seq(X) /\ g[n] = g[k] \o ss[n]
    BY <1>6, <1>9, <2>2
  <2>5. \A j \in 1 .. n : j \in 1 .. k \/ j = n
    BY <2>2
  <2>6. \A j \in 1 .. k : j \in 1 .. n /\ j \in 1 .. m /\ j # n
    BY <1>2, <2>2
  <2>7. n \in 1 .. n
    BY <1>2, <2>2
  <2> HIDE DEF n
  <2>8. ASSUME NEW x
        PROVE  Count(g[n], x) = IF \E j \in 1 .. n : CellAt(x, i) = cells[j] THEN Count(lines, x) ELSE 0
    <3>1. Count(g[n], x) = Count(g[k], x) + Count(ss[n], x)
      BY <2>4, CountConcat
    <3>0. Count(g[k], x) \in Nat /\ Count(ss[n], x) \in Nat
      BY <2>4, CountConcat
    <3>2. CASE CellAt(x, i) = cells[n]
      <4>1. ~ \E j \in 1 .. k : CellAt(x, i) = cells[j]
        BY <1>1, <2>2, <2>6, <3>2
      <4>2. Count(g[k], x) = 0 /\ Count(ss[n], x) = Count(lines, x)
        BY <1>6, <2>2, <2>3, <3>2, <4>1
      <4>3. \E j \in 1 .. n : CellAt(x, i) = cells[j]
        BY <2>7, <3>2
      <4>4. Count(g[n], x) = Count(lines, x)
        BY <3>0, <3>1, <4>2
      <4> QED BY <4>3, <4>4
    <3>3. CASE CellAt(x, i) # cells[n]
      <4>1. Count(ss[n], x) = 0
        BY <1>6, <2>2, <3>3
      <4>2. (\E j \in 1 .. n : CellAt(x, i) = cells[j]) <=> \E j \in 1 .. k : CellAt(x, i) = cells[j]
        BY <2>5, <2>6, <3>3
      <4>3. Count(g[n], x) = Count(g[k], x)
        BY <3>0, <3>1, <4>1
      <4> QED BY <2>3, <4>2, <4>3
    <3> QED BY <3>2, <3>3
  <2> DEFINE p == Len(g[k])
             q == Len(ss[n])
  <2>9. /\ p \in Nat /\ q \in Nat /\ Len(g[n]) = p + q
        /\ \A a \in 1 .. p + q : g[n][a] = IF a <= p THEN g[k][a] ELSE ss[n][a - p]
    <3>1. Len(g[k]) \in Nat /\ Len(ss[n]) \in Nat
      BY <2>4, LenProperties
    <3>2. /\ Len(g[k] \o ss[n]) = Len(g[k]) + Len(ss[n])
          /\ \A a \in 1 .. Len(g[k]) + Len(ss[n]) :
               (g[k] \o ss[n])[a] = IF a <= Len(g[k]) THEN g[k][a] ELSE ss[n][a - Len(g[k])]
      BY <2>4, ConcatProperties
    <3> QED BY <2>4, <3>1, <3>2
  <2> HIDE DEF p, q
  <2>10. \A a \in 1 .. p : a \in 1 .. p + q /\ a <= p /\ g[n][a] = g[k][a]
    BY <2>9
  <2>11. ASSUME NEW a \in 1 .. p + q, ~ (a <= p) PROVE CellAt(g[n][a], i) = cells[n]
    <3>1. a - p \in 1 .. q
      BY <2>9, <2>11
    <3>2. g[n][a] = ss[n][a - p]
      BY <2>9, <2>11
    <3> QED BY <1>6, <2>2, <3>1, <3>2 DEF q
  <2>12. \A a \in 1 .. p + q : a <= p => a \in 1 .. p
    BY <2>9
  <2>13. ASSUME NEW a \in 1 .. p + q PROVE \E j \in 1 .. n : CellAt(g[n][a], i) = cells[j]
    <3>1. CASE a <= p
      <4>1. a \in 1 .. p /\ g[n][a] = g[k][a]
        BY <2>10, <2>12, <3>1
      <4>2. PICK j \in 1 .. k : CellAt(g[k][a], i) = cells[j]
        BY <2>3, <4>1 DEF p
      <4> QED BY <2>6, <4>1, <4>2
    <3>2. CASE ~ (a <= p)
      BY <2>7, <2>11, <3>2
    <3> QED BY <3>1, <3>2
  <2>14. Grouped(g[n], i)
    <3>1. SUFFICES ASSUME NEW a \in 1 .. p + q, NEW b \in 1 .. p + q, NEW c \in 1 .. p + q,
                          a < b, b < c, CellAt(g[n][a], i) = CellAt(g[n][c], i)
                   PROVE  CellAt(g[n][b], i) = CellAt(g[n][a], i)
      BY <2>9 DEF Grouped
    <3>2. CASE c <= p
      <4>1. a \in 1 .. p /\ b \in 1 .. p /\ c \in 1 .. p
        BY <2>9, <3>1, <3>2
      <4>2. g[n][a] = g[k][a] /\ g[n][b] = g[k][b] /\ g[n][c] = g[k][c]
        BY <2>10, <4>1
      <4> QED BY <2>3, <3>1, <4>1, <4>2 DEF Grouped, p
    <3>3. CASE ~ (c <= p) /\ a <= p
      <4>1. a \in 1 .. p /\ g[n][a] = g[k][a]
        BY <2>10, <2>12, <3>3
      <4>2. PICK j \in 1 .. k : CellAt(g[k][a], i) = cells[j]
        BY <2>3, <4>1 DEF p
      <4>3. CellAt(g[n][c], i) = cells[n]
        BY <2>11, <3>3
      <4>4. cells[j] = cells[n] /\ j \in 1 .. m /\ j # n
        BY <2>6, <3>1, <4>1, <4>2, <4>3
      <4> QED BY <1>1, <2>2, <4>4
    <3>4. CASE ~ (a <= p)
      <4>1. ~ (b <= p)
        BY <2>9, <3>1, <3>4
      <4> QED BY <2>11, <3>4, <4>1
    <3> QED BY <3>2, <3>3, <3>4
  <2> QED BY <2>8, <2>9, <2>13, <2>14 DEF n, p, q
<1>12. Counts(m) /\ Grouped(g[m], i)
  <2>1. Nat \subseteq S
    <3> HIDE DEF S
    <3> QED BY <1>10, <1>11, Induction
  <2> QED BY <1>2, <2>1
<1>13. ASSUME NEW x PROVE Count(g[m], x) = Count(lines, x)
  <2>1. CASE \E k \in 1 .. m : CellAt(x, i) = cells[k]
    BY <1>12, <2>1
  <2>2. CASE ~ \E k \in 1 .. m : CellAt(x, i) = cells[k]
    <3>1. CellAt(x, i) \notin K
      BY <1>1, <2>2
    <3>2. {n \in DOMAIN lines : lines[n] = x} = {}
      <4>1. DOMAIN lines = 1 .. Len(lines)
        BY LenProperties
      <4> QED BY <1>7, <3>1, <4>1
    <3>3. Count(lines, x) = 0
      BY <3>2, FS_EmptySet DEF Count
    <3> QED BY <1>12, <2>2, <3>3
  <2> QED BY <2>1, <2>2
<1>14. g[m] \in Seq(X)
  <2>1. m \in 0 .. m
    BY <1>2
  <2> QED BY <1>9, <2>1
<1> QED BY <1>5, <1>9, <1>12, <1>13, <1>14

-----------------------------------------------------------------------------
\* A sequence, of whatever it holds.
IsSeq(s) == s \in Seq(Range(s))

\* A sequence over any set is one.
LEMMA AnySeq ==
  ASSUME NEW X, NEW s \in Seq(X) PROVE IsSeq(s)
BY SeqOfRange DEF IsSeq

\* The tail of a sequence is one, and the head is an element of it.
LEMMA TailOfSeq ==
  ASSUME NEW s, IsSeq(s), s # <<>>
  PROVE  Tail(s) \in Seq(Range(s))
BY HeadTailProperties DEF IsSeq

\* The lines up to the next change of the value have one value, the line after
\* them another.
LEMMA RunLengthIs ==
  ASSUME NEW X, NEW rows \in Seq(X), rows # <<>>, NEW i
  PROVE  /\ RunLength(rows, i) \in 1 .. Len(rows)
         /\ \A k \in 1 .. RunLength(rows, i) : CellAt(rows[k], i) = CellAt(rows[1], i)
         /\ RunLength(rows, i) < Len(rows) =>
              CellAt(rows[RunLength(rows, i) + 1], i) # CellAt(rows[1], i)
<1> DEFINE L == Len(rows)
           changes == {n \in 2 .. L : CellAt(rows[n], i) # CellAt(rows[n - 1], i)}
           len == RunLength(rows, i)
<1>1. L \in Nat /\ L >= 1
  BY EmptySeq
<1>2. ASSUME NEW m \in 1 .. L, \A n \in 2 .. m : CellAt(rows[n], i) = CellAt(rows[n - 1], i)
      PROVE  \A k \in 1 .. m : CellAt(rows[k], i) = CellAt(rows[1], i)
  <2> DEFINE S == {k \in Nat : k + 1 <= m => CellAt(rows[k + 1], i) = CellAt(rows[1], i)}
  <2>1. 0 \in S
    OBVIOUS
  <2>2. ASSUME NEW k \in Nat, k \in S PROVE k + 1 \in S
    <3>1. SUFFICES ASSUME (k + 1) + 1 <= m PROVE CellAt(rows[(k + 1) + 1], i) = CellAt(rows[1], i)
      OBVIOUS
    <3> DEFINE n == (k + 1) + 1
    <3>2. n \in 2 .. m /\ n - 1 = k + 1 /\ k + 1 <= m
      BY <1>1, <3>1
    <3>3. CellAt(rows[k + 1], i) = CellAt(rows[1], i)
      BY <2>2, <3>2
    <3> HIDE DEF n
    <3>4. CellAt(rows[n], i) = CellAt(rows[n - 1], i)
      BY <1>2, <3>2
    <3>5. CellAt(rows[n], i) = CellAt(rows[1], i)
      BY <3>2, <3>3, <3>4
    <3> QED BY <3>5 DEF n
  <2>3. Nat \subseteq S
    <3> HIDE DEF S
    <3> QED BY <2>1, <2>2, Induction
  <2>4. ASSUME NEW k \in 1 .. m PROVE CellAt(rows[k], i) = CellAt(rows[1], i)
    <3>1. k - 1 \in Nat /\ (k - 1) + 1 = k /\ k <= m
      OBVIOUS
    <3>2. k - 1 \in S
      BY <2>3, <3>1
    <3> QED BY <3>1, <3>2
  <2> QED BY <2>4
<1>3. CASE changes = {}
  <2>1. len = L
    BY <1>3 DEF RunLength
  <2>2. \A n \in 2 .. L : CellAt(rows[n], i) = CellAt(rows[n - 1], i)
    BY <1>3
  <2>3. L \in 1 .. L
    BY <1>1
  <2> HIDE DEF len
  <2>4. \A k \in 1 .. L : CellAt(rows[k], i) = CellAt(rows[1], i)
    <3> HIDE DEF L
    <3> QED BY <1>2, <2>2, <2>3
  <2>5. len \in 1 .. L /\ ~ (len < L)
    BY <1>1, <2>1
  <2> QED BY <2>1, <2>4, <2>5 DEF len
<1>4. CASE changes # {}
  <2> DEFINE c == CHOOSE n \in changes : \A k \in changes : n <= k
  <2>1. \E n \in changes : \A k \in changes : n <= k
    <3>1. changes \subseteq Nat
      OBVIOUS
    <3> HIDE DEF changes
    <3> QED BY <1>4, <3>1, LeastNatural
  <2>2. c \in changes /\ \A k \in changes : c <= k
    <3> HIDE DEF changes
    <3> QED BY <2>1
  <2>3. len = c - 1
    BY <1>4 DEF RunLength
  <2> HIDE DEF c, len
  <2>4. c \in 2 .. L /\ CellAt(rows[c], i) # CellAt(rows[c - 1], i)
    BY <2>2
  <2>5. len \in 1 .. L /\ len + 1 = c /\ len < c
    BY <1>1, <2>3, <2>4
  <2>6. ASSUME NEW n \in 2 .. len PROVE CellAt(rows[n], i) = CellAt(rows[n - 1], i)
    <3>1. n \in 2 .. L /\ ~ (c <= n)
      BY <1>1, <2>4, <2>5
    <3> QED BY <2>2, <3>1
  <2>7. \A k \in 1 .. len : CellAt(rows[k], i) = CellAt(rows[1], i)
    BY <1>2, <2>5, <2>6
  <2>8. CellAt(rows[len + 1], i) # CellAt(rows[1], i)
    <3>1. len \in 1 .. len
      BY <2>5
    <3> QED BY <2>3, <2>4, <2>5, <2>7, <3>1
  <2> QED BY <2>5, <2>7, <2>8 DEF len
<1> QED BY <1>3, <1>4

\* What a request still has to store, and has stored, of the lines `all`.
Split(r, all, X, i) ==
  /\ IsSeq(stored[r])
  /\ \A n \in 1 .. Len(stored[r]) :
       /\ stored[r][n].lines \in Seq(X)
       /\ \A line \in Range(stored[r][n].lines) : CellAt(line, i) = stored[r][n].key
  /\ parts[r].rows \in Seq(X)
  /\ FlattenSeq([n \in DOMAIN stored[r] |-> stored[r][n].lines]) \o parts[r].rows = all
  /\ ~ partition.skipSort =>
       /\ Grouped(parts[r].rows, i)
       /\ \A n, k \in 1 .. Len(stored[r]) : stored[r][n].key = stored[r][k].key => n = k
       /\ \A n \in 1 .. Len(stored[r]), k \in 1 .. Len(parts[r].rows) :
            CellAt(parts[r].rows[k], i) # stored[r][n].key

\* A part that is stored is split off.
LEMMA StorePartSplits ==
  ASSUME NEW r \in Request, NEW all, NEW X, NEW i, Split(r, all, X, i), parts[r].rows # <<>>,
         NEW n, n = RunLength(parts[r].rows, i),
         stored'[r] = Append(stored[r], [key |-> CellAt(parts[r].rows[1], i),
                                         lines |-> SubSeq(parts[r].rows, 1, n)]),
         parts'[r].rows = SubSeq(parts[r].rows, n + 1, Len(parts[r].rows)),
         partition' = partition
  PROVE  Split(r, all, X, i)'
<1> DEFINE rows == parts[r].rows
           L == Len(rows)
           k1 == CellAt(rows[1], i)
           new == [key |-> k1, lines |-> SubSeq(rows, 1, n)]
           rest == SubSeq(rows, n + 1, L)
           mine == stored[r]
           M == Len(mine)
           after == stored'[r]
<1>1. /\ rows \in Seq(X) /\ L \in Nat /\ \A k \in 1 .. L : rows[k] \in X
      /\ n \in 1 .. L
      /\ \A k \in 1 .. n : CellAt(rows[k], i) = k1
      /\ n < L => CellAt(rows[n + 1], i) # k1
  <2>1. rows \in Seq(X) /\ rows # <<>>
    BY DEF Split
  <2> HIDE DEF rows
  <2>2. L \in Nat /\ \A k \in 1 .. L : rows[k] \in X
    BY <2>1, LenProperties
  <2>3. /\ RunLength(rows, i) \in 1 .. Len(rows)
        /\ \A k \in 1 .. RunLength(rows, i) : CellAt(rows[k], i) = CellAt(rows[1], i)
        /\ RunLength(rows, i) < Len(rows) =>
             CellAt(rows[RunLength(rows, i) + 1], i) # CellAt(rows[1], i)
    BY <2>1, RunLengthIs
  <2>4. n = RunLength(rows, i)
    BY DEF rows
  <2> QED BY <2>1, <2>2, <2>3, <2>4
<1>1a. /\ mine \in Seq(Range(mine)) /\ M \in Nat /\ DOMAIN mine = 1 .. M
       /\ \A k \in 1 .. M : mine[k].lines \in Seq(X)
       /\ \A k \in 1 .. M : \A line \in Range(mine[k].lines) : CellAt(line, i) = mine[k].key
  BY LenProperties DEF Split, IsSeq
<1>1b. new.key = k1 /\ new.lines = SubSeq(rows, 1, n)
  OBVIOUS
<1>1c. after = Append(mine, new) /\ parts'[r].rows = rest
  OBVIOUS
<1>1d. L = Len(rows) /\ M = Len(mine) /\ rest = SubSeq(rows, n + 1, L)
  OBVIOUS
<1> HIDE DEF rows, L, k1, new, rest, mine, M, after
<1>2. /\ SubSeq(rows, 1, n) \in Seq(X) /\ Len(SubSeq(rows, 1, n)) = n
      /\ \A k \in 1 .. n : SubSeq(rows, 1, n)[k] = rows[k]
  <2>1. 1 \in Int /\ n \in Int /\ \A k \in 1 .. n : rows[k] \in X
    BY <1>1
  <2>2. /\ SubSeq(rows, 1, n) \in Seq(X) /\ Len(SubSeq(rows, 1, n)) = IF 1 <= n THEN n - 1 + 1 ELSE 0
        /\ \A k \in 1 .. n - 1 + 1 : SubSeq(rows, 1, n)[k] = rows[1 + k - 1]
    BY <2>1, SubSeqProperties
  <2> QED BY <1>1, <2>2
<1>3. /\ rest \in Seq(X) /\ Len(rest) = L - n
      /\ \A k \in 1 .. L - n : rest[k] = rows[n + k]
  <2>1. n + 1 \in Int /\ L \in Int /\ \A k \in n + 1 .. L : rows[k] \in X
    BY <1>1
  <2>2. /\ SubSeq(rows, n + 1, L) \in Seq(X)
        /\ Len(SubSeq(rows, n + 1, L)) = IF n + 1 <= L THEN L - (n + 1) + 1 ELSE 0
        /\ \A k \in 1 .. L - (n + 1) + 1 : SubSeq(rows, n + 1, L)[k] = rows[(n + 1) + k - 1]
    BY <2>1, SubSeqProperties
  <2>3. /\ L - (n + 1) + 1 = L - n
        /\ n + 1 <= L => Len(rest) = L - n
        /\ ~ (n + 1 <= L) => Len(rest) = 0 /\ L - n = 0
    BY <1>1, <1>1d, <2>2
  <2>4. \A k \in 1 .. L - n : (n + 1) + k - 1 = n + k
    BY <1>1
  <2>5. Len(rest) = L - n
    BY <2>3
  <2> QED BY <1>1d, <2>2, <2>3, <2>4, <2>5
<1>4. SubSeq(rows, 1, n) \o rest = rows
  <2>1. 1 \in 1 .. L + 1 /\ n \in 1 - 1 .. L /\ L \in n .. L
    BY <1>1
  <2>2. SubSeq(rows, 1, n) \o SubSeq(rows, n + 1, L) = SubSeq(rows, 1, L)
    BY <1>1, <1>1d, <2>1, ConcatAdjacentSubSeq
  <2>3. SubSeq(rows, 1, L) = rows
    BY <1>1, <1>1d, SubSeqFull
  <2> QED BY <1>1d, <2>2, <2>3
<1>7. /\ after \in Seq(Range(mine) \union {new}) /\ Len(after) = M + 1 /\ after[M + 1] = new
      /\ \A k \in 1 .. M : after[k] = mine[k]
      /\ DOMAIN after = 1 .. M + 1
  <2>1. mine \in Seq(Range(mine) \union {new})
    BY <1>1a, SeqMonotonic
  <2>2. /\ Append(mine, new) \in Seq(Range(mine) \union {new}) /\ Len(Append(mine, new)) = Len(mine) + 1
        /\ \A k \in 1 .. Len(mine) : Append(mine, new)[k] = mine[k]
        /\ Append(mine, new)[Len(mine) + 1] = new
    BY <2>1, AppendProperties
  <2>3. DOMAIN Append(mine, new) = 1 .. Len(mine) + 1
    BY <2>2, LenProperties
  <2> QED BY <1>1c, <1>1d, <2>2, <2>3
<1>8. IsSeq(after)
  BY <1>7, AnySeq
<1>11. ASSUME NEW k \in 1 .. M + 1
       PROVE  after[k].lines \in Seq(X) /\ \A line \in Range(after[k].lines) : CellAt(line, i) = after[k].key
  <2>1. CASE k = M + 1
    <3>1. after[k].lines = SubSeq(rows, 1, n) /\ after[k].key = k1
      BY <1>7, <1>1b, <2>1
    <3>2. Range(SubSeq(rows, 1, n)) = {SubSeq(rows, 1, n)[j] : j \in 1 .. n}
      BY <1>2, RangeEquality
    <3>3. ASSUME NEW line \in Range(SubSeq(rows, 1, n)) PROVE CellAt(line, i) = k1
      <4>1. PICK j \in 1 .. n : line = SubSeq(rows, 1, n)[j]
        BY <3>2
      <4>2. line = rows[j]
        BY <1>2, <4>1
      <4> QED BY <1>1, <4>2
    <3> QED BY <1>2, <3>1, <3>3
  <2>2. CASE k # M + 1
    <3>1. k \in 1 .. M
      BY <1>1a, <2>2
    <3> QED BY <1>7, <1>1a, <3>1
  <2> QED BY <2>1, <2>2
<1>12. FlattenSeq([k \in DOMAIN after |-> after[k].lines]) \o rest = all
  <2> DEFINE ss == [k \in 1 .. M |-> mine[k].lines]
             tt == [k \in 1 .. M + 1 |-> after[k].lines]
             s == SubSeq(rows, 1, n)
  <2>1. ss \in Seq(Seq(X)) /\ Len(ss) = M
    <3>1. ss \in [1 .. M -> Seq(X)] /\ DOMAIN ss = 1 .. M
      BY <1>1a
    <3> QED BY <1>1a, <3>1, SeqDef
  <2>2. tt = Append(ss, s)
    <3> DEFINE uu == Append(ss, s)
    <3>1. /\ uu \in Seq(Seq(X)) /\ Len(uu) = M + 1 /\ uu[M + 1] = s
          /\ \A k \in 1 .. M : uu[k] = ss[k]
      <4>1. s \in Seq(X)
        BY <1>2
      <4> HIDE DEF ss, s
      <4> QED BY <2>1, <4>1, AppendProperties
    <3>2. tt \in Seq(Seq(X)) /\ Len(tt) = M + 1
      <4>1. tt \in [1 .. M + 1 -> Seq(X)] /\ M + 1 \in Nat
        BY <1>1a, <1>11
      <4> HIDE DEF tt
      <4>2. tt \in Seq(Seq(X))
        BY <4>1, SeqDef
      <4>3. Len(tt) = M + 1
        BY <4>1, <4>2
      <4> QED BY <4>2, <4>3
    <3>3. ASSUME NEW k \in 1 .. M + 1 PROVE tt[k] = uu[k]
      <4>1. CASE k = M + 1
        BY <1>7, <1>1b, <3>1, <4>1
      <4>2. CASE k # M + 1
        <5>1. k \in 1 .. M
          BY <1>1a, <4>2
        <5> QED BY <1>7, <3>1, <5>1
      <4> QED BY <4>1, <4>2
    <3> HIDE DEF tt, uu
    <3> QED BY <3>1, <3>2, <3>3, SeqEqual DEF uu
  <2>3. [k \in DOMAIN after |-> after[k].lines] = tt /\ [k \in DOMAIN mine |-> mine[k].lines] = ss
    BY <1>1a, <1>7
  <2> HIDE DEF ss, tt, s
  <2>4. s \in Seq(X)
    BY <1>2 DEF s
  <2>5. FlattenSeq(tt) = FlattenSeq(ss) \o s
    BY <2>1, <2>2, <2>4, FlattenSeqAppend
  <2>6. FlattenSeq(ss) \in Seq(X)
    BY <2>1, FlattenSeqType
  <2>7. (FlattenSeq(ss) \o s) \o rest = FlattenSeq(ss) \o (s \o rest)
    BY <1>3, <2>4, <2>6, ConcatAssociative
  <2>8. FlattenSeq(ss) \o rows = all
    BY <2>3 DEF Split, mine, rows
  <2> QED BY <1>4, <2>3, <2>5, <2>7, <2>8 DEF s
<1>13. ASSUME ~ partition.skipSort
       PROVE  /\ Grouped(rest, i)
              /\ \A m, k \in 1 .. M + 1 : after[m].key = after[k].key => m = k
              /\ \A m \in 1 .. M + 1, k \in 1 .. Len(rest) : CellAt(rest[k], i) # after[m].key
  <2>1. /\ Grouped(rows, i)
        /\ \A m, k \in 1 .. M : mine[m].key = mine[k].key => m = k
        /\ \A m \in 1 .. M, k \in 1 .. L : CellAt(rows[k], i) # mine[m].key
    BY <1>13 DEF Split, M, mine, rows, L
  <2>1a. \A x, y, z \in 1 .. L :
           x < y /\ y < z /\ CellAt(rows[x], i) = CellAt(rows[z], i) => CellAt(rows[y], i) = CellAt(rows[x], i)
    BY <1>1d, <2>1 DEF Grouped
  <2>1b. k1 = CellAt(rows[1], i)
    BY DEF k1
  <2>2. ASSUME NEW k \in 1 .. L - n
        PROVE  n + k \in 1 .. L /\ CellAt(rows[n + k], i) # k1
    <3>1. n + k \in 1 .. L /\ 1 \in 1 .. L /\ n + 1 \in 1 .. L /\ n < L /\ 1 < n + 1
      BY <1>1
    <3>2. CASE k = 1
      BY <1>1, <3>1, <3>2
    <3>3. CASE k # 1
      <4>1. n + 1 < n + k
        BY <1>1, <3>3
      <4>2. CellAt(rows[1], i) = CellAt(rows[n + k], i) => CellAt(rows[n + 1], i) = CellAt(rows[1], i)
        BY <2>1a, <3>1, <4>1
      <4> QED BY <1>1, <2>1b, <3>1, <4>2
    <3> QED BY <3>1, <3>2, <3>3
  <2>3. Grouped(rest, i)
    <3>1. SUFFICES ASSUME NEW a \in 1 .. L - n, NEW b \in 1 .. L - n, NEW c \in 1 .. L - n,
                          a < b, b < c, CellAt(rest[a], i) = CellAt(rest[c], i)
                   PROVE  CellAt(rest[b], i) = CellAt(rest[a], i)
      BY <1>3 DEF Grouped
    <3>2. n + a \in 1 .. L /\ n + b \in 1 .. L /\ n + c \in 1 .. L /\ n + a < n + b /\ n + b < n + c
      <4>1. n + a \in 1 .. L /\ n + b \in 1 .. L /\ n + c \in 1 .. L
        BY <2>2
      <4>2. n \in Int /\ a \in Int /\ b \in Int /\ c \in Int
        BY <1>1
      <4>3. n + a < n + b /\ n + b < n + c
        BY <3>1, <4>2
      <4> QED BY <4>1, <4>3
    <3>3. rest[a] = rows[n + a] /\ rest[b] = rows[n + b] /\ rest[c] = rows[n + c]
      BY <1>3
    <3>5. CellAt(rows[n + a], i) = CellAt(rows[n + c], i)
      BY <3>1, <3>3
    <3>6. CellAt(rows[n + b], i) = CellAt(rows[n + a], i)
      BY <2>1a, <3>2, <3>5
    <3> QED BY <3>3, <3>6
  <2>4. ASSUME NEW m \in 1 .. M PROVE mine[m].key # k1
    <3>1. 1 \in 1 .. L
      BY <1>1
    <3> QED BY <2>1, <2>1b, <3>1
  <2>5. \A m \in 1 .. M + 1 : m \in 1 .. M \/ m = M + 1
    BY <1>1a
  <2>6. ASSUME NEW m \in 1 .. M + 1, NEW k \in 1 .. M + 1, after[m].key = after[k].key PROVE m = k
    <3>1. CASE m = M + 1 /\ k # M + 1
      BY <1>7, <1>1b, <2>4, <2>5, <2>6, <3>1
    <3>2. CASE m # M + 1 /\ k = M + 1
      BY <1>7, <1>1b, <2>4, <2>5, <2>6, <3>2
    <3>3. CASE m # M + 1 /\ k # M + 1
      BY <1>7, <2>1, <2>5, <2>6, <3>3
    <3> QED BY <3>1, <3>2, <3>3
  <2>7. ASSUME NEW m \in 1 .. M + 1, NEW k \in 1 .. L - n PROVE CellAt(rest[k], i) # after[m].key
    <3>1. rest[k] = rows[n + k] /\ n + k \in 1 .. L /\ CellAt(rows[n + k], i) # k1
      BY <1>3, <2>2
    <3>2. CASE m = M + 1
      BY <1>7, <1>1b, <3>1, <3>2
    <3>3. CASE m # M + 1
      <4>1. m \in 1 .. M /\ after[m] = mine[m]
        BY <1>7, <2>5, <3>3
      <4> QED BY <2>1, <3>1, <4>1
    <3> QED BY <3>2, <3>3
  <2> QED BY <1>3, <2>3, <2>6, <2>7
<1>14. parts'[r].rows = rest /\ stored'[r] = after
  BY <1>1c DEF after
<1> QED BY <1>3, <1>7, <1>8, <1>11, <1>12, <1>13, <1>14 DEF Split

-----------------------------------------------------------------------------
\* join prints lines of the cells it reads.
LEMMA JoinedType ==
  ASSUME NEW A, NEW K, <<>> \in K, \A l \in A : \A n : CellAt(l, n) \in K,
         NEW left \in Seq(A), NEW i, NEW right \in Seq(A), NEW j, NEW pairs, NEW alone,
         NEW list, [DOMAIN list -> K] \subseteq A
  PROVE  Joined(left, i, right, j, pairs, alone, list) \in Seq(A)
<1> DEFINE LineOf(key, l, r) ==
             [n \in DOMAIN list |->
                IF list[n] = <<0, 0>> THEN key
                ELSE CellAt(IF list[n][1] = 1 THEN l ELSE r, list[n][2])]
           Cross(key, ls, rs) ==
             FlattenSeq([m \in DOMAIN ls |-> [n \in DOMAIN rs |-> LineOf(key, ls[m], rs[n])]])
           Group(key) ==
             LET ls == Having(left, i, key)
                 rs == Having(right, j, key)
             IN  CASE ls # <<>> /\ rs # <<>> -> IF pairs THEN Cross(key, ls, rs) ELSE <<>>
                   [] ls = <<>> -> IF 2 \in alone THEN Cross(key, <<(<<>>)>>, rs) ELSE <<>>
                   [] OTHER     -> IF 1 \in alone THEN Cross(key, ls, <<(<<>>)>>) ELSE <<>>
           CS == CellsOf(left, i) \union CellsOf(right, j)
           cells == SetToSeq(CS)
           B == A \union {<<>>}
<1>1. ASSUME NEW key \in K, NEW l \in B, NEW r \in B PROVE LineOf(key, l, r) \in A
  <2>1. \A n : CellAt(<<>>, n) = <<>>
    BY DEF CellAt
  <2>2. \A x \in B : \A n : CellAt(x, n) \in K
    BY <2>1
  <2>3. LineOf(key, l, r) \in [DOMAIN list -> K]
    BY <1>1, <2>2
  <2> QED BY <2>3
<1>2. ASSUME NEW key \in K, NEW ls \in Seq(B), NEW rs \in Seq(B) PROVE Cross(key, ls, rs) \in Seq(A)
  <2> DEFINE row(m) == [n \in DOMAIN rs |-> LineOf(key, ls[m], rs[n])]
             ss == [m \in DOMAIN ls |-> row(m)]
  <2>1. /\ Len(ls) \in Nat /\ DOMAIN ls = 1 .. Len(ls) /\ \A m \in 1 .. Len(ls) : ls[m] \in B
        /\ Len(rs) \in Nat /\ DOMAIN rs = 1 .. Len(rs) /\ \A n \in 1 .. Len(rs) : rs[n] \in B
    BY LenProperties
  <2> HIDE DEF LineOf
  <2>2. \A m \in 1 .. Len(ls), n \in 1 .. Len(rs) : LineOf(key, ls[m], rs[n]) \in A
    <3>1. \A m \in 1 .. Len(ls), n \in 1 .. Len(rs) : ls[m] \in B /\ rs[n] \in B
      BY <2>1
    <3> HIDE DEF B
    <3> QED BY <1>1, <3>1
  <2>3. ASSUME NEW m \in 1 .. Len(ls) PROVE row(m) \in Seq(A)
    <3>1. row(m) \in [1 .. Len(rs) -> A]
      BY <2>1, <2>2
    <3> QED BY <2>1, <3>1, SeqDef
  <2> HIDE DEF row
  <2>4. ss \in Seq(Seq(A))
    <3>1. ss \in [1 .. Len(ls) -> Seq(A)]
      BY <2>1, <2>3
    <3> QED BY <2>1, <3>1, SeqDef
  <2>5. Cross(key, ls, rs) = FlattenSeq(ss)
    BY DEF row
  <2> HIDE DEF ss, Cross
  <2> QED BY <2>4, <2>5, FlattenSeqType
<1> HIDE DEF LineOf, Cross
<1>3. ASSUME NEW key \in K PROVE Group(key) \in Seq(A)
  <2> DEFINE ls == Having(left, i, key)
             rs == Having(right, j, key)
             none == <<(<<>>)>>
  <2>1. ls \in Seq(A) /\ rs \in Seq(A)
    BY HavingIs
  <2>2. ls \in Seq(B) /\ rs \in Seq(B) /\ none \in Seq(B)
    BY <2>1, SeqMonotonic
  <2>3. <<>> \in Seq(A)
    OBVIOUS
  <2> HIDE DEF ls, rs, none
  <2>4. Cross(key, ls, rs) \in Seq(A) /\ Cross(key, none, rs) \in Seq(A) /\ Cross(key, ls, none) \in Seq(A)
    BY <1>2, <2>2
  <2>5. Group(key) =
          CASE ls # <<>> /\ rs # <<>> -> IF pairs THEN Cross(key, ls, rs) ELSE <<>>
            [] ls = <<>> -> IF 2 \in alone THEN Cross(key, none, rs) ELSE <<>>
            [] OTHER     -> IF 1 \in alone THEN Cross(key, ls, none) ELSE <<>>
    BY Zenon DEF ls, rs, none
  <2> HIDE DEF Group
  <2> QED BY <2>3, <2>4, <2>5
<1>4. CS \subseteq K
  <2>1. Range(left) \subseteq A /\ Range(right) \subseteq A
    BY RangeOfSeq
  <2> QED BY <2>1 DEF CellsOf
<1>5. IsFiniteSet(CS)
  <2>1. IsFiniteSet(CellsOf(left, i)) /\ IsFiniteSet(CellsOf(right, j))
    BY CellsOfFinite
  <2> QED BY <2>1, FS_Union
<1>6. Joined(left, i, right, j, pairs, alone, list) = FlattenSeq([n \in DOMAIN cells |-> Group(cells[n])])
  BY Zenon DEF Joined, Cross, LineOf
<1> HIDE DEF Group, CS
<1>7. cells \in Seq(CS) /\ Len(cells) \in Nat /\ DOMAIN cells = 1 .. Len(cells)
  BY <1>5, SetToSeqIs, LenProperties
<1> DEFINE ss == [n \in DOMAIN cells |-> Group(cells[n])]
<1>8. ss \in Seq(Seq(A))
  <2> HIDE DEF cells
  <2>1. \A n \in 1 .. Len(cells) : cells[n] \in K
    BY <1>4, <1>7
  <2>2. ss \in [1 .. Len(cells) -> Seq(A)]
    BY <1>3, <1>7, <2>1
  <2> QED BY <1>7, <2>2, SeqDef
<1>9. FlattenSeq(ss) \in Seq(A)
  <2> HIDE DEF ss
  <2> QED BY <1>8, FlattenSeqType
<1> QED BY <1>6, <1>9

\* What the command makes of the sorted files.
PipedOf(r, c, cuts) ==
  LET Piped[n \in 0 .. Len(c.joinCommand)] ==
        LET command == c.joinCommand[n]
            lines == IF n = 0 THEN Sorted(c.main, c.keyIndex)
                     ELSE Joined(Piped[n - 1], c.keyIndex, LinesOf(r, n), command.right,
                                 command.pairs, command.alone, command.list)
        IN  PassedOn(lines, n, cuts)
  IN  Piped[Len(c.joinCommand)]

\* Where commands may break off.
AreCuts(cuts) == \A n \in DOMAIN cuts : cuts[n] \in Nat

\* The first lines of a stream are a stream of such lines.
LEMMA FirstLinesAre ==
  ASSUME NEW A, NEW lines \in Seq(A), NEW k \in Nat
  PROVE  FirstLines(lines, k) \in Seq(A)
<1> DEFINE m == IF k < Len(lines) THEN k ELSE Len(lines)
<1>1. Len(lines) \in Nat /\ \A i \in 1 .. Len(lines) : lines[i] \in A
  BY ElementOfSeq, LenProperties
<1>2. m \in 0 .. Len(lines)
  BY <1>1
<1>3. \A i \in 1 .. m : lines[i] \in A
  BY <1>1, <1>2
<1> HIDE DEF m
<1>4. SubSeq(lines, 1, m) \in Seq(A)
  BY <1>1, <1>2, <1>3, SubSeqProperties
<1> QED BY <1>4 DEF FirstLines, m

\* So is what a part of the command passes on.
LEMMA PassedOnIs ==
  ASSUME NEW A, NEW lines \in Seq(A), NEW n, NEW cuts, AreCuts(cuts)
  PROVE  PassedOn(lines, n, cuts) \in Seq(A)
BY FirstLinesAre DEF PassedOn, AreCuts

\* One join after the other.
PipedSteps(f, r, c) ==
  /\ f[0] = Sorted(c.main, c.keyIndex)
  /\ \A n \in 1 .. Len(c.joinCommand) :
       LET command == c.joinCommand[n]
       IN  f[n] = Joined(f[n - 1], c.keyIndex, LinesOf(r, n), command.right,
                         command.pairs, command.alone, command.list)

\* The rows of all commands, one command after the other.
LEMMA PipedInSteps ==
  ASSUME NEW r, NEW c, IsSeq(c.main), IsSeq(c.joinCommand),
         \A n \in 1 .. Len(c.joinCommand) : IsSeq(LinesOf(r, n)),
         NEW cuts, AreCuts(cuts)
  PROVE  \E f : /\ DOMAIN cuts = {} => PipedSteps(f, r, c)
               /\ PipedOf(r, c, cuts) = f[Len(c.joinCommand)]
               /\ IsSeq(f[Len(c.joinCommand)])
<1> DEFINE N == Len(c.joinCommand)
           base == Range(c.main) \union UNION {Range(LinesOf(r, n)) : n \in 1 .. N}
           K == {<<>>} \union UNION {Range(l) : l \in base}
           A == base \union UNION {[DOMAIN c.joinCommand[n].list -> K] : n \in 1 .. N}
           b0 == Sorted(c.main, c.keyIndex)
           b == PassedOn(b0, 0, cuts)
           Whole(n, x) ==
             LET command == c.joinCommand[n]
             IN  Joined(x, c.keyIndex, LinesOf(r, n), command.right,
                        command.pairs, command.alone, command.list)
           One(n, x) == PassedOn(Whole(n, x), n, cuts)
           Lines(n, x) ==
             LET command == c.joinCommand[n]
             IN  IF n = 0 THEN Sorted(c.main, c.keyIndex)
                 ELSE Joined(x, c.keyIndex, LinesOf(r, n), command.right,
                             command.pairs, command.alone, command.list)
           F == [n \in 1 .. N |-> [x \in Seq(A) |-> One(n, x)]]
           P(h) == h = [n \in 0 .. N |-> PassedOn(Lines(n, h[n - 1]), n, cuts)]
           f == CHOOSE h : P(h)
<1>1. PipedOf(r, c, cuts) = f[N]
  BY Zenon DEF PipedOf
<1>2. N \in Nat
  BY LenProperties DEF IsSeq
<1>3. \A l \in A : \A n : CellAt(l, n) \in K
  <2>1. ASSUME NEW l \in base, NEW n PROVE CellAt(l, n) \in K
    <3>1. CASE n \in DOMAIN l
      <4>1. CellAt(l, n) \in Range(l)
        BY <3>1 DEF CellAt, Range
      <4> HIDE DEF base
      <4> QED BY <2>1, <4>1
    <3>2. CASE n \notin DOMAIN l
      BY <3>2 DEF CellAt
    <3> QED BY <3>1, <3>2
  <2> HIDE DEF base, K
  <2>2. ASSUME NEW m \in 1 .. N, NEW l \in [DOMAIN c.joinCommand[m].list -> K], NEW n
        PROVE  CellAt(l, n) \in K
    BY DEF CellAt, K
  <2> QED BY <2>1, <2>2
<1>4. <<>> \in K /\ \A n \in 1 .. N : [DOMAIN c.joinCommand[n].list -> K] \subseteq A
  <2> HIDE DEF base
  <2> QED OBVIOUS
<1>5. c.main \in Seq(A) /\ \A n \in 1 .. N : LinesOf(r, n) \in Seq(A)
  <2>1. Range(c.main) \subseteq A /\ \A n \in 1 .. N : Range(LinesOf(r, n)) \subseteq A
    <3> HIDE DEF K
    <3> QED OBVIOUS
  <2> HIDE DEF A
  <2> QED BY <2>1, SeqMonotonic DEF IsSeq
<1> HIDE DEF A, K, base
<1>6. b \in Seq(A)
  BY <1>5, SortedIs, PassedOnIs
<1>7. ASSUME NEW n \in 1 .. N, NEW x \in Seq(A) PROVE One(n, x) \in Seq(A)
  <2>1. LinesOf(r, n) \in Seq(A) /\ [DOMAIN c.joinCommand[n].list -> K] \subseteq A
    BY <1>4, <1>5
  <2>2. Whole(n, x) \in Seq(A)
    BY <1>3, <1>4, <2>1, JoinedType
  <2> HIDE DEF Whole
  <2> QED BY <2>2, PassedOnIs
<1>21. ASSUME NEW n, NEW x PROVE Lines(n, x) = IF n = 0 THEN b0 ELSE Whole(n, x)
  OBVIOUS
<1>22. ASSUME NEW n, NEW x
       PROVE  PassedOn(Lines(n, x), n, cuts) = IF n = 0 THEN b ELSE One(n, x)
  <2>1. Lines(n, x) = IF n = 0 THEN b0 ELSE Whole(n, x)
    BY <1>21
  <2> HIDE DEF Lines, b0, Whole
  <2> QED BY <2>1
<1>23. ASSUME DOMAIN cuts = {}
       PROVE  b = b0 /\ \A n, x : One(n, x) = Whole(n, x)
  <2> HIDE DEF b0, Whole
  <2> QED BY <1>23 DEF PassedOn
<1> HIDE DEF One, b, b0, Whole, Lines
<1>8. F \in [1 .. N -> [Seq(A) -> Seq(A)]] /\ \A n \in 1 .. N, x \in Seq(A) : F[n][x] = One(n, x)
  BY <1>7
<1> HIDE DEF F, N
<1>9. PICK g : IteratesUpto(g, N, b, F, Seq(A))
  BY <1>2, <1>6, <1>8, FiniteRecursion
<1>10. g \in [0 .. N -> Seq(A)] /\ \A n \in 0 .. N : g[n] = IF n = 0 THEN b ELSE F[n][g[n - 1]]
  BY <1>9 DEF IteratesUpto
<1>11. ASSUME NEW n \in 0 .. N, n # 0 PROVE g[n] = One(n, g[n - 1])
  <2>1. n \in 1 .. N /\ n - 1 \in 0 .. N
    BY <1>2, <1>11
  <2>2. g[n - 1] \in Seq(A) /\ g[n] = F[n][g[n - 1]]
    BY <1>10, <1>11, <2>1
  <2> QED BY <1>8, <2>1, <2>2
<1>12. P(g)
  <2>1. \A n \in 0 .. N : g[n] = IF n = 0 THEN b ELSE One(n, g[n - 1])
    BY <1>10, <1>11
  <2>2. \A n \in 0 .. N : g[n] = PassedOn(Lines(n, g[n - 1]), n, cuts)
    BY <1>22, <2>1
  <2> QED BY <1>10, <2>2
<1>13. P(f)
  <2> HIDE DEF P
  <2> QED BY <1>12
<1>14. \A n \in 0 .. N : f[n] = IF n = 0 THEN b ELSE One(n, f[n - 1])
  <2> HIDE DEF f
  <2> QED BY <1>13, <1>22
<1> HIDE DEF f, P
<1> DEFINE S == {n \in Nat : n <= N => f[n] \in Seq(A)}
<1>15. 0 \in S
  <2>1. f[0] = b
    BY <1>2, <1>14
  <2> QED BY <1>6, <2>1
<1>16. ASSUME NEW n \in Nat, n \in S PROVE n + 1 \in S
  <2>1. SUFFICES ASSUME n + 1 <= N PROVE f[n + 1] \in Seq(A)
    OBVIOUS
  <2>2. n + 1 \in 0 .. N /\ n + 1 \in 1 .. N /\ n + 1 # 0 /\ (n + 1) - 1 = n /\ n <= N
    BY <1>2, <2>1
  <2>3. f[n + 1] = One(n + 1, f[n])
    BY <1>14, <2>2
  <2>4. f[n] \in Seq(A)
    BY <1>16, <2>2
  <2> QED BY <1>7, <2>2, <2>3, <2>4
<1>17. f[N] \in Seq(A)
  <2>1. Nat \subseteq S
    <3> HIDE DEF S
    <3> QED BY <1>15, <1>16, Induction
  <2> QED BY <1>2, <2>1
<1>18. f[0] = b /\ \A n \in 1 .. N : f[n] = One(n, f[n - 1])
  <2>1. 0 \in 0 .. N /\ \A n \in 1 .. N : n \in 0 .. N /\ n # 0
    BY <1>2
  <2> QED BY <1>14, <2>1
<1>19. ASSUME DOMAIN cuts = {} PROVE PipedSteps(f, r, c)
  <2>1. f[0] = b0 /\ \A n \in 1 .. N : f[n] = Whole(n, f[n - 1])
    BY <1>18, <1>19, <1>23
  <2> QED BY <2>1 DEF PipedSteps, Whole, N, b0
<1>20. IsSeq(f[N])
  BY <1>17, AnySeq
<1> QED BY <1>1, <1>19, <1>20 DEF N

\* The command makes a stream of streams.
LEMMA PipedIsSeq ==
  ASSUME NEW r, NEW c, IsSeq(c.main), IsSeq(c.joinCommand),
         \A n \in 1 .. Len(c.joinCommand) : IsSeq(LinesOf(r, n)),
         NEW cuts, AreCuts(cuts)
  PROVE  IsSeq(PipedOf(r, c, cuts))
BY PipedInSteps

-----------------------------------------------------------------------------
\* The fields of a call.
CallFields ==
  {"stage", "multi", "joinKey", "next", "main", "outHeader", "keyIndex", "joinCommand", "out",
   "broken", "cut"}

\* A call counts the streams it has joined.
CallOK(call) ==
  /\ DOMAIN call = CallFields
  /\ call.next \in Nat \ {0}
  /\ IsSeq(call.main) /\ IsSeq(call.joinCommand) /\ IsSeq(call.out)
  /\ call.stage \in {"new", "main"} => call.next = 1 /\ call.joinCommand = <<>>
  /\ call.stage = "new" => call.joinKey = <<>>
  /\ call.stage = "streams" => Len(call.joinCommand) = call.next - 1

\* The streams whose sorted copies a request has in the working directory.
Left(r) == {f.stream : f \in FilesOf(r)}

\* A request that is joining its streams has a copy of each one joined so far, a
\* request that failed some of them and every other request none.
FilesOK(r) ==
  CASE Call(r).stage = "streams" -> Left(r) = 1 .. Call(r).next - 1
    [] Call(r).stage = "failed"  -> Left(r) \subseteq 1 .. Call(r).next
    [] OTHER                     -> Left(r) = {}

\* The inductive invariant of the join.
JoinInv ==
  /\ side \in Sides /\ content \in Contents /\ DOMAIN calls = Request
  /\ \A r \in Request : CallOK(calls[r]) /\ FilesOK(r)
  /\ \A f \in files : IsSeq(f.lines)

\* The empty sequence is a sequence.
LEMMA EmptyIsSeq == IsSeq(<<>>)
BY DEF IsSeq

\* The streams behind the names of a configuration are sequences.
LEMMA ContentIsSeq ==
  ASSUME JoinInv
  PROVE  /\ IsSeq(MainStream)
         /\ \A n \in DOMAIN side.joins : IsSeq(content[side.joins[n].node])
BY JoinAssumption, AnySeq DEF JoinInv, MainStream

\* What a step of one request is to the others.
Moves(r, stages) ==
  /\ side' = side /\ calls'[r].stage \in stages
  /\ \A q \in Request : q # r => calls'[q] = calls[q]

\* Nothing but one call changes, and the files stay.
LEMMA OneCall ==
  ASSUME JoinInv, NEW r \in Request, NEW call, Update(r, call),
         UNCHANGED <<side, content, files>>, CallOK(call),
         \/ /\ call.stage = calls[r].stage
            /\ call.next = calls[r].next \/ calls[r].stage \notin {"streams", "failed"}
         \/ calls[r].stage = "main" /\ call.stage = "streams" /\ call.next = 1
         \/ calls[r].stage \notin {"streams", "failed"} /\ call.stage \notin {"streams", "failed"}
         \/ call.stage = "failed" /\ call.next = calls[r].next
  PROVE  JoinInv' /\ Moves(r, {call.stage})
<1>1. DOMAIN calls' = Request /\ calls'[r] = call /\ \A q \in Request : q # r => calls'[q] = calls[q]
  BY DEF JoinInv, Update
<1>2. \A q \in Request : Left(q)' = Left(q)
  BY DEF Left, FilesOf
<1>3. ASSUME NEW q \in Request, q # r PROVE CallOK(calls'[q]) /\ FilesOK(q)'
  <2>1. CallOK(calls[q]) /\ FilesOK(q)
    BY DEF JoinInv
  <2> QED BY <1>1, <1>2, <1>3, <2>1 DEF FilesOK, Call
<1>4. FilesOK(r)'
  <2>1. FilesOK(r) /\ CallOK(calls[r])
    BY DEF JoinInv
  <2>2. calls[r].next \in Nat \ {0} /\ (calls[r].stage = "main" => calls[r].next = 1)
    BY <2>1 DEF CallOK
  <2>3. Call(r) = calls[r] /\ Call(r)' = call
    BY <1>1 DEF Call
  <2>4. FilesOK(r) <=> CASE calls[r].stage = "streams" -> Left(r) = 1 .. calls[r].next - 1
                         [] calls[r].stage = "failed"  -> Left(r) \subseteq 1 .. calls[r].next
                         [] OTHER                     -> Left(r) = {}
    BY <2>3 DEF FilesOK
  <2>5. FilesOK(r)' <=> CASE call.stage = "streams" -> Left(r) = 1 .. call.next - 1
                          [] call.stage = "failed"  -> Left(r) \subseteq 1 .. call.next
                          [] OTHER                  -> Left(r) = {}
    BY <1>2, <2>3 DEF FilesOK
  <2>6. CASE call.stage = calls[r].stage
    <3>1. call.next = calls[r].next \/ calls[r].stage \notin {"streams", "failed"}
      BY <2>6
    <3> QED BY <2>1, <2>4, <2>5, <2>6, <3>1
  <2>7. CASE calls[r].stage = "main" /\ call.stage = "streams" /\ call.next = 1
    <3>1. Left(r) = {}
      BY <2>1, <2>4, <2>7
    <3>2. 1 .. 1 - 1 = {}
      OBVIOUS
    <3> QED BY <2>5, <2>7, <3>1, <3>2
  <2>8. CASE calls[r].stage \notin {"streams", "failed"} /\ call.stage \notin {"streams", "failed"}
    BY <2>1, <2>4, <2>5, <2>8
  <2>9. CASE call.stage = "failed" /\ call.next = calls[r].next
    <3>1. Left(r) \subseteq 1 .. calls[r].next
      <4>1. 1 .. calls[r].next - 1 \subseteq 1 .. calls[r].next
        BY <2>2
      <4> QED BY <2>1, <2>4, <4>1
    <3> QED BY <2>5, <2>9, <3>1
  <2> QED BY <2>6, <2>7, <2>8, <2>9
<1>5. \A f \in files' : IsSeq(f.lines)
  BY DEF JoinInv
<1>6. side' \in Sides /\ content' \in Contents
  BY DEF JoinInv
<1>7. \A q \in Request : CallOK(calls'[q]) /\ FilesOK(q)'
  BY <1>1, <1>3, <1>4
<1> QED BY <1>1, <1>5, <1>6, <1>7 DEF JoinInv, Moves

\* The join begins in a state of its invariant.
LEMMA JoinInitInv == JoinInit => JoinInv
<1> SUFFICES ASSUME JoinInit PROVE JoinInv
  OBVIOUS
<1>1. CallOK(NewCall)
  BY EmptyIsSeq DEF CallOK, NewCall, CallFields
<1>2. \A r \in Request : calls[r] = NewCall
  BY DEF JoinInit
<1>3. \A r \in Request : Left(r) = {}
  BY DEF JoinInit, Left, FilesOf
<1>4. \A r \in Request : FilesOK(r)
  BY <1>2, <1>3 DEF FilesOK, Call, NewCall
<1> QED BY <1>1, <1>2, <1>4 DEF JoinInit, JoinInv

\* A request may fail.
LEMMA FailKeeps ==
  ASSUME JoinInv, NEW r \in Request, Fail(r)
  PROVE  JoinInv' /\ Moves(r, {"failed"})
<1> DEFINE call == [calls[r] EXCEPT !.stage = "failed"]
<1>1. CallOK(calls[r])
  BY DEF JoinInv
<1>2. CallOK(call) /\ call.stage = "failed" /\ call.next = calls[r].next
  BY <1>1 DEF CallOK, CallFields
<1>3. Update(r, call) /\ UNCHANGED <<side, content, files>>
  BY DEF Fail, Call
<1> HIDE DEF call
<1> QED BY <1>2, <1>3, OneCall

\* Where a request goes on to when it is joined.
Onward == IF side.op = "load" THEN "done" ELSE "store"

\* A request without joins goes on with the main stream.
LEMMA ForwardKeeps ==
  ASSUME JoinInv, NEW r \in Request, Forward(r)
  PROVE  JoinInv' /\ Moves(r, {Onward})
<1> DEFINE to == Onward
           call == [calls[r] EXCEPT !.stage = to, !.out = MainStream]
<1>1. CallOK(calls[r]) /\ calls[r].stage = "new"
  BY DEF JoinInv, Forward, Call
<1>2. to \notin {"new", "streams", "failed"}
  BY DEF Onward
<1>3. Update(r, call) /\ UNCHANGED <<side, content, files>>
  BY DEF Forward, Call, Onward
<1>4. IsSeq(MainStream)
  BY ContentIsSeq
<1> HIDE DEF to
<1>5. CallOK(call) /\ call.stage = to
  BY <1>1, <1>2, <1>4 DEF CallOK, CallFields
<1> HIDE DEF call
<1> QED BY <1>1, <1>2, <1>3, <1>5, OneCall DEF to

\* A request that begins to join has no copies yet.
LEMMA BeginJoinKeeps ==
  ASSUME JoinInv, NEW r \in Request, BeginJoin(r)
  PROVE  JoinInv' /\ Moves(r, {"main"})
<1> DEFINE several == Len(keys[1]) > 1
           call == [calls[r] EXCEPT !.stage = "main", !.multi = several]
<1>1. CallOK(calls[r]) /\ calls[r].stage = "new"
  BY DEF JoinInv, BeginJoin, Call
<1>2. Update(r, call) /\ UNCHANGED <<side, content, files>>
  BY DEF BeginJoin, Call
<1> HIDE DEF several
<1>3. CallOK(call) /\ call.stage = "main"
  BY <1>1 DEF CallOK, CallFields
<1> HIDE DEF call
<1> QED BY <1>1, <1>2, <1>3, OneCall

\* A request that takes a key has the copies it had.
LEMMA TakeKeyKeeps ==
  ASSUME JoinInv, NEW r \in Request, NEW stream, NEW n, TakeKey(r, stream, n),
         calls[r].stage # "new"
  PROVE  JoinInv' /\ Moves(r, {calls[r].stage})
<1> DEFINE c == calls[r]
           taken == keys[n]
           call == [c EXCEPT !.joinKey = taken]
<1>1. CallOK(c) /\ c.stage # "new"
  BY DEF JoinInv
<1>2. Update(r, call) /\ UNCHANGED <<side, content, files>>
  BY DEF TakeKey, Call
<1> HIDE DEF taken, c
<1>3. CallOK(call) /\ call.stage = c.stage /\ call.next = c.next
  BY <1>1 DEF CallOK, CallFields
<1> HIDE DEF call
<1>4. JoinInv' /\ Moves(r, {call.stage})
  BY <1>2, <1>3, OneCall DEF c
<1> QED BY <1>3, <1>4 DEF c

\* The main stream is loaded: no copy is there yet.
LEMMA LoadMainKeeps ==
  ASSUME JoinInv, NEW r \in Request, LoadMain(r)
  PROVE  JoinInv' /\ Moves(r, {"failed", "streams"})
<1>1. CallOK(calls[r]) /\ calls[r].stage = "main"
  BY DEF JoinInv, LoadMain, Call
<1> DEFINE multi == calls[r].multi
           taken == calls[r].joinKey
           stream == IF multi THEN WriteMultiKeyStream(MainStream, taken) ELSE MainStream
           key == IF multi THEN RewrittenKey(keys[1]) ELSE keys[1]
           header == Head(stream)
           keyIndex == IF key = <<>> THEN 0 ELSE KeyIndex(header, key[1])
           failed == [calls[r] EXCEPT !.stage = "failed"]
           call == [calls[r] EXCEPT
                     !.stage = "streams", !.joinKey = <<>>, !.main = Tail(stream),
                     !.keyIndex = keyIndex,
                     !.outHeader = IncludeColumns(header, side.columns, keyIndex)]
<1>2. UNCHANGED <<side, content, files>> /\ MainStream # <<>>
  BY DEF LoadMain
<1>3. Update(r, failed) \/ Update(r, call)
  BY DEF LoadMain, Call
<1>4. IsSeq(Tail(stream))
  <2>1. IsSeq(MainStream)
    BY ContentIsSeq
  <2>2. IsSeq(stream) /\ stream # <<>>
    <3>1. CASE multi
      <4> DEFINE w == WriteMultiKeyStream(MainStream, taken)
                 X == {w[n] : n \in DOMAIN w}
      <4>1. DOMAIN w = 1 .. Len(MainStream) /\ Len(MainStream) \in Nat
        BY <2>1, LenProperties DEF WriteMultiKeyStream, IsSeq
      <4>2. Len(MainStream) # 0
        BY <1>2, <2>1, EmptySeq DEF IsSeq
      <4>3. w \in [1 .. Len(MainStream) -> X]
        BY <4>1 DEF WriteMultiKeyStream
      <4> HIDE DEF w, X
      <4>4. w \in Seq(X)
        BY <4>1, <4>3, SeqDef
      <4>5. 1 \in DOMAIN w
        BY <4>1, <4>2
      <4>6. w # <<>>
        BY <4>5
      <4>7. stream = w
        BY <3>1 DEF w
      <4> HIDE DEF stream
      <4> QED BY <4>4, <4>6, <4>7, AnySeq
    <3>2. CASE ~ multi
      BY <1>2, <2>1, <3>2
    <3> QED BY <3>1, <3>2
  <2> HIDE DEF stream
  <2> QED BY <2>2, TailOfSeq, AnySeq
<1>5. CASE Update(r, failed)
  <2>1. CallOK(failed) /\ failed.stage = "failed" /\ failed.next = calls[r].next
    BY <1>1 DEF CallOK, CallFields
  <2> HIDE DEF failed
  <2> QED BY <1>2, <1>5, <2>1, OneCall DEF Moves
<1>6. CASE Update(r, call)
  <2> DEFINE c1 == Tail(stream)
             c2 == IncludeColumns(header, side.columns, keyIndex)
  <2>1. IsSeq(c1)
    BY <1>4
  <2>2. call = [calls[r] EXCEPT !.stage = "streams", !.joinKey = <<>>, !.main = c1,
                                !.keyIndex = keyIndex, !.outHeader = c2]
    OBVIOUS
  <2> HIDE DEF c1, c2, keyIndex, call, multi
  <2>3. CallOK(call) /\ call.stage = "streams" /\ call.next = 1
    <3>1. Len(<<>>) = 0
      OBVIOUS
    <3> QED BY <1>1, <2>1, <2>2, <3>1 DEF CallOK, CallFields
  <2> QED BY <1>1, <1>2, <1>6, <2>3, OneCall DEF Moves
<1> QED BY <1>3, <1>5, <1>6

-----------------------------------------------------------------------------
\* What the first n joined streams add.
AddedUpto(n) ==
  [k \in 1 .. n |-> LinesAfter(content[side.joins[k].node], side.joins[k].skipLines)]

\* What a request has come to that appends streams, or has nothing to join.
AppendOK(r) ==
  LET c == Call(r)
  IN  /\ c.stage = "append" =>
           /\ side.behavior = "append" /\ c.next - 1 \in 0 .. Len(side.joins)
           /\ c.broken \/ c.out = MainStream \o FlattenSeq(AddedUpto(c.next - 1))
      /\ c.stage \in {"main", "streams"} => side.behavior = "columnJoin" /\ side.joins # <<>>
      /\ c.stage \in {"store", "done"} /\ (side.joins = <<>> \/ side.behavior = "append") =>
           c.broken \/ c.out = MainStream \o FlattenSeq(AddedUpto(Len(side.joins)))

\* What holds of the requests that append, or have nothing to join.
AppendInv == \A r \in Request : AppendOK(r)

\* The lines of all streams.
Cells == Seq(Seq(STRING))

\* Everything a request appends is a sequence of lines.
LEMMA JoinsAre ==
  ASSUME JoinInv
  PROVE  /\ side.joins \in Seq(Range(side.joins)) /\ Len(side.joins) \in Nat
         /\ DOMAIN side.joins = 1 .. Len(side.joins)
         /\ MainStream \in Seq(Cells)
         /\ \A n \in 1 .. Len(side.joins) :
              /\ side.joins[n].skipLines \in Nat
              /\ content[side.joins[n].node] \in Seq(Cells)
              /\ LinesAfter(content[side.joins[n].node], side.joins[n].skipLines) \in Seq(Cells)
<1>1. side.joins \in Seq(Range(side.joins)) /\ side \in Sides /\ content \in Contents
  BY JoinAssumption DEF JoinInv
<1>2. Len(side.joins) \in Nat /\ DOMAIN side.joins = 1 .. Len(side.joins)
  BY <1>1, LenProperties
<1>3. MainStream \in Seq(Cells)
  BY <1>1, JoinAssumption DEF MainStream, Cells
<1>4. ASSUME NEW n \in 1 .. Len(side.joins)
      PROVE  /\ side.joins[n].skipLines \in Nat
             /\ content[side.joins[n].node] \in Seq(Cells)
             /\ LinesAfter(content[side.joins[n].node], side.joins[n].skipLines) \in Seq(Cells)
  <2> DEFINE s == content[side.joins[n].node]
             k == side.joins[n].skipLines
  <2>1. k \in Nat /\ s \in Seq(Cells)
    BY <1>1, <1>2, <1>4, JoinAssumption DEF Cells
  <2> HIDE DEF s, k
  <2>2. Len(s) \in Nat /\ \A i \in 1 .. Len(s) : s[i] \in Cells
    BY <2>1, LenProperties, ElementOfSeq
  <2>3. k + 1 \in Int /\ Len(s) \in Int /\ \A i \in k + 1 .. Len(s) : s[i] \in Cells
    BY <2>1, <2>2
  <2>4. SubSeq(s, k + 1, Len(s)) \in Seq(Cells)
    BY <2>3, SubSeqProperties
  <2> QED BY <2>1, <2>4 DEF LinesAfter, s, k
<1> QED BY <1>1, <1>2, <1>3, <1>4

\* So is what the first n streams add.
LEMMA AddedIs ==
  ASSUME JoinInv, NEW n \in Nat, n <= Len(side.joins)
  PROVE  AddedUpto(n) \in Seq(Seq(Cells))
<1>1. Len(side.joins) \in Nat
  BY JoinsAre
<1>2. \A k \in 1 .. n : LinesAfter(content[side.joins[k].node], side.joins[k].skipLines) \in Seq(Cells)
  <2>1. 1 .. n \subseteq 1 .. Len(side.joins)
    BY <1>1
  <2> QED BY <2>1, JoinsAre
<1>3. AddedUpto(n) \in [1 .. n -> Seq(Cells)]
  BY <1>2 DEF AddedUpto
<1> QED BY <1>3, SeqDef

\* One stream more comes behind all others.
LEMMA AddedNext ==
  ASSUME JoinInv, NEW n \in Nat, n + 1 \in DOMAIN side.joins
  PROVE  MainStream \o FlattenSeq(AddedUpto(n + 1))
           = (MainStream \o FlattenSeq(AddedUpto(n)))
               \o LinesAfter(content[side.joins[n + 1].node], side.joins[n + 1].skipLines)
<1> DEFINE one == LinesAfter(content[side.joins[n + 1].node], side.joins[n + 1].skipLines)
           ss == AddedUpto(n)
           tt == AddedUpto(n + 1)
<1>1. Len(side.joins) \in Nat /\ n + 1 \in 1 .. Len(side.joins)
  BY JoinsAre
<1>2. ss \in Seq(Seq(Cells)) /\ tt \in Seq(Seq(Cells)) /\ one \in Seq(Cells) /\ MainStream \in Seq(Cells)
  <2>1. n <= Len(side.joins) /\ n + 1 <= Len(side.joins) /\ n + 1 \in Nat
    BY <1>1
  <2> QED BY <1>1, <2>1, AddedIs, JoinsAre
<1>3. tt = Append(ss, one)
  <2>1. DOMAIN ss = 1 .. n /\ DOMAIN tt = 1 .. n + 1 /\ tt[n + 1] = one
        /\ \A k \in 1 .. n : tt[k] = ss[k]
    BY DEF AddedUpto
  <2>2. Len(ss) = n /\ Len(tt) = n + 1
    <3> HIDE DEF ss, tt
    <3> QED BY <1>2, <2>1, LenProperties
  <2> HIDE DEF ss, tt, one
  <2>3. /\ Append(ss, one) \in Seq(Seq(Cells)) /\ Len(Append(ss, one)) = n + 1
        /\ \A k \in 1 .. n : Append(ss, one)[k] = ss[k]
        /\ Append(ss, one)[n + 1] = one
    BY <1>2, <2>2, AppendProperties
  <2>4. \A k \in 1 .. n + 1 : tt[k] = Append(ss, one)[k]
    <3>1. \A k \in 1 .. n + 1 : k \in 1 .. n \/ k = n + 1
      OBVIOUS
    <3> QED BY <2>1, <2>3, <3>1
  <2> QED BY <1>2, <2>2, <2>3, <2>4, SeqEqual
<1> HIDE DEF ss, tt, one
<1>4. FlattenSeq(tt) = FlattenSeq(ss) \o one
  BY <1>2, <1>3, FlattenSeqAppend
<1>5. FlattenSeq(ss) \in Seq(Cells)
  BY <1>2, FlattenSeqType
<1>6. MainStream \o (FlattenSeq(ss) \o one) = (MainStream \o FlattenSeq(ss)) \o one
  BY <1>2, <1>5, ConcatAssociative
<1> QED BY <1>4, <1>6 DEF ss, tt, one

\* No stream adds nothing.
LEMMA AddedFirst ==
  ASSUME JoinInv PROVE MainStream \o FlattenSeq(AddedUpto(0)) = MainStream
<1>1. AddedUpto(0) = <<>>
  <2>1. 1 .. 0 = {}
    OBVIOUS
  <2>2. AddedUpto(0) \in [1 .. 0 -> {}]
    BY <2>1 DEF AddedUpto
  <2>3. <<>> \in [1 .. 0 -> {}]
    <3>1. <<>> \in Seq({}) /\ Len(<<>>) = 0
      OBVIOUS
    <3> QED BY <3>1, LenProperties
  <2> QED BY <2>1, <2>2, <2>3
<1>2. MainStream \in Seq(Cells)
  BY JoinsAre
<1> QED BY <1>1, <1>2, FlattenSeqEmpty, ConcatEmptySeq

\* All that is added is what IsTheSequence says.
LEMMA AddedIsTheSequence ==
  ASSUME JoinInv, NEW out, out = MainStream \o FlattenSeq(AddedUpto(Len(side.joins)))
  PROVE  IsTheSequence(out)
<1> DEFINE J == side.joins
           T == [n \in DOMAIN J |-> content[J[n].node]]
           L == Len(J)
<1>1. L \in Nat /\ DOMAIN J = 1 .. L
  BY JoinsAre
<1>2. ASSUME NEW n \in 1 .. L PROVE Streams[n + 1] = content[J[n].node]
  <2> DEFINE Y == {MainStream} \union {T[k] : k \in 1 .. L}
  <2>1. T \in [1 .. L -> Y]
    BY <1>1
  <2>2. MainStream \in Y
    OBVIOUS
  <2> HIDE DEF Y
  <2>3. T \in Seq(Y) /\ Len(T) = L
    <3> HIDE DEF T
    <3>1. T \in Seq(Y)
      BY <1>1, <2>1, SeqDef
    <3> QED BY <1>1, <2>1, <3>1, LenProperties
  <2>4. <<MainStream>> \in Seq(Y) /\ Len(<<MainStream>>) = 1
    BY <2>2
  <2>5. Streams = <<MainStream>> \o T
    BY DEF Streams
  <2>6. T[n] = content[J[n].node]
    BY <1>1
  <2> HIDE DEF T
  <2>7. n + 1 \in 2 .. 1 + L /\ n \in Nat
    BY <1>1
  <2>8. (<<MainStream>> \o T)[n + 1] = T[n]
    <3>1. \A i \in 1 .. Len(<<MainStream>>) + Len(T) :
            (<<MainStream>> \o T)[i] = IF i <= Len(<<MainStream>>) THEN <<MainStream>>[i]
                                       ELSE T[i - Len(<<MainStream>>)]
      BY <2>3, <2>4, ConcatProperties
    <3>2. n + 1 \in 1 .. 1 + L /\ ~ (n + 1 <= 1) /\ (n + 1) - 1 = n
      BY <2>7
    <3> QED BY <2>3, <2>4, <3>1, <3>2
  <2> QED BY <2>5, <2>6, <2>8
<1>3. AddedUpto(L) = [n \in DOMAIN J |->
        SubSeq(Streams[n + 1], J[n].skipLines + 1, Len(Streams[n + 1]))]
  BY <1>1, <1>2 DEF AddedUpto, LinesAfter
<1> QED BY <1>3 DEF IsTheSequence

-----------------------------------------------------------------------------
\* Two functions that go on in the same way.
StepsAlike(f, g, L) == f[0] = g[0] /\ \A n \in 1 .. L : f[n - 1] = g[n - 1] => f[n] = g[n]

\* Then they go through the same values.
LEMMA SameSteps ==
  ASSUME NEW L \in Nat, NEW f, NEW g, StepsAlike(f, g, L)
  PROVE  \A n \in 0 .. L : f[n] = g[n]
<1> DEFINE S == {n \in Nat : n <= L => f[n] = g[n]}
<1>1. 0 \in S
  BY DEF StepsAlike
<1>2. ASSUME NEW n \in Nat, n \in S PROVE n + 1 \in S
  <2>1. SUFFICES ASSUME n + 1 <= L PROVE f[n + 1] = g[n + 1]
    OBVIOUS
  <2>2. n + 1 \in 1 .. L /\ (n + 1) - 1 = n /\ f[n] = g[n]
    BY <1>2, <2>1
  <2>3. f[(n + 1) - 1] = g[(n + 1) - 1] => f[n + 1] = g[n + 1]
    BY <2>2 DEF StepsAlike
  <2> QED BY <2>2, <2>3
<1>3. Nat \subseteq S
  <2> HIDE DEF S
  <2> QED BY <1>1, <1>2, Induction
<1> QED BY <1>3

\* The steps of Selected.
Chooses(g, s, P, X) ==
  /\ g \in [0 .. Len(s) -> Seq(X)] /\ g[0] = <<>>
  /\ \A n \in 1 .. Len(s) : g[n] = IF n \in P THEN Append(g[n - 1], s[n]) ELSE g[n - 1]

\* Whatever goes through the elements as Selected does ends where Selected ends.
LEMMA ChoosesTheSame ==
  ASSUME NEW X, NEW s \in Seq(X), NEW P, NEW g, Chooses(g, s, P, X)
  PROVE  Selected(s, P) = g[Len(s)]
<1> DEFINE L == Len(s)
           C(h) == h = [n \in 0 .. L |->
                          IF n = 0 THEN <<>>
                          ELSE IF n \in P THEN Append(h[n - 1], s[n]) ELSE h[n - 1]]
           f == CHOOSE h : C(h)
<1>1. L \in Nat
  BY LenProperties
<1>2. Selected(s, P) = f[L]
  BY Zenon DEF Selected, L, f, C
<1>3. C(g)
  <2>1. g = [n \in 0 .. L |-> g[n]]
    BY DEF Chooses
  <2>2. ASSUME NEW n \in 0 .. L
        PROVE  g[n] = IF n = 0 THEN <<>>
                      ELSE IF n \in P THEN Append(g[n - 1], s[n]) ELSE g[n - 1]
    <3>1. n = 0 \/ n \in 1 .. L
      BY <1>1
    <3> QED BY <3>1 DEF Chooses
  <2> QED BY <2>1, <2>2
<1>4. C(f)
  <2> HIDE DEF C
  <2> QED BY <1>3
<1> HIDE DEF f
<1>5. StepsAlike(f, g, L)
  <2>1. f[0] = <<>> /\ g[0] = <<>>
    BY <1>1, <1>4 DEF Chooses
  <2>2. ASSUME NEW n \in 1 .. L, f[n - 1] = g[n - 1] PROVE f[n] = g[n]
    <3>1. n \in 0 .. L /\ n # 0
      BY <1>1
    <3> QED BY <1>4, <2>2, <3>1 DEF Chooses
  <2> QED BY <2>1, <2>2 DEF StepsAlike
<1>6. \A n \in 0 .. L : f[n] = g[n]
  <2> HIDE DEF L, C
  <2> QED BY <1>1, <1>5, SameSteps
<1> QED BY <1>1, <1>2, <1>6

\* There is such a recursion: Selected has a value for every sequence.
LEMMA SelectedSteps ==
  ASSUME NEW X, NEW s \in Seq(X), NEW P
  PROVE  \E g : Chooses(g, s, P, X)
<1> DEFINE L == Len(s)
           One(n, x) == IF n \in P THEN Append(x, s[n]) ELSE x
           F == [n \in 1 .. L |-> [x \in Seq(X) |-> One(n, x)]]
<1>1. L \in Nat /\ \A n \in 1 .. L : s[n] \in X
  BY LenProperties
<1>2. \A n \in 1 .. L, x \in Seq(X) : One(n, x) \in Seq(X)
  BY <1>1, AppendProperties
<1>3. F \in [1 .. L -> [Seq(X) -> Seq(X)]] /\ \A n \in 1 .. L, x \in Seq(X) : F[n][x] = One(n, x)
  BY <1>2
<1>5. \A n, x : One(n, x) = IF n \in P THEN Append(x, s[n]) ELSE x
  OBVIOUS
<1> HIDE DEF F, L, One
<1>6. PICK g : IteratesUpto(g, L, <<>>, F, Seq(X))
  <2>1. <<>> \in Seq(X)
    OBVIOUS
  <2> QED BY <1>1, <1>3, <2>1, FiniteRecursion
<1>7. g \in [0 .. L -> Seq(X)] /\ \A n \in 0 .. L : g[n] = IF n = 0 THEN <<>> ELSE F[n][g[n - 1]]
  BY <1>6 DEF IteratesUpto
<1>8. ASSUME NEW n \in 1 .. L PROVE g[n] = One(n, g[n - 1])
  <2>1. n \in 0 .. L /\ n # 0 /\ n - 1 \in 0 .. L
    BY <1>1
  <2>2. g[n - 1] \in Seq(X) /\ g[n] = F[n][g[n - 1]]
    BY <1>7, <2>1
  <2> QED BY <1>3, <2>2
<1>9. g[0] = <<>>
  BY <1>1, <1>7
<1> QED BY <1>5, <1>7, <1>8, <1>9 DEF Chooses, L

\* How many of the positions come up to n.
Rank(P, n) == Cardinality(P \cap 1 .. n)

\* A rank is a number, and grows by one with every place of P.
LEMMA RankIs ==
  ASSUME NEW P
  PROVE  /\ Rank(P, 0) = 0
         /\ \A n \in Nat : Rank(P, n) \in Nat
                           /\ Rank(P, n + 1) = IF n + 1 \in P THEN Rank(P, n) + 1 ELSE Rank(P, n)
<1>1. P \cap 1 .. 0 = {}
  OBVIOUS
<1>2. ASSUME NEW n \in Nat
      PROVE  Rank(P, n) \in Nat
             /\ Rank(P, n + 1) = IF n + 1 \in P THEN Rank(P, n) + 1 ELSE Rank(P, n)
  <2>1. IsFiniteSet(1 .. n)
    BY FS_Interval
  <2>2. IsFiniteSet(P \cap 1 .. n)
    BY <2>1, FS_Subset
  <2>3. Rank(P, n) \in Nat
    BY <2>2, FS_CardinalityType DEF Rank
  <2>4. CASE n + 1 \in P
    <3>1. P \cap 1 .. n + 1 = (P \cap 1 .. n) \union {n + 1} /\ n + 1 \notin P \cap 1 .. n
      BY <2>4
    <3> QED BY <2>2, <2>3, <2>4, <3>1, FS_AddElement DEF Rank
  <2>5. CASE n + 1 \notin P
    <3>1. P \cap 1 .. n + 1 = P \cap 1 .. n
      BY <2>5
    <3> QED BY <2>3, <2>5, <3>1 DEF Rank
  <2> QED BY <2>3, <2>4, <2>5
<1> QED BY <1>1, <1>2, FS_EmptySet DEF Rank

-----------------------------------------------------------------------------
\* What Selected returns: the elements at the positions, each at its rank.
ChosenUpto(c, s, P, n) ==
  /\ Len(c) = Rank(P, n)
  /\ \A m \in 1 .. n : m \in P => Rank(P, m) \in 1 .. Len(c) /\ c[Rank(P, m)] = s[m]
  /\ \A k \in 1 .. Len(c) : \E m \in 1 .. n : m \in P /\ Rank(P, m) = k

\* After n elements, the recursion has those of the places of P up to n.
LEMMA ChosenIs ==
  ASSUME NEW X, NEW s \in Seq(X), NEW P, NEW g, Chooses(g, s, P, X)
  PROVE  \A n \in 0 .. Len(s) : g[n] \in Seq(X) /\ ChosenUpto(g[n], s, P, n)
<1> DEFINE L == Len(s)
           S == {n \in Nat : n <= L => ChosenUpto(g[n], s, P, n)}
<1>1. L \in Nat /\ \A n \in 0 .. L : g[n] \in Seq(X)
  BY LenProperties DEF Chooses
<1>2. 0 \in S
  <2>1. g[0] = <<>>
    BY DEF Chooses
  <2>2. Len(g[0]) = 0 /\ Rank(P, 0) = 0
    BY <2>1, RankIs
  <2> QED BY <2>2 DEF ChosenUpto
<1>3. ASSUME NEW k \in Nat, k \in S PROVE k + 1 \in S
  <2> DEFINE n == k + 1
             c == g[k]
             d == g[n]
  <2>1. SUFFICES ASSUME n <= L PROVE ChosenUpto(d, s, P, n)
    OBVIOUS
  <2>2. n \in 1 .. L /\ n - 1 = k /\ k \in 0 .. L /\ n \in 0 .. L /\ k <= L
    BY <1>1, <2>1
  <2>3. ChosenUpto(c, s, P, k) /\ c \in Seq(X)
    BY <1>1, <1>3, <2>2
  <2>4. d = IF n \in P THEN Append(c, s[n]) ELSE c
    BY <2>2 DEF Chooses
  <2>5. Len(c) \in Nat /\ Rank(P, n) = IF n \in P THEN Len(c) + 1 ELSE Len(c)
    BY <2>3, RankIs, LenProperties DEF ChosenUpto
  <2>6. \A m \in 1 .. n : m \in 1 .. k \/ m = n
    BY <2>2
  <2>7. \A m \in 1 .. k : m \in 1 .. n
    BY <2>2
  <2>8. n \in 1 .. n
    BY <2>2
  <2> HIDE DEF n, d, c
  <2>9. CASE n \in P
    <3>1. d = Append(c, s[n]) /\ s[n] \in X
      BY <2>2, <2>4, <2>9, LenProperties
    <3>2. /\ Len(d) = Len(c) + 1 /\ d[Len(c) + 1] = s[n]
          /\ \A a \in 1 .. Len(c) : d[a] = c[a]
      BY <2>3, <3>1, AppendProperties
    <3>3. Rank(P, n) = Len(c) + 1
      BY <2>5, <2>9
    <3>4. ASSUME NEW m \in 1 .. n, m \in P
          PROVE  Rank(P, m) \in 1 .. Len(d) /\ d[Rank(P, m)] = s[m]
      <4>1. CASE m = n
        BY <2>5, <3>2, <3>3, <4>1
      <4>2. CASE m \in 1 .. k
        <5>1. Rank(P, m) \in 1 .. Len(c) /\ c[Rank(P, m)] = s[m]
          BY <2>3, <3>4, <4>2 DEF ChosenUpto
        <5> QED BY <2>5, <3>2, <5>1
      <4> QED BY <2>6, <4>1, <4>2
    <3>5. ASSUME NEW a \in 1 .. Len(d) PROVE \E m \in 1 .. n : m \in P /\ Rank(P, m) = a
      <4>1. CASE a = Len(c) + 1
        BY <2>8, <2>9, <3>3, <4>1
      <4>2. CASE a \in 1 .. Len(c)
        BY <2>3, <2>7, <4>2 DEF ChosenUpto
      <4> QED BY <2>5, <3>2, <4>1, <4>2
    <3> QED BY <3>2, <3>3, <3>4, <3>5 DEF ChosenUpto
  <2>10. CASE n \notin P
    <3>1. d = c /\ Rank(P, n) = Len(c)
      BY <2>4, <2>5, <2>10
    <3>2. \A m \in 1 .. n : m \in P => m \in 1 .. k
      BY <2>6, <2>10
    <3> QED BY <2>3, <2>7, <3>1, <3>2 DEF ChosenUpto
  <2> QED BY <2>9, <2>10
<1>4. Nat \subseteq S
  <2> HIDE DEF S
  <2> QED BY <1>2, <1>3, Induction
<1>5. ASSUME NEW n \in 0 .. L PROVE ChosenUpto(g[n], s, P, n)
  <2>1. n \in Nat /\ n <= L
    BY <1>1
  <2> QED BY <1>4, <2>1
<1> QED BY <1>1, <1>5

\* Selected is the elements at the places of P, one for each, in their order.
LEMMA SelectedIs ==
  ASSUME NEW X, NEW s \in Seq(X), NEW P
  PROVE  Selected(s, P) \in Seq(X) /\ ChosenUpto(Selected(s, P), s, P, Len(s))
<1>1. PICK g : Chooses(g, s, P, X)
  BY SelectedSteps
<1>2. Selected(s, P) = g[Len(s)]
  BY <1>1, ChoosesTheSame
<1>3. Len(s) \in 0 .. Len(s)
  BY LenProperties
<1> QED BY <1>1, <1>2, <1>3, ChosenIs

\* The positions up to n are selected after n steps.
LEMMA SelectedUpto ==
  ASSUME NEW X, NEW s \in Seq(X), NEW P, NEW g, Chooses(g, s, P, X), NEW n \in 0 .. Len(s)
  PROVE  Selected(s, P \cap 1 .. n) = g[n]
<1> DEFINE L == Len(s)
           Q == P \cap 1 .. n
<1>0. L \in Nat
  BY LenProperties
<1>1. PICK h : Chooses(h, s, Q, X)
  BY SelectedSteps
<1>2. \A k \in 0 .. L : h[k] = IF k <= n THEN g[k] ELSE g[n]
  <2> DEFINE S == {k \in Nat : k <= L => h[k] = IF k <= n THEN g[k] ELSE g[n]}
  <2>1. 0 \in S
    BY <1>1 DEF Chooses
  <2>2. ASSUME NEW k \in Nat, k \in S PROVE k + 1 \in S
    <3> DEFINE m == k + 1
    <3>1. SUFFICES ASSUME m <= L PROVE h[m] = IF m <= n THEN g[m] ELSE g[n]
      OBVIOUS
    <3>2. m \in 1 .. L /\ m - 1 = k /\ k <= L
      BY <1>0, <3>1
    <3>3. h[k] = IF k <= n THEN g[k] ELSE g[n]
      BY <2>2, <3>2
    <3>4. /\ h[m] = IF m \in Q THEN Append(h[k], s[m]) ELSE h[k]
          /\ g[m] = IF m \in P THEN Append(g[k], s[m]) ELSE g[k]
      BY <1>1, <3>2 DEF Chooses
    <3>5. CASE m <= n
      <4>1. (m \in Q <=> m \in P) /\ k <= n
        BY <3>2, <3>5
      <4> QED BY <3>3, <3>4, <3>5, <4>1
    <3>6. CASE ~ (m <= n)
      <4>1. m \notin Q /\ (k <= n => k = n)
        BY <3>2, <3>6
      <4> QED BY <3>3, <3>4, <3>6, <4>1
    <3> QED BY <3>5, <3>6
  <2>3. Nat \subseteq S
    <3> HIDE DEF S
    <3> QED BY <2>1, <2>2, Induction
  <2>4. ASSUME NEW k \in 0 .. L PROVE h[k] = IF k <= n THEN g[k] ELSE g[n]
    <3>1. k \in Nat /\ k <= L
      BY <1>0
    <3> QED BY <2>3, <3>1
  <2> QED BY <2>4
<1>3. h[L] = g[n]
  <2>1. L \in 0 .. L /\ (L <= n => L = n)
    BY <1>0
  <2>2. h[L] = IF L <= n THEN g[L] ELSE g[n]
    BY <1>2, <2>1
  <2> QED BY <2>1, <2>2
<1>4. Selected(s, Q) = h[L]
  BY <1>1, ChoosesTheSame
<1> QED BY <1>3, <1>4

\* One position more.
LEMMA SelectedSame ==
  ASSUME NEW X, NEW s \in Seq(X), NEW P, NEW n \in 1 .. Len(s), n \notin P
  PROVE  Selected(s, P \cap 1 .. n) = Selected(s, P \cap 1 .. n - 1)
<1>1. P \cap 1 .. n = P \cap 1 .. n - 1
  OBVIOUS
<1> QED BY <1>1

\* A place of P more is an element more.
LEMMA SelectedNext ==
  ASSUME NEW X, NEW s \in Seq(X), NEW P, NEW n \in 1 .. Len(s), n \in P
  PROVE  Selected(s, P \cap 1 .. n) = Append(Selected(s, P \cap 1 .. n - 1), s[n])
<1>1. PICK g : Chooses(g, s, P, X)
  BY SelectedSteps
<1>2. n \in 0 .. Len(s) /\ n - 1 \in 0 .. Len(s)
  BY LenProperties
<1>3. Selected(s, P \cap 1 .. n) = g[n]
  BY <1>1, <1>2, SelectedUpto
<1>4. Selected(s, P \cap 1 .. n - 1) = g[n - 1]
  BY <1>1, <1>2, SelectedUpto
<1>5. g[n] = Append(g[n - 1], s[n])
  BY <1>1 DEF Chooses
<1> QED BY <1>3, <1>4, <1>5

\* Of no places, Selected is empty.
LEMMA SelectedNone ==
  ASSUME NEW X, NEW s \in Seq(X)
  PROVE  Selected(s, {}) = <<>>
<1>1. ChosenUpto(Selected(s, {}), s, {}, Len(s)) /\ Selected(s, {}) \in Seq(X)
  BY SelectedIs
<1>2. {} \cap 1 .. Len(s) = {}
  OBVIOUS
<1>3. Rank({}, Len(s)) = 0
  BY <1>2, FS_EmptySet DEF Rank
<1> QED BY <1>1, <1>3, EmptySeq DEF ChosenUpto

-----------------------------------------------------------------------------
\* A function of the numbers up to N is a sequence of that length.
LEMMA SeqOfFunction ==
  ASSUME NEW X, NEW N \in Nat, NEW f \in [1 .. N -> X]
  PROVE  f \in Seq(X) /\ Len(f) = N
<1>1. f \in Seq(X) /\ DOMAIN f = 1 .. N
  BY SeqDef
<1>2. Len(f) \in Nat /\ DOMAIN f = 1 .. Len(f)
  BY <1>1, LenProperties
<1>3. (Len(f) # 0 => Len(f) \in 1 .. N) /\ (N # 0 => N \in 1 .. Len(f))
  <2>1. (Len(f) # 0 => Len(f) \in 1 .. Len(f)) /\ (N # 0 => N \in 1 .. N)
    BY <1>2
  <2> QED BY <1>1, <1>2, <2>1
<1>4. Len(f) \in Nat
  BY <1>2
<1>5. Len(f) = N
  BY <1>3, <1>4
<1> QED BY <1>1, <1>5

-----------------------------------------------------------------------------
\* A sequence that has for each x of S the element F[x] once: h says which one.
Lister(h, s, F, S) ==
  /\ h \in [1 .. Len(s) -> S]
  /\ \A n \in 1 .. Len(s) : s[n] = F[h[n]]
  /\ \A m, n \in 1 .. Len(s) : h[m] = h[n] => m = n
  /\ \A x \in S : \E n \in 1 .. Len(s) : h[n] = x

\* The sequence s holds F[x] once for every x of S, in some order.
Lists(s, F, S) == \E h : Lister(h, s, F, S)

\* No line lists nothing.
LEMMA ListsNone ==
  ASSUME NEW F PROVE Lists(<<>>, F, {})
<1>1. Lister(<<>>, <<>>, F, {})
  <2>1. Len(<<>>) = 0 /\ 1 .. 0 = {} /\ <<>> \in [1 .. 0 -> {}]
    <3>1. <<>> \in Seq({}) /\ Len(<<>>) = 0
      OBVIOUS
    <3> QED BY <3>1, LenProperties
  <2> QED BY <2>1 DEF Lister
<1> QED BY <1>1 DEF Lists

\* Two lists of different things, one after the other, list both.
LEMMA ListsConcat ==
  ASSUME NEW X, NEW s \in Seq(X), NEW t \in Seq(X), NEW F, NEW S, NEW T,
         Lists(s, F, S), Lists(t, F, T), S \cap T = {}
  PROVE  Lists(s \o t, F, S \union T)
<1>1. PICK g : Lister(g, s, F, S)
  BY DEF Lists
<1>2. PICK h : Lister(h, t, F, T)
  BY DEF Lists
<1> DEFINE p == Len(s)
           q == Len(t)
           u == s \o t
           k == [n \in 1 .. p + q |-> IF n <= p THEN g[n] ELSE h[n - p]]
<1>3. p \in Nat /\ q \in Nat
  BY LenProperties
<1>4. Len(u) = p + q /\ \A n \in 1 .. p + q : u[n] = IF n <= p THEN s[n] ELSE t[n - p]
  BY ConcatProperties
<1>5. /\ g \in [1 .. p -> S] /\ \A n \in 1 .. p : s[n] = F[g[n]]
      /\ \A m, n \in 1 .. p : g[m] = g[n] => m = n
      /\ \A x \in S : \E n \in 1 .. p : g[n] = x
  BY <1>1 DEF Lister
<1>6. /\ h \in [1 .. q -> T] /\ \A n \in 1 .. q : t[n] = F[h[n]]
      /\ \A m, n \in 1 .. q : h[m] = h[n] => m = n
      /\ \A x \in T : \E n \in 1 .. q : h[n] = x
  BY <1>2 DEF Lister
<1> HIDE DEF p, q, u
<1>7. \A n \in 1 .. p + q : IF n <= p THEN n \in 1 .. p /\ k[n] = g[n] ELSE n - p \in 1 .. q /\ k[n] = h[n - p]
  BY <1>3
<1>8. k \in [1 .. p + q -> S \union T]
  <2>1. \A n \in 1 .. p + q : k[n] \in S \union T
    BY <1>5, <1>6, <1>7
  <2> QED BY <2>1
<1> HIDE DEF k
<1>9. \A n \in 1 .. p + q : u[n] = F[k[n]]
  BY <1>4, <1>5, <1>6, <1>7
<1>10. ASSUME NEW m \in 1 .. p + q, NEW n \in 1 .. p + q, k[m] = k[n] PROVE m = n
  <2>1. CASE m <= p /\ n <= p
    BY <1>5, <1>7, <1>10, <2>1
  <2>2. CASE ~ (m <= p) /\ ~ (n <= p)
    <3>1. m - p = n - p
      BY <1>6, <1>7, <1>10, <2>2
    <3> QED BY <1>3, <3>1
  <2>3. CASE m <= p /\ ~ (n <= p)
    <3>1. k[m] \in S /\ k[n] \in T
      BY <1>5, <1>6, <1>7, <2>3
    <3> QED BY <1>10, <3>1
  <2>4. CASE ~ (m <= p) /\ n <= p
    <3>1. k[m] \in T /\ k[n] \in S
      BY <1>5, <1>6, <1>7, <2>4
    <3> QED BY <1>10, <3>1
  <2> QED BY <2>1, <2>2, <2>3, <2>4
<1>11. ASSUME NEW x \in S \union T PROVE \E n \in 1 .. p + q : k[n] = x
  <2>1. CASE x \in S
    <3>1. PICK n \in 1 .. p : g[n] = x
      BY <1>5, <2>1
    <3>2. n \in 1 .. p + q /\ n <= p
      BY <1>3
    <3> QED BY <1>7, <3>1, <3>2
  <2>2. CASE x \in T
    <3>1. PICK n \in 1 .. q : h[n] = x
      BY <1>6, <2>2
    <3>2. n + p \in 1 .. p + q /\ ~ (n + p <= p) /\ (n + p) - p = n
      BY <1>3
    <3> QED BY <1>7, <3>1, <3>2
  <2> QED BY <2>1, <2>2
<1>12. Lister(k, u, F, S \union T)
  BY <1>4, <1>8, <1>9, <1>10, <1>11 DEF Lister
<1> QED BY <1>12 DEF Lists, u

\* One line lists one thing.
LEMMA ListsOne ==
  ASSUME NEW F, NEW x PROVE Lists(<<F[x]>>, F, {x})
<1>1. Lister([n \in 1 .. 1 |-> x], <<F[x]>>, F, {x})
  <2>1. Len(<<F[x]>>) = 1 /\ <<F[x]>>[1] = F[x] /\ 1 .. 1 = {1}
    OBVIOUS
  <2>2. [n \in 1 .. 1 |-> x] \in [1 .. 1 -> {x}]
    OBVIOUS
  <2> QED BY <2>1, <2>2 DEF Lister
<1> QED BY <1>1 DEF Lists

\* One line more lists one thing more.
LEMMA ListsAppend ==
  ASSUME NEW X, NEW s \in Seq(X), NEW F, NEW S, Lists(s, F, S), NEW x, x \notin S, F[x] \in X
  PROVE  Lists(Append(s, F[x]), F, S \union {x})
<1> DEFINE y == F[x]
<1>1. Lists(<<y>>, F, {x})
  BY ListsOne
<1>2. <<y>> \in Seq(X) /\ Append(s, y) = s \o <<y>>
  <2> HIDE DEF y
  <2>1. y \in X
    BY DEF y
  <2> QED BY <2>1, AppendIsConcat
<1>3. S \cap {x} = {}
  OBVIOUS
<1> HIDE DEF y
<1>4. Lists(s \o <<y>>, F, S \union {x})
  BY <1>1, <1>2, <1>3, ListsConcat
<1> QED BY <1>2, <1>4 DEF y

\* The same elements under other names.
IsOneToOne(b, S, T) ==
  /\ b \in [S -> T]
  /\ \A x, y \in S : b[x] = b[y] => x = y
  /\ \A z \in T : \E x \in S : b[x] = z

\* The same things under other names.
Renames(b, F, G, S) == \A x \in S : G[b[x]] = F[x]

\* A list is one of the same things under other names.
LEMMA ListsMapped ==
  ASSUME NEW s, NEW F, NEW S, Lists(s, F, S), NEW T, NEW b, IsOneToOne(b, S, T), NEW G, Renames(b, F, G, S)
  PROVE  Lists(s, G, T)
<1>1. PICK h : Lister(h, s, F, S)
  BY DEF Lists
<1> DEFINE k == [n \in 1 .. Len(s) |-> b[h[n]]]
<1>2. /\ h \in [1 .. Len(s) -> S] /\ \A n \in 1 .. Len(s) : s[n] = F[h[n]]
      /\ \A m, n \in 1 .. Len(s) : h[m] = h[n] => m = n
      /\ \A x \in S : \E n \in 1 .. Len(s) : h[n] = x
  BY <1>1 DEF Lister
<1>3. /\ b \in [S -> T] /\ \A x, y \in S : b[x] = b[y] => x = y
      /\ \A z \in T : \E x \in S : b[x] = z
  BY DEF IsOneToOne
<1>4. k \in [1 .. Len(s) -> T] /\ \A n \in 1 .. Len(s) : h[n] \in S /\ k[n] = b[h[n]]
  BY <1>2, <1>3
<1> HIDE DEF k
<1>5. \A n \in 1 .. Len(s) : s[n] = G[k[n]]
  BY <1>2, <1>4 DEF Renames
<1>6. \A m, n \in 1 .. Len(s) : k[m] = k[n] => m = n
  BY <1>2, <1>3, <1>4
<1>7. \A z \in T : \E n \in 1 .. Len(s) : k[n] = z
  BY <1>2, <1>3, <1>4
<1> QED BY <1>4, <1>5, <1>6, <1>7 DEF Lister, Lists

\* Two functions that are the same on S.
AgreeOn(F, G, S) == \A x \in S : F[x] = G[x]

\* What a list is of, given by another function with the same values.
LEMMA ListsSame ==
  ASSUME NEW s, NEW F, NEW S, Lists(s, F, S), NEW G, AgreeOn(F, G, S)
  PROVE  Lists(s, G, S)
<1>1. PICK h : Lister(h, s, F, S)
  BY DEF Lists
<1>2. Lister(h, s, G, S)
  BY <1>1 DEF Lister, AgreeOn
<1> QED BY <1>2 DEF Lists

\* What becomes of each element, becomes of the one it is listed for.
Becomes(s, t, F, G, S) ==
  Len(t) = Len(s) /\ \A n \in 1 .. Len(s) : \A x \in S : s[n] = F[x] => t[n] = G[x]

\* Each line of a list changed in the same way.
LEMMA ListsBecomes ==
  ASSUME NEW s, NEW t, NEW F, NEW S, Lists(s, F, S), NEW G, Becomes(s, t, F, G, S)
  PROVE  Lists(t, G, S)
<1>1. PICK h : Lister(h, s, F, S)
  BY DEF Lists
<1>2. Lister(h, t, G, S)
  <2>1. \A n \in 1 .. Len(s) : h[n] \in S /\ s[n] = F[h[n]]
    BY <1>1 DEF Lister
  <2>2. \A n \in 1 .. Len(t) : t[n] = G[h[n]]
    BY <2>1 DEF Becomes
  <2> QED BY <1>1, <2>2 DEF Lister, Becomes
<1> QED BY <1>2 DEF Lists

\* The places of an element in a sequence, and those it is the element of.
PlacesOf(s, x) == {n \in DOMAIN s : s[n] = x}

\* The things that are listed by the line x.
ElementsLike(F, S, x) == {y \in S : F[y] = x}

\* Equal elements are listed as often as they are there.
LEMMA ListsCount ==
  ASSUME NEW X, NEW s \in Seq(X), NEW F, NEW S, Lists(s, F, S), NEW line
  PROVE  /\ IsFiniteSet(S)
         /\ Cardinality(PlacesOf(s, line)) = Cardinality(ElementsLike(F, S, line))
<1>1. PICK h : Lister(h, s, F, S)
  BY DEF Lists
<1> DEFINE A == {n \in DOMAIN s : s[n] = line}
           B == {x \in S : F[x] = line}
           N == 1 .. Len(s)
           k == [n \in A |-> h[n]]
<1>2. Len(s) \in Nat /\ DOMAIN s = N
  BY LenProperties
<1>3. /\ h \in [N -> S] /\ \A n \in N : s[n] = F[h[n]]
      /\ \A m, n \in N : h[m] = h[n] => m = n
      /\ \A x \in S : \E n \in N : h[n] = x
  BY <1>1 DEF Lister
<1>4. A \in SUBSET N
  BY <1>2
<1>5. \A n \in N : n \in A <=> F[h[n]] = line
  BY <1>2, <1>3
<1>6. IsFiniteSet(N)
  BY <1>2, FS_Interval
<1>7. k \in Bijection(A, B)
  <2>1. k \in [A -> B]
    BY <1>3, <1>4, <1>5
  <2>2. \A m, n \in A : k[m] = k[n] => m = n
    BY <1>3, <1>4
  <2>3. \A x \in B : \E n \in A : k[n] = x
    <3> SUFFICES ASSUME NEW x \in B PROVE \E n \in A : k[n] = x
      OBVIOUS
    <3>1. PICK n \in N : h[n] = x
      BY <1>3
    <3>2. n \in A
      BY <1>5, <3>1
    <3> QED BY <3>1, <3>2
  <2> HIDE DEF k, A, B
  <2> QED BY <2>1, <2>2, <2>3, Fun_IsBij
<1>8. h \in Bijection(N, S)
  <2> HIDE DEF N
  <2> QED BY <1>3, Fun_IsBij
<1> HIDE DEF A, B, N, k
<1>9. IsFiniteSet(A)
  BY <1>4, <1>6, FS_Subset
<1>10. ExistsBijection(A, B) /\ ExistsBijection(N, S)
  BY <1>7, <1>8 DEF ExistsBijection
<1>11. Cardinality(B) = Cardinality(A)
  BY <1>9, <1>10, FS_Bijection
<1>12. IsFiniteSet(S)
  BY <1>6, <1>10, FS_Bijection
<1> QED BY <1>11, <1>12 DEF A, B, PlacesOf, ElementsLike

-----------------------------------------------------------------------------
\* Each of the sequences lists its part, and the parts are apart.
ArePartsOf(ss, F, T) ==
  /\ \A n \in 1 .. Len(ss) : Lists(ss[n], F, T[n])
  /\ \A m, n \in 1 .. Len(ss) : m # n => T[m] \cap T[n] = {}

\* The lists of all parts, one after the other.
LEMMA ListsFlatten ==
  ASSUME NEW X, NEW ss \in Seq(Seq(X)), NEW F, NEW T, ArePartsOf(ss, F, T)
  PROVE  Lists(FlattenSeq(ss), F, UNION {T[n] : n \in 1 .. Len(ss)})
<1> DEFINE L == Len(ss)
           U(n) == UNION {T[k] : k \in 1 .. n}
<1>1. PICK g : Flattens(g, ss, X)
  BY FlattenSeqSteps
<1>2. /\ g \in [0 .. L -> Seq(X)] /\ g[0] = <<>>
      /\ \A n \in 1 .. L : g[n] = g[n - 1] \o ss[n]
      /\ FlattenSeq(ss) = g[L]
  BY <1>1 DEF Flattens
<1>3. L \in Nat /\ \A n \in 1 .. L : ss[n] \in Seq(X)
  BY LenProperties, ElementOfSeq
<1>4. /\ \A n \in 1 .. L : Lists(ss[n], F, T[n])
      /\ \A m, n \in 1 .. L : m # n => T[m] \cap T[n] = {}
  BY DEF ArePartsOf
<1> DEFINE I == {n \in Nat : n <= L => Lists(g[n], F, U(n))}
<1>5. 0 \in I
  <2>1. U(0) = {}
    OBVIOUS
  <2> HIDE DEF U
  <2> QED BY <1>2, <2>1, ListsNone
<1>6. ASSUME NEW n \in Nat, n \in I PROVE n + 1 \in I
  <2>1. SUFFICES ASSUME n + 1 <= L PROVE Lists(g[n + 1], F, U(n + 1))
    OBVIOUS
  <2>2. n + 1 \in 1 .. L /\ (n + 1) - 1 = n /\ n \in 0 .. L /\ n <= L
    BY <1>3, <2>1
  <2>3. Lists(g[n], F, U(n)) /\ g[n] \in Seq(X)
    BY <1>2, <1>6, <2>2
  <2>4. Lists(ss[n + 1], F, T[n + 1]) /\ ss[n + 1] \in Seq(X)
    BY <1>3, <1>4, <2>2
  <2>5. U(n) \cap T[n + 1] = {}
    <3>1. \A k \in 1 .. n : T[k] \cap T[n + 1] = {}
      <4>1. \A k \in 1 .. n : k \in 1 .. L /\ k # n + 1
        BY <1>3, <2>2
      <4> QED BY <1>4, <2>2, <4>1
    <3> QED BY <3>1
  <2>6. U(n + 1) = U(n) \union T[n + 1]
    <3>1. \A k : k \in 1 .. n + 1 <=> k \in 1 .. n \/ k = n + 1
      BY <2>2
    <3> QED BY <3>1
  <2> HIDE DEF U
  <2>7. Lists(g[n] \o ss[n + 1], F, U(n) \union T[n + 1])
    BY <2>3, <2>4, <2>5, ListsConcat
  <2> QED BY <1>2, <2>2, <2>6, <2>7
<1>7. L \in I
  <2> HIDE DEF I
  <2> QED BY <1>3, <1>5, <1>6, Induction
<1> QED BY <1>2, <1>3, <1>7

\* The lines that have a value in a column list what has it.
LEMMA ListsHaving ==
  ASSUME NEW X, NEW s \in Seq(X), NEW F, NEW S, Lists(s, F, S), NEW i, NEW cell
  PROVE  /\ Having(s, i, cell) \in Seq(X)
         /\ Lists(Having(s, i, cell), F, {x \in S : CellAt(F[x], i) = cell})
<1> DEFINE L == Len(s)
           C(n) == CellAt(s[n], i) = cell
<1>1. PICK g : Picks(g, s, i, cell, X)
  BY HavingSteps
<1>2. PICK h : Lister(h, s, F, S)
  BY DEF Lists
<1> DEFINE U(n) == {h[k] : k \in {m \in 1 .. n : C(m)}}
           I == {n \in Nat : n <= L => Lists(g[n], F, U(n))}
<1>3. /\ g \in [0 .. L -> Seq(X)] /\ g[0] = <<>>
      /\ \A n \in 1 .. L : g[n] = IF C(n) THEN Append(g[n - 1], s[n]) ELSE g[n - 1]
      /\ Having(s, i, cell) = g[L]
  BY <1>1 DEF Picks
<1>4. L \in Nat /\ \A n \in 1 .. L : s[n] \in X
  BY LenProperties, ElementOfSeq
<1>5. /\ h \in [1 .. L -> S] /\ \A n \in 1 .. L : s[n] = F[h[n]]
      /\ \A m, n \in 1 .. L : h[m] = h[n] => m = n
      /\ \A x \in S : \E n \in 1 .. L : h[n] = x
  BY <1>2 DEF Lister
<1>6. 0 \in I
  <2>1. U(0) = {}
    OBVIOUS
  <2> HIDE DEF U
  <2> QED BY <1>3, <2>1, ListsNone
<1>7. ASSUME NEW n \in Nat, n \in I PROVE n + 1 \in I
  <2>1. SUFFICES ASSUME n + 1 <= L PROVE Lists(g[n + 1], F, U(n + 1))
    OBVIOUS
  <2>2. n + 1 \in 1 .. L /\ (n + 1) - 1 = n /\ n \in 0 .. L /\ n <= L
    BY <1>4, <2>1
  <2>3. Lists(g[n], F, U(n)) /\ g[n] \in Seq(X)
    BY <1>3, <1>7, <2>2
  <2>4. \A k : k \in 1 .. n + 1 <=> k \in 1 .. n \/ k = n + 1
    BY <2>2
  <2>5. CASE C(n + 1)
    <3> DEFINE x == h[n + 1]
    <3>1. U(n + 1) = U(n) \union {x}
      BY <2>4, <2>5
    <3>2. x \notin U(n)
      <4>1. \A k \in 1 .. n : k \in 1 .. L /\ k # n + 1
        BY <1>4, <2>2
      <4> QED BY <1>5, <2>2, <4>1
    <3>3. F[x] = s[n + 1] /\ F[x] \in X
      BY <1>4, <1>5, <2>2
    <3>4. g[n + 1] = Append(g[n], s[n + 1])
      BY <1>3, <2>2, <2>5
    <3> HIDE DEF U, x, C
    <3>5. Lists(Append(g[n], F[x]), F, U(n) \union {x})
      BY <2>3, <3>2, <3>3, ListsAppend
    <3> QED BY <3>1, <3>3, <3>4, <3>5
  <2>6. CASE ~ C(n + 1)
    <3>1. U(n + 1) = U(n)
      BY <2>4, <2>6
    <3>2. g[n + 1] = g[n]
      BY <1>3, <2>2, <2>6
    <3> HIDE DEF U
    <3> QED BY <2>3, <3>1, <3>2
  <2> QED BY <2>5, <2>6
<1>8. L \in I
  <2> HIDE DEF I
  <2> QED BY <1>4, <1>6, <1>7, Induction
<1>9. U(L) = {x \in S : CellAt(F[x], i) = cell}
  <2>1. \A n \in 1 .. L : h[n] \in S /\ (C(n) <=> CellAt(F[h[n]], i) = cell)
    BY <1>5
  <2>2. \A x \in S : \E n \in 1 .. L : h[n] = x
    BY <1>5
  <2> HIDE DEF C
  <2> QED BY <2>1, <2>2
<1>10. L \in 0 .. L
  BY <1>4
<1>11. Lists(g[L], F, U(L))
  BY <1>4, <1>8
<1>12. g[L] \in Seq(X)
  BY <1>3, <1>10
<1> HIDE DEF U, I, L
<1> QED BY <1>3, <1>9, <1>11, <1>12

\* The lines of each cell, one cell after the other, are all lines.
LEMMA ListsSorted ==
  ASSUME NEW X, NEW s \in Seq(X), NEW F, NEW S, Lists(s, F, S), NEW i
  PROVE  Sorted(s, i) \in Seq(X) /\ Lists(Sorted(s, i), F, S)
<1> DEFINE K == CellsOf(s, i)
           cells == SetToSeq(K)
           m == Len(cells)
           ss == [n \in DOMAIN cells |-> Having(s, i, cells[n])]
           T == [n \in 1 .. m |-> {x \in S : CellAt(F[x], i) = cells[n]}]
<1>1. IsFiniteSet(K) /\ \A n \in 1 .. Len(s) : CellAt(s[n], i) \in K
  BY CellsOfFinite
<1>2. /\ cells \in Seq(K) /\ \A n, k \in 1 .. m : cells[n] = cells[k] => n = k
      /\ \A c \in K : \E n \in 1 .. m : cells[n] = c
  <2> HIDE DEF K
  <2> QED BY <1>1, SetToSeqIs
<1>3. Sorted(s, i) = FlattenSeq(ss)
  BY DEF Sorted
<1>4. m \in Nat /\ DOMAIN cells = 1 .. m
  BY <1>2, LenProperties
<1> HIDE DEF K, cells, m
<1>5. \A n \in 1 .. m : /\ Having(s, i, cells[n]) \in Seq(X)
                        /\ Lists(Having(s, i, cells[n]), F, {x \in S : CellAt(F[x], i) = cells[n]})
  BY ListsHaving
<1>6. ss \in Seq(Seq(X)) /\ Len(ss) = m
  <2>1. ss \in [1 .. m -> Seq(X)]
    BY <1>4, <1>5
  <2> HIDE DEF ss
  <2> QED BY <1>4, <2>1, SeqOfFunction
<1>7. ArePartsOf(ss, F, T)
  <2>1. \A n \in 1 .. m : Lists(ss[n], F, T[n])
    BY <1>4, <1>5
  <2>2. \A k, n \in 1 .. m : k # n => T[k] \cap T[n] = {}
    BY <1>2
  <2> HIDE DEF ss, T
  <2> QED BY <1>6, <2>1, <2>2 DEF ArePartsOf
<1>8. UNION {T[n] : n \in 1 .. m} = S
  <2>1. ASSUME NEW x \in S PROVE \E n \in 1 .. m : x \in T[n]
    <3>1. PICK h : Lister(h, s, F, S)
      BY DEF Lists
    <3>2. PICK k \in 1 .. Len(s) : h[k] = x /\ s[k] = F[x]
      BY <3>1 DEF Lister
    <3>3. CellAt(F[x], i) \in K
      BY <1>1, <3>2
    <3> QED BY <1>2, <3>3
  <2> QED BY <2>1
<1> HIDE DEF T, ss
<1>9. Lists(FlattenSeq(ss), F, UNION {T[n] : n \in 1 .. m})
  BY <1>6, <1>7, ListsFlatten
<1>10. FlattenSeq(ss) \in Seq(X)
  BY <1>6, FlattenSeqType
<1> QED BY <1>3, <1>8, <1>9, <1>10

\* A stream without its header.
LEMMA ListsTail ==
  ASSUME NEW X, NEW s \in Seq(X), s # <<>>
  PROVE  Tail(s) \in Seq(X) /\ Lists(Tail(s), s, 2 .. Len(s))
<1> DEFINE L == Len(s)
           h == [n \in 1 .. L - 1 |-> n + 1]
<1>1. L \in Nat \ {0}
  BY EmptySeq
<1>2. Tail(s) \in Seq(X) /\ Len(Tail(s)) = L - 1 /\ \A n \in 1 .. L - 1 : Tail(s)[n] = s[n + 1]
  BY HeadTailProperties
<1> HIDE DEF L
<1>3. h \in [1 .. L - 1 -> 2 .. L] /\ \A n \in 1 .. L - 1 : h[n] = n + 1
  BY <1>1
<1>4. \A x \in 2 .. L : x - 1 \in 1 .. L - 1 /\ h[x - 1] = x
  BY <1>1, <1>3
<1>5. Lister(h, Tail(s), s, 2 .. L)
  BY <1>2, <1>3, <1>4 DEF Lister
<1> QED BY <1>2, <1>5 DEF Lists, L

-----------------------------------------------------------------------------
\* Only nothing is listed by no line.
LEMMA ListsEmpty ==
  ASSUME NEW X, NEW s \in Seq(X), NEW F, NEW S, Lists(s, F, S)
  PROVE  s = <<>> <=> S = {}
<1>1. PICK h : Lister(h, s, F, S)
  BY DEF Lists
<1>2. s # <<>> => 1 \in 1 .. Len(s)
  BY EmptySeq
<1>3. s = <<>> => 1 .. Len(s) = {}
  OBVIOUS
<1> QED BY <1>1, <1>2, <1>3 DEF Lister

\* The line that join prints of a pair, and the lines of all pairs.
PrintedLine(list, key, l, r) ==
  [n \in DOMAIN list |->
     IF list[n] = <<0, 0>> THEN key
     ELSE CellAt(IF list[n][1] = 1 THEN l ELSE r, list[n][2])]

\* What join prints of every line of ls with every line of rs.
CrossedLines(list, key, ls, rs) ==
  FlattenSeq([m \in DOMAIN ls |-> [n \in DOMAIN rs |-> PrintedLine(list, key, ls[m], rs[n])]])

\* G is what is printed of a pair.
PrintsThem(G, list, key, L, A, R, B, Z) ==
  \A a \in A, b \in B : G[<<a, b>>] = PrintedLine(list, key, L[a], R[b]) /\ G[<<a, b>>] \in Z

\* The lines with each other list the pairs.
LEMMA ListsCrossed ==
  ASSUME NEW X, NEW ls \in Seq(X), NEW L, NEW A, Lists(ls, L, A),
         NEW Y, NEW rs \in Seq(Y), NEW R, NEW B, Lists(rs, R, B),
         NEW list, NEW key, NEW G, NEW Z, PrintsThem(G, list, key, L, A, R, B, Z)
  PROVE  /\ CrossedLines(list, key, ls, rs) \in Seq(Z)
         /\ Lists(CrossedLines(list, key, ls, rs), G, A \X B)
<1>1. PICK g : Lister(g, ls, L, A)
  BY DEF Lists
<1>2. PICK h : Lister(h, rs, R, B)
  BY DEF Lists
<1> DEFINE p == Len(ls)
           q == Len(rs)
           row(m) == [n \in DOMAIN rs |-> PrintedLine(list, key, ls[m], rs[n])]
           ss == [m \in DOMAIN ls |-> row(m)]
           T == [m \in 1 .. p |-> {g[m]} \X B]
<1>3. p \in Nat /\ DOMAIN ls = 1 .. p /\ q \in Nat /\ DOMAIN rs = 1 .. q
  BY LenProperties
<1>4. /\ g \in [1 .. p -> A] /\ \A n \in 1 .. p : ls[n] = L[g[n]]
      /\ \A m, n \in 1 .. p : g[m] = g[n] => m = n
      /\ \A x \in A : \E n \in 1 .. p : g[n] = x
  BY <1>1 DEF Lister
<1>5. /\ h \in [1 .. q -> B] /\ \A n \in 1 .. q : rs[n] = R[h[n]]
      /\ \A m, n \in 1 .. q : h[m] = h[n] => m = n
      /\ \A x \in B : \E n \in 1 .. q : h[n] = x
  BY <1>2 DEF Lister
<1> HIDE DEF p, q
<1>6. ASSUME NEW m \in 1 .. p PROVE row(m) \in Seq(Z) /\ Lists(row(m), G, {g[m]} \X B)
  <2> DEFINE a == g[m]
             k == [n \in 1 .. q |-> <<a, h[n]>>]
             s == row(m)
  <2>1. a \in A /\ ls[m] = L[a]
    BY <1>4
  <2>2. \A n \in 1 .. q : s[n] = G[<<a, h[n]>>] /\ s[n] \in Z
    <3> SUFFICES ASSUME NEW n \in 1 .. q PROVE s[n] = G[<<a, h[n]>>] /\ s[n] \in Z
      OBVIOUS
    <3>1. h[n] \in B /\ rs[n] = R[h[n]]
      BY <1>5
    <3>2. s[n] = PrintedLine(list, key, L[a], R[h[n]])
      BY <1>3, <2>1, <3>1
    <3> QED BY <2>1, <3>1, <3>2 DEF PrintsThem
  <2>3. DOMAIN s = 1 .. q
    BY <1>3
  <2>4. s = [n \in 1 .. q |-> s[n]]
    BY <1>3
  <2> HIDE DEF s
  <2>5. s \in [1 .. q -> Z]
    BY <2>2, <2>4
  <2>6. s \in Seq(Z) /\ Len(s) = q
    BY <1>3, <2>5, SeqOfFunction
  <2>7. k \in [1 .. q -> {a} \X B] /\ \A n \in 1 .. q : k[n] = <<a, h[n]>>
    BY <1>5
  <2> HIDE DEF k, a
  <2>8. \A i, n \in 1 .. q : k[i] = k[n] => i = n
    BY <1>5, <2>7
  <2>9. \A x \in {a} \X B : \E n \in 1 .. q : k[n] = x
    <3> SUFFICES ASSUME NEW x \in {a} \X B PROVE \E n \in 1 .. q : k[n] = x
      OBVIOUS
    <3>1. PICK b \in B : x = <<a, b>>
      OBVIOUS
    <3>2. PICK n \in 1 .. q : h[n] = b
      BY <1>5
    <3> QED BY <2>7, <3>1, <3>2
  <2>10. \A n \in 1 .. q : s[n] = G[k[n]]
    BY <2>2, <2>7
  <2>11. Lister(k, s, G, {a} \X B)
    BY <2>6, <2>7, <2>8, <2>9, <2>10 DEF Lister
  <2> QED BY <2>6, <2>11 DEF Lists, a, s
<1> HIDE DEF row
<1>7. ss \in Seq(Seq(Z)) /\ Len(ss) = p
  <2>1. ss \in [1 .. p -> Seq(Z)]
    BY <1>3, <1>6
  <2> HIDE DEF ss
  <2> QED BY <1>3, <2>1, SeqOfFunction
<1>8. ArePartsOf(ss, G, T)
  <2>1. \A m \in 1 .. p : Lists(ss[m], G, T[m])
    BY <1>3, <1>6
  <2>2. \A m, n \in 1 .. p : m # n => T[m] \cap T[n] = {}
    BY <1>4
  <2> HIDE DEF ss, T
  <2> QED BY <1>7, <2>1, <2>2 DEF ArePartsOf
<1>9. UNION {T[m] : m \in 1 .. p} = A \X B
  <2>1. \A m \in 1 .. p : T[m] = {g[m]} \X B /\ g[m] \in A
    BY <1>4
  <2> HIDE DEF T
  <2>2. ASSUME NEW x \in A \X B PROVE \E m \in 1 .. p : x \in T[m]
    <3>1. PICK m \in 1 .. p : g[m] = x[1]
      BY <1>4
    <3>2. x \in {g[m]} \X B
      BY <3>1
    <3> QED BY <2>1, <3>2
  <2>3. ASSUME NEW m \in 1 .. p, NEW x \in T[m] PROVE x \in A \X B
    BY <2>1
  <2> QED BY <2>2, <2>3
<1>10. CrossedLines(list, key, ls, rs) = FlattenSeq(ss)
  BY DEF CrossedLines, row
<1> HIDE DEF T, ss
<1>11. Lists(FlattenSeq(ss), G, UNION {T[m] : m \in 1 .. p})
  BY <1>7, <1>8, ListsFlatten
<1>12. FlattenSeq(ss) \in Seq(Z)
  BY <1>7, FlattenSeqType
<1> QED BY <1>9, <1>10, <1>11, <1>12

\* A join d of two streams that list the lines `left` of the set `lefts` and the
\* lines `right` of `rights`; noLeft and noRight stand for no line.
LeftKey(d, a) == CellAt(d.left[a], d.i)

\* The key of a line on the right.
RightKey(d, b) == CellAt(d.right[b], d.j)

\* The pairs that join finds.
Matched(d) == {m \in d.lefts \X d.rights : LeftKey(d, m[1]) = RightKey(d, m[2])}

\* The lines on the left that no line on the right has the key of.
LeftAlone(d) == {a \in d.lefts : \A b \in d.rights : LeftKey(d, a) # RightKey(d, b)}

\* In the same way on the right.
RightAlone(d) == {b \in d.rights : \A a \in d.lefts : LeftKey(d, a) # RightKey(d, b)}

\* The pairs a join prints, those without a partner with none.
JoinedPairs(d) ==
  (IF d.pairs THEN Matched(d) ELSE {})
    \union (IF 1 \in d.alone THEN LeftAlone(d) \X {d.noRight} ELSE {})
    \union (IF 2 \in d.alone THEN {d.noLeft} \X RightAlone(d) ELSE {})

\* The key a pair is printed with.
PairKey(d, m) == IF m[1] = d.noLeft THEN RightKey(d, m[2]) ELSE LeftKey(d, m[1])

\* The line that is printed of each pair.
JoinedLines(d) ==
  [m \in JoinedPairs(d) |->
     PrintedLine(d.list, PairKey(d, m), d.left[m[1]], d.right[m[2]])]

\* The two inputs of a join, and what stands for no line.
IsJoinOf(d, ls, rs) ==
  /\ Lists(ls, d.left, d.lefts) /\ Lists(rs, d.right, d.rights)
  /\ d.noLeft \notin d.lefts /\ d.noRight \notin d.rights
  /\ d.left[d.noLeft] = <<>> /\ d.right[d.noRight] = <<>>

\* The pairs with one key.
PairsOfKey(d, key) == {m \in JoinedPairs(d) : PairKey(d, m) = key}

\* What join prints of the lines with one key.
PrintedGroup(d, key, ls, rs) ==
  CASE ls # <<>> /\ rs # <<>> -> IF d.pairs THEN CrossedLines(d.list, key, ls, rs) ELSE <<>>
    [] ls = <<>> -> IF 2 \in d.alone THEN CrossedLines(d.list, key, <<(<<>>)>>, rs) ELSE <<>>
    [] OTHER     -> IF 1 \in d.alone THEN CrossedLines(d.list, key, ls, <<(<<>>)>>) ELSE <<>>

\* The lines of one key are printed for the pairs of this key.
LEMMA ListsGroup ==
  ASSUME NEW X, NEW ls \in Seq(X), NEW Y, NEW rs \in Seq(Y), NEW d, IsJoinOf(d, ls, rs), NEW key,
         NEW l, l = Having(ls, d.i, key), NEW r, r = Having(rs, d.j, key)
  PROVE  /\ PrintedGroup(d, key, l, r) \in Seq(Range(JoinedLines(d)))
         /\ Lists(PrintedGroup(d, key, l, r), JoinedLines(d), PairsOfKey(d, key))
<1> DEFINE A == {a \in d.lefts : LeftKey(d, a) = key}
           B == {b \in d.rights : RightKey(d, b) = key}
           G == JoinedLines(d)
           Z == Range(G)
           P == PairsOfKey(d, key)
           group == PrintedGroup(d, key, l, r)
<1>1. l \in Seq(X) /\ Lists(l, d.left, A)
  BY ListsHaving DEF IsJoinOf, LeftKey
<1>2. r \in Seq(Y) /\ Lists(r, d.right, B)
  BY ListsHaving DEF IsJoinOf, RightKey
<1>3. (l = <<>> <=> A = {}) /\ (r = <<>> <=> B = {})
  <2> HIDE DEF A, B
  <2> QED BY <1>1, <1>2, ListsEmpty
<1>4. ASSUME NEW m \in P PROVE /\ m \in JoinedPairs(d) /\ G[m] \in Z
                               /\ G[m] = PrintedLine(d.list, key, d.left[m[1]], d.right[m[2]])
  <2>1. m \in JoinedPairs(d) /\ PairKey(d, m) = key
    BY DEF PairsOfKey
  <2>2. DOMAIN G = JoinedPairs(d) /\ G[m] = PrintedLine(d.list, PairKey(d, m), d.left[m[1]], d.right[m[2]])
    BY <2>1 DEF JoinedLines
  <2>3. G[m] \in Z
    BY <2>1, <2>2 DEF Range
  <2> QED BY <2>1, <2>2, <2>3
<1>5. ASSUME NEW S1, NEW S2, P = S1 \X S2 PROVE PrintsThem(G, d.list, key, d.left, S1, d.right, S2, Z)
  <2> SUFFICES ASSUME NEW a \in S1, NEW b \in S2
               PROVE  G[<<a, b>>] = PrintedLine(d.list, key, d.left[a], d.right[b]) /\ G[<<a, b>>] \in Z
    BY DEF PrintsThem
  <2>1. <<a, b>> \in P /\ <<a, b>>[1] = a /\ <<a, b>>[2] = b
    BY <1>5
  <2> HIDE DEF P, G, Z
  <2> QED BY <1>4, <2>1
<1>6. ASSUME P = {}, group = <<>> PROVE group \in Seq(Z) /\ Lists(group, G, P)
  <2> HIDE DEF P, group, Z, G
  <2>1. Lists(<<>>, G, {})
    BY ListsNone
  <2>2. <<>> \in Seq(Z)
    OBVIOUS
  <2> QED BY <1>6, <2>1, <2>2
<1>7. d.noLeft \notin d.lefts /\ d.noRight \notin d.rights
  BY DEF IsJoinOf
<1>8. ASSUME NEW m
      PROVE  m \in P <=>
               \/ d.pairs /\ m \in A \X B
               \/ 1 \in d.alone /\ m \in A \X {d.noRight} /\ B = {}
               \/ 2 \in d.alone /\ m \in {d.noLeft} \X B /\ A = {}
  <2>1. ASSUME NEW a, NEW b, m = <<a, b>>
        PROVE  m \in P <=>
                 \/ d.pairs /\ a \in A /\ b \in B
                 \/ 1 \in d.alone /\ a \in A /\ b = d.noRight /\ B = {}
                 \/ 2 \in d.alone /\ a = d.noLeft /\ b \in B /\ A = {}
    <3>1. m[1] = a /\ m[2] = b
      BY <2>1
    <3>2. m \in P <=> m \in JoinedPairs(d) /\ PairKey(d, m) = key
      BY DEF PairsOfKey
    <3>3. m \in JoinedPairs(d) <=>
            \/ d.pairs /\ a \in d.lefts /\ b \in d.rights /\ LeftKey(d, a) = RightKey(d, b)
            \/ 1 \in d.alone /\ a \in LeftAlone(d) /\ b = d.noRight
            \/ 2 \in d.alone /\ a = d.noLeft /\ b \in RightAlone(d)
      BY <2>1, <3>1 DEF JoinedPairs, Matched
    <3>4. PairKey(d, m) = IF a = d.noLeft THEN RightKey(d, b) ELSE LeftKey(d, a)
      BY <3>1 DEF PairKey
    <3>5. (a \in LeftAlone(d) /\ LeftKey(d, a) = key) <=> a \in A /\ B = {}
      BY DEF LeftAlone
    <3>6. (b \in RightAlone(d) /\ RightKey(d, b) = key) <=> b \in B /\ A = {}
      BY DEF RightAlone
    <3>7. (a \in d.lefts /\ b \in d.rights /\ LeftKey(d, a) = RightKey(d, b) /\ LeftKey(d, a) = key)
            <=> a \in A /\ b \in B
      OBVIOUS
    <3>8. a \in LeftAlone(d) => a \in d.lefts
      BY DEF LeftAlone
    <3> HIDE DEF A, B, P
    <3> QED BY <1>7, <3>2, <3>3, <3>4, <3>5, <3>6, <3>7, <3>8
  <2>2. m \in P => \E a, b : m = <<a, b>>
    BY DEF PairsOfKey, JoinedPairs, Matched
  <2> HIDE DEF A, B, P
  <2> QED BY <2>1, <2>2
<1>9. Lists(<<(<<>>)>>, d.left, {d.noLeft}) /\ Lists(<<(<<>>)>>, d.right, {d.noRight})
  <2>1. Lists(<<d.left[d.noLeft]>>, d.left, {d.noLeft}) /\ Lists(<<d.right[d.noRight]>>, d.right, {d.noRight})
    BY ListsOne
  <2> QED BY <2>1 DEF IsJoinOf
<1>10. <<(<<>>)>> \in Seq({<<>>})
  OBVIOUS
<1> HIDE DEF A, B, G, Z, P
<1>11. CASE l # <<>> /\ r # <<>>
  <2>1. group = IF d.pairs THEN CrossedLines(d.list, key, l, r) ELSE <<>>
    BY <1>11 DEF PrintedGroup
  <2>2. \A m : m \in P <=> d.pairs /\ m \in A \X B
    BY <1>3, <1>8, <1>11
  <2> HIDE DEF group
  <2>3. CASE d.pairs
    <3>1. P = A \X B
      BY <2>2, <2>3
    <3>2. PrintsThem(G, d.list, key, d.left, A, d.right, B, Z)
      BY <1>5, <3>1
    <3> QED BY <1>1, <1>2, <2>1, <2>3, <3>1, <3>2, ListsCrossed DEF group, G, P, Z
  <2>4. CASE ~ d.pairs
    <3>1. P = {}
      BY <2>2, <2>4
    <3> QED BY <1>6, <2>1, <2>4, <3>1 DEF group, G, P, Z
  <2> QED BY <2>3, <2>4
<1>12. CASE l = <<>>
  <2>1. group = IF 2 \in d.alone THEN CrossedLines(d.list, key, <<(<<>>)>>, r) ELSE <<>>
    BY <1>12 DEF PrintedGroup
  <2>2. \A m : m \in P <=> 2 \in d.alone /\ m \in {d.noLeft} \X B
    BY <1>3, <1>8, <1>12
  <2> HIDE DEF group
  <2>3. CASE 2 \in d.alone
    <3>1. P = {d.noLeft} \X B
      BY <2>2, <2>3
    <3>2. PrintsThem(G, d.list, key, d.left, {d.noLeft}, d.right, B, Z)
      BY <1>5, <3>1
    <3>3. /\ CrossedLines(d.list, key, <<(<<>>)>>, r) \in Seq(Z)
          /\ Lists(CrossedLines(d.list, key, <<(<<>>)>>, r), G, {d.noLeft} \X B)
      BY <1>2, <1>9, <1>10, <3>2, ListsCrossed
    <3> QED BY <2>1, <2>3, <3>1, <3>3 DEF group, G, P, Z
  <2>4. CASE ~ (2 \in d.alone)
    <3>1. P = {}
      BY <2>2, <2>4
    <3> QED BY <1>6, <2>1, <2>4, <3>1 DEF group, G, P, Z
  <2> QED BY <2>3, <2>4
<1>13. CASE l # <<>> /\ r = <<>>
  <2>1. group = IF 1 \in d.alone THEN CrossedLines(d.list, key, l, <<(<<>>)>>) ELSE <<>>
    BY <1>13 DEF PrintedGroup
  <2>2. \A m : m \in P <=> 1 \in d.alone /\ m \in A \X {d.noRight}
    BY <1>3, <1>8, <1>13
  <2> HIDE DEF group
  <2>3. CASE 1 \in d.alone
    <3>1. P = A \X {d.noRight}
      BY <2>2, <2>3
    <3>2. PrintsThem(G, d.list, key, d.left, A, d.right, {d.noRight}, Z)
      BY <1>5, <3>1
    <3>3. /\ CrossedLines(d.list, key, l, <<(<<>>)>>) \in Seq(Z)
          /\ Lists(CrossedLines(d.list, key, l, <<(<<>>)>>), G, A \X {d.noRight})
      BY <1>1, <1>9, <1>10, <3>2, ListsCrossed
    <3> QED BY <2>1, <2>3, <3>1, <3>3 DEF group, G, P, Z
  <2>4. CASE ~ (1 \in d.alone)
    <3>1. P = {}
      BY <2>2, <2>4
    <3> QED BY <1>6, <2>1, <2>4, <3>1 DEF group, G, P, Z
  <2> QED BY <2>3, <2>4
<1> QED BY <1>11, <1>12, <1>13

-----------------------------------------------------------------------------
\* A join prints the line of each pair once: its pairs as often as they are there,
\* and the lines without a partner where its type keeps them.
LEMMA ListsJoined ==
  ASSUME NEW X, NEW ls \in Seq(X), NEW Y, NEW rs \in Seq(Y), NEW d, IsJoinOf(d, ls, rs),
         NEW s, s = Joined(ls, d.i, rs, d.j, d.pairs, d.alone, d.list)
  PROVE  s \in Seq(Range(JoinedLines(d))) /\ Lists(s, JoinedLines(d), JoinedPairs(d))
<1> DEFINE KS == CellsOf(ls, d.i) \union CellsOf(rs, d.j)
           cells == SetToSeq(KS)
           N == Len(cells)
           Z == Range(JoinedLines(d))
           Group(key) == PrintedGroup(d, key, Having(ls, d.i, key), Having(rs, d.j, key))
           ss == [n \in DOMAIN cells |-> Group(cells[n])]
           T == [n \in 1 .. N |-> PairsOfKey(d, cells[n])]
<1>1. s = FlattenSeq(ss)
  BY DEF Joined, PrintedGroup, CrossedLines, PrintedLine
<1>2. /\ IsFiniteSet(CellsOf(ls, d.i)) /\ \A n \in 1 .. Len(ls) : CellAt(ls[n], d.i) \in CellsOf(ls, d.i)
      /\ IsFiniteSet(CellsOf(rs, d.j)) /\ \A n \in 1 .. Len(rs) : CellAt(rs[n], d.j) \in CellsOf(rs, d.j)
  BY CellsOfFinite
<1>3. IsFiniteSet(KS)
  BY <1>2, FS_Union
<1>4. /\ cells \in Seq(KS) /\ \A n, k \in 1 .. N : cells[n] = cells[k] => n = k
      /\ \A c \in KS : \E n \in 1 .. N : cells[n] = c
  <2> HIDE DEF KS
  <2> QED BY <1>3, SetToSeqIs
<1>5. N \in Nat /\ DOMAIN cells = 1 .. N
  BY <1>4, LenProperties
<1>6. ASSUME NEW a \in d.lefts PROVE LeftKey(d, a) \in KS
  <2>1. PICK h : Lister(h, ls, d.left, d.lefts)
    BY DEF IsJoinOf, Lists
  <2>2. PICK n \in 1 .. Len(ls) : ls[n] = d.left[a]
    BY <2>1 DEF Lister
  <2> QED BY <1>2, <2>2 DEF LeftKey
<1>7. ASSUME NEW b \in d.rights PROVE RightKey(d, b) \in KS
  <2>1. PICK h : Lister(h, rs, d.right, d.rights)
    BY DEF IsJoinOf, Lists
  <2>2. PICK n \in 1 .. Len(rs) : rs[n] = d.right[b]
    BY <2>1 DEF Lister
  <2> QED BY <1>2, <2>2 DEF RightKey
<1>8. \A key : Group(key) \in Seq(Z) /\ Lists(Group(key), JoinedLines(d), PairsOfKey(d, key))
  <2> SUFFICES ASSUME NEW key
               PROVE  Group(key) \in Seq(Z) /\ Lists(Group(key), JoinedLines(d), PairsOfKey(d, key))
    OBVIOUS
  <2> QED BY ListsGroup
<1> HIDE DEF KS, cells, N, Group, Z
<1>9. ss \in Seq(Seq(Z)) /\ Len(ss) = N
  <2>1. ss \in [1 .. N -> Seq(Z)]
    BY <1>5, <1>8
  <2> HIDE DEF ss
  <2> QED BY <1>5, <2>1, SeqOfFunction
<1>10. ArePartsOf(ss, JoinedLines(d), T)
  <2>1. \A n \in 1 .. N : Lists(ss[n], JoinedLines(d), T[n])
    BY <1>5, <1>8
  <2>2. \A m, n \in 1 .. N : m # n => T[m] \cap T[n] = {}
    BY <1>4 DEF PairsOfKey
  <2> HIDE DEF ss, T
  <2> QED BY <1>9, <2>1, <2>2 DEF ArePartsOf
<1>11. UNION {T[n] : n \in 1 .. N} = JoinedPairs(d)
  <2>1. ASSUME NEW m \in JoinedPairs(d) PROVE PairKey(d, m) \in KS
    <3>1. \/ m \in d.lefts \X d.rights \/ m \in LeftAlone(d) \X {d.noRight}
          \/ m \in {d.noLeft} \X RightAlone(d)
      BY DEF JoinedPairs, Matched
    <3>2. CASE m \in d.lefts \X d.rights
      <4>1. m[1] \in d.lefts /\ m[2] \in d.rights
        BY <3>2
      <4> QED BY <1>6, <1>7, <4>1 DEF PairKey
    <3>3. CASE m \in LeftAlone(d) \X {d.noRight}
      <4>1. m[1] \in d.lefts /\ m[1] # d.noLeft
        BY <3>3 DEF LeftAlone, IsJoinOf
      <4> QED BY <1>6, <4>1 DEF PairKey
    <3>4. CASE m \in {d.noLeft} \X RightAlone(d)
      <4>1. m[2] \in d.rights /\ m[1] = d.noLeft
        BY <3>4 DEF RightAlone
      <4> QED BY <1>7, <4>1 DEF PairKey
    <3> QED BY <3>1, <3>2, <3>3, <3>4
  <2>2. ASSUME NEW m \in JoinedPairs(d) PROVE \E n \in 1 .. N : m \in T[n]
    <3>1. PICK n \in 1 .. N : cells[n] = PairKey(d, m)
      BY <1>4, <2>1
    <3> QED BY <3>1 DEF PairsOfKey
  <2>3. \A n \in 1 .. N : T[n] \subseteq JoinedPairs(d)
    BY DEF PairsOfKey
  <2> HIDE DEF T
  <2> QED BY <2>2, <2>3
<1> HIDE DEF T, ss
<1>12. Lists(FlattenSeq(ss), JoinedLines(d), UNION {T[n] : n \in 1 .. N})
  BY <1>9, <1>10, ListsFlatten
<1>13. FlattenSeq(ss) \in Seq(Z)
  BY <1>9, FlattenSeqType
<1> QED BY <1>1, <1>11, <1>12, <1>13 DEF Z

-----------------------------------------------------------------------------
\* The position of a name in a header.
LEMMA KeyIndexIs ==
  ASSUME NEW X, NEW hs \in Seq(X), NEW name
  PROVE  /\ KeyIndex(hs, name) \in 0 .. Len(hs)
         /\ KeyIndex(hs, name) # 0 => hs[KeyIndex(hs, name)] = name
         /\ KeyIndex(hs, name) = 0 => \A i \in 1 .. Len(hs) : hs[i] # name
<1> DEFINE I == {i \in 1 .. Len(hs) : hs[i] = name}
<1>1. KeyIndex(hs, name) = IF I # {} THEN Min(I) ELSE 0
  BY DEF SelectInSeq, KeyIndex
<1>2. Len(hs) \in Nat
  BY LenProperties
<1>3. I # {} => Min(I) \in I
  <2>1. SUFFICES ASSUME I # {} PROVE Min(I) \in I
    OBVIOUS
  <2>2. I \subseteq Nat
    BY <1>2
  <2> HIDE DEF I
  <2>3. \E n \in I : \A m \in I : n <= m
    BY <2>1, <2>2, LeastNatural
  <2> QED BY <2>3 DEF Min
<1>4. \A i \in I : i \in 1 .. Len(hs) /\ hs[i] = name
  OBVIOUS
<1>5. I = {} => \A i \in 1 .. Len(hs) : hs[i] # name
  OBVIOUS
<1> HIDE DEF I
<1> QED BY <1>1, <1>2, <1>3, <1>4, <1>5

\* In a header that has each name once, it is the position of that name.
LEMMA KeyIndexOf ==
  ASSUME NEW X, NEW hs \in Seq(X), \A i, j \in 1 .. Len(hs) : hs[i] = hs[j] => i = j,
         NEW i \in 1 .. Len(hs)
  PROVE  KeyIndex(hs, hs[i]) = i
BY KeyIndexIs

\* The numbers up to L that are in P, in their order.
Numbers(P, L) == Selected([n \in 1 .. L |-> n], P)

\* The numbers up to L in order.
Count1(L) == [n \in 1 .. L |-> n]

\* What these are.
LEMMA CountIs ==
  ASSUME NEW L \in Nat
  PROVE  Count1(L) \in Seq(1 .. L) /\ Len(Count1(L)) = L /\ \A n \in 1 .. L : Count1(L)[n] = n
<1>1. Count1(L) \in [1 .. L -> 1 .. L]
  BY DEF Count1
<1>2. \A n \in 1 .. L : Count1(L)[n] = n
  BY DEF Count1
<1> QED BY <1>1, <1>2, SeqOfFunction

\* The numbers of a set in order: each of them, once.
LEMMA NumbersAre ==
  ASSUME NEW L \in Nat, NEW P
  PROVE  /\ Numbers(P, L) \in Seq(1 .. L)
         /\ \A k \in 1 .. Len(Numbers(P, L)) : Numbers(P, L)[k] \in P \cap 1 .. L
         /\ \A j, k \in 1 .. Len(Numbers(P, L)) : Numbers(P, L)[j] = Numbers(P, L)[k] => j = k
         /\ \A m \in P \cap 1 .. L : \E k \in 1 .. Len(Numbers(P, L)) : Numbers(P, L)[k] = m
<1> DEFINE s == Count1(L)
           c == Selected(s, P)
<1>1. s \in Seq(1 .. L) /\ Len(s) = L /\ \A n \in 1 .. L : s[n] = n
  BY CountIs
<1> HIDE DEF s
<1>2. c \in Seq(1 .. L) /\ ChosenUpto(c, s, P, L)
  BY <1>1, SelectedIs
<1> HIDE DEF c
<1>3. ASSUME NEW k \in 1 .. Len(c) PROVE c[k] \in P \cap 1 .. L /\ Rank(P, c[k]) = k
  <2>1. PICK m \in 1 .. L : m \in P /\ Rank(P, m) = k
    BY <1>2 DEF ChosenUpto
  <2>2. c[k] = m
    BY <1>1, <1>2, <2>1 DEF ChosenUpto
  <2> QED BY <2>1, <2>2
<1>4. ASSUME NEW m \in P \cap 1 .. L PROVE \E k \in 1 .. Len(c) : c[k] = m
  BY <1>1, <1>2 DEF ChosenUpto
<1>5. Numbers(P, L) = c
  BY DEF Numbers, c, s, Count1
<1>6. \A j, k \in 1 .. Len(c) : c[j] = c[k] => j = k
  BY <1>3
<1> QED BY <1>2, <1>3, <1>4, <1>5, <1>6

\* What Selected returns, by the numbers.
LEMMA SelectedByNumbers ==
  ASSUME NEW X, NEW s \in Seq(X), NEW P
  PROVE  /\ Selected(s, P) \in Seq(X) /\ Len(Selected(s, P)) = Len(Numbers(P, Len(s)))
         /\ \A k \in 1 .. Len(Selected(s, P)) : Selected(s, P)[k] = s[Numbers(P, Len(s))[k]]
<1> DEFINE L == Len(s)
           t == Count1(L)
           c == Selected(s, P)
           d == Selected(t, P)
<1>0. L \in Nat
  BY LenProperties
<1>1. t \in Seq(1 .. L) /\ Len(t) = L /\ \A n \in 1 .. L : t[n] = n
  BY <1>0, CountIs
<1> HIDE DEF t
<1>2. d \in Seq(1 .. L) /\ ChosenUpto(d, t, P, L)
  BY <1>1, SelectedIs
<1>3. c \in Seq(X) /\ ChosenUpto(c, s, P, L)
  BY SelectedIs
<1> HIDE DEF c, d
<1>4. Len(c) = Len(d)
  BY <1>2, <1>3 DEF ChosenUpto
<1>5. ASSUME NEW k \in 1 .. Len(c) PROVE c[k] = s[d[k]]
  <2>1. PICK m \in 1 .. L : m \in P /\ Rank(P, m) = k
    BY <1>3 DEF ChosenUpto
  <2>2. c[k] = s[m]
    BY <1>3, <2>1 DEF ChosenUpto
  <2>3. d[k] = t[m]
    BY <1>2, <2>1 DEF ChosenUpto
  <2> QED BY <1>1, <2>1, <2>2, <2>3
<1>6. Numbers(P, Len(s)) = d
  BY DEF Numbers, d, t, L, Count1
<1> QED BY <1>3, <1>4, <1>5, <1>6 DEF c

\* A set without gaps is the numbers from 1.
LEMMA NumbersPrefix ==
  ASSUME NEW L \in Nat, NEW P, \A i, j \in 1 .. L : i < j /\ j \in P => i \in P
  PROVE  \A k \in 1 .. Len(Numbers(P, L)) : Numbers(P, L)[k] = k
<1> DEFINE s == Count1(L)
           c == Selected(s, P)
<1>1. s \in Seq(1 .. L) /\ Len(s) = L /\ \A n \in 1 .. L : s[n] = n
  BY CountIs
<1> HIDE DEF s
<1>2. c \in Seq(1 .. L) /\ ChosenUpto(c, s, P, L)
  BY <1>1, SelectedIs
<1> HIDE DEF c
<1> DEFINE S == {m \in Nat : m <= L /\ (m \in P \/ m = 0) => Rank(P, m) = m}
<1>3. 0 \in S
  BY RankIs
<1>4. ASSUME NEW m \in Nat, m \in S PROVE m + 1 \in S
  <2>1. SUFFICES ASSUME m + 1 <= L, m + 1 \in P \/ m + 1 = 0 PROVE Rank(P, m + 1) = m + 1
    OBVIOUS
  <2>2. m + 1 \in P
    BY <2>1
  <2>3. m <= L /\ (m \in P \/ m = 0)
    BY <2>1, <2>2
  <2>4. Rank(P, m) = m
    BY <1>4, <2>3
  <2> QED BY <2>2, <2>4, RankIs
<1>5. Nat \subseteq S
  <2> HIDE DEF S
  <2> QED BY <1>3, <1>4, Induction
<1>6. \A m \in 1 .. L : m \in P => Rank(P, m) = m
  <2> SUFFICES ASSUME NEW m \in 1 .. L, m \in P PROVE Rank(P, m) = m
    OBVIOUS
  <2>1. m \in Nat /\ m <= L
    OBVIOUS
  <2> QED BY <1>5, <2>1
<1>7. ASSUME NEW k \in 1 .. Len(c) PROVE c[k] = k
  <2>1. PICK m \in 1 .. L : m \in P /\ Rank(P, m) = k
    BY <1>2 DEF ChosenUpto
  <2>2. c[k] = s[m]
    BY <1>2, <2>1 DEF ChosenUpto
  <2> QED BY <1>1, <1>6, <2>1, <2>2
<1>8. Numbers(P, L) = c
  BY DEF Numbers, c, s, Count1
<1> QED BY <1>7, <1>8

\* The numbers are in their order.
LEMMA NumbersGrow ==
  ASSUME NEW L \in Nat, NEW P
  PROVE  \A j, k \in 1 .. Len(Numbers(P, L)) : j < k => Numbers(P, L)[j] < Numbers(P, L)[k]
<1> DEFINE s == Count1(L)
           c == Selected(s, P)
<1>1. s \in Seq(1 .. L) /\ Len(s) = L /\ \A n \in 1 .. L : s[n] = n
  BY CountIs
<1> HIDE DEF s
<1>2. c \in Seq(1 .. L) /\ ChosenUpto(c, s, P, L)
  BY <1>1, SelectedIs
<1> HIDE DEF c
<1>3. ASSUME NEW k \in 1 .. Len(c) PROVE c[k] \in 1 .. L /\ Rank(P, c[k]) = k
  <2>1. PICK m \in 1 .. L : m \in P /\ Rank(P, m) = k
    BY <1>2 DEF ChosenUpto
  <2>2. c[k] = s[m]
    BY <1>2, <2>1 DEF ChosenUpto
  <2> QED BY <1>1, <2>1, <2>2
<1>4. \A a \in Nat : \A d \in Nat : Rank(P, a) <= Rank(P, a + d)
  <2> SUFFICES ASSUME NEW a \in Nat PROVE \A d \in Nat : Rank(P, a) <= Rank(P, a + d)
    OBVIOUS
  <2> DEFINE S == {d \in Nat : Rank(P, a) <= Rank(P, a + d)}
  <2>1. 0 \in S
    BY RankIs
  <2>2. ASSUME NEW d \in Nat, d \in S PROVE d + 1 \in S
    <3>1. a + d \in Nat /\ a + (d + 1) = (a + d) + 1
      OBVIOUS
    <3>2. Rank(P, a + d) \in Nat /\ Rank(P, a) \in Nat /\ Rank(P, a + d) <= Rank(P, (a + d) + 1)
          /\ Rank(P, (a + d) + 1) \in Nat
      <4> DEFINE e == a + d
      <4>1. e \in Nat /\ e + 1 \in Nat
        BY <3>1
      <4> HIDE DEF e
      <4>2. Rank(P, e) \in Nat /\ Rank(P, a) \in Nat /\ Rank(P, e + 1) \in Nat
        BY <4>1, RankIs
      <4>3. Rank(P, e + 1) = IF e + 1 \in P THEN Rank(P, e) + 1 ELSE Rank(P, e)
        BY <4>1, RankIs
      <4>4. Rank(P, e) <= Rank(P, e + 1)
        BY <4>2, <4>3
      <4> QED BY <4>2, <4>4 DEF e
    <3> QED BY <2>2, <3>1, <3>2
  <2>3. Nat \subseteq S
    <3> HIDE DEF S
    <3> QED BY <2>1, <2>2, Induction
  <2> QED BY <2>3
<1>5. ASSUME NEW j \in 1 .. Len(c), NEW k \in 1 .. Len(c), j < k PROVE c[j] < c[k]
  <2>1. c[j] \in 1 .. L /\ c[k] \in 1 .. L /\ Rank(P, c[j]) = j /\ Rank(P, c[k]) = k
    BY <1>3
  <2>2. SUFFICES ASSUME ~ (c[j] < c[k]) PROVE FALSE
    OBVIOUS
  <2>3. c[j] - c[k] \in Nat /\ c[k] + (c[j] - c[k]) = c[j] /\ c[k] \in Nat
    BY <2>1, <2>2
  <2>4. Rank(P, c[k]) <= Rank(P, c[j])
    BY <1>4, <2>3
  <2> QED BY <1>5, <2>1, <2>4
<1>6. Numbers(P, L) = c
  BY DEF Numbers, c, s, Count1
<1> QED BY <1>5, <1>6

\* One sequence, flattened, is that sequence; single elements are those elements.
LEMMA FlattenSeqOne ==
  ASSUME NEW X, NEW s \in Seq(X)
  PROVE  FlattenSeq(<<s>>) = s
<1>1. <<>> \in Seq(Seq(X)) /\ Append(<<>>, s) = <<s>>
  OBVIOUS
<1>2. FlattenSeq(Append(<<>>, s)) = FlattenSeq(<<>>) \o s
  BY <1>1, FlattenSeqAppend
<1>3. <<>> \o s = s
  BY ConcatEmptySeq
<1> QED BY <1>1, <1>2, <1>3, FlattenSeqEmpty

\* Cells of one word each, put together, are the words.
LEMMA FlattenSingles ==
  ASSUME NEW X, NEW ss \in Seq(Seq(X)), \A n \in 1 .. Len(ss) : Len(ss[n]) = 1
  PROVE  /\ FlattenSeq(ss) \in Seq(X) /\ Len(FlattenSeq(ss)) = Len(ss)
         /\ \A n \in 1 .. Len(ss) : <<FlattenSeq(ss)[n]>> = ss[n]
<1> DEFINE L == Len(ss)
<1>1. PICK g : Flattens(g, ss, X)
  BY FlattenSeqSteps
<1>2. /\ g \in [0 .. L -> Seq(X)] /\ g[0] = <<>> /\ FlattenSeq(ss) = g[L]
      /\ \A n \in 1 .. L : g[n] = g[n - 1] \o ss[n]
  BY <1>1 DEF Flattens
<1>3. L \in Nat /\ \A n \in 1 .. L : ss[n] \in Seq(X) /\ Len(ss[n]) = 1
  BY LenProperties
<1> HIDE DEF L
<1> DEFINE S == {n \in Nat : n <= L => Len(g[n]) = n /\ \A k \in 1 .. n : <<g[n][k]>> = ss[k]}
<1>4. 0 \in S
  BY <1>2
<1>5. ASSUME NEW m \in Nat, m \in S PROVE m + 1 \in S
  <2> DEFINE n == m + 1
  <2>1. SUFFICES ASSUME n <= L PROVE Len(g[n]) = n /\ \A k \in 1 .. n : <<g[n][k]>> = ss[k]
    OBVIOUS
  <2>2. n \in 1 .. L /\ n - 1 = m /\ m \in 0 .. L /\ m <= L
    BY <1>3, <2>1
  <2>3. Len(g[m]) = m /\ \A k \in 1 .. m : <<g[m][k]>> = ss[k]
    BY <1>5, <2>2
  <2>4. g[n] = g[m] \o ss[n] /\ g[m] \in Seq(X) /\ ss[n] \in Seq(X) /\ Len(ss[n]) = 1
    BY <1>2, <1>3, <2>2
  <2>5. \A k \in 1 .. n : k \in 1 .. m \/ k = n
    BY <2>2
  <2>6. <<ss[n][1]>> = ss[n]
    BY <2>4
  <2> HIDE DEF n
  <2>7. Len(g[n]) = n /\ \A k \in 1 .. n : g[n][k] = IF k <= m THEN g[m][k] ELSE ss[n][k - m]
    <3>1. Len(g[m]) + Len(ss[n]) = n
      BY <2>3, <2>4 DEF n
    <3> DEFINE a == g[m]
               b == ss[n]
    <3>2. a \in Seq(X) /\ b \in Seq(X) /\ Len(a) + Len(b) = n /\ Len(a) = m /\ g[n] = a \o b
      BY <2>3, <2>4, <3>1
    <3> HIDE DEF a, b
    <3>3. Len(a \o b) = n /\ \A k \in 1 .. n : (a \o b)[k] = IF k <= m THEN a[k] ELSE b[k - m]
      BY <3>2, ConcatProperties
    <3> QED BY <3>2, <3>3 DEF a, b
  <2>8. ASSUME NEW k \in 1 .. n PROVE <<g[n][k]>> = ss[k]
    <3>1. CASE k \in 1 .. m
      BY <2>3, <2>7, <3>1
    <3>2. CASE k = n
      <4>1. ~ (n <= m) /\ n - m = 1
        BY DEF n
      <4> QED BY <2>6, <2>7, <3>2, <4>1
    <3> QED BY <2>5, <3>1, <3>2
  <2> QED BY <2>7, <2>8
<1>6. L \in S
  <2> HIDE DEF S
  <2> QED BY <1>3, <1>4, <1>5, Induction
<1>7. Len(g[L]) = L /\ (\A k \in 1 .. L : <<g[L][k]>> = ss[k]) /\ g[L] \in Seq(X)
  BY <1>2, <1>3, <1>6
<1> QED BY <1>2, <1>7 DEF L

-----------------------------------------------------------------------------
\* Streams that can be joined by the names of their columns.
Joinable == AreTables /\ KeysAgree /\ NamesApart /\ KeepsAPrefix

\* There are several keys.
MultiKey == Len(side.key) > 1

\* The names of the keys in the n-th stream.
StreamKeys(n) == ConfiguredKeys(side)[n]

\* The keys of the stream are columns of it.
HasKeys(n) ==
  /\ n \in DOMAIN Streams /\ Streams[n] # <<>> /\ Len(side.key) >= 1
  /\ \A k \in 1 .. Len(side.key) : KeyIndex(Head(Streams[n]), StreamKeys(n)[k]) # 0

\* What streams there are.
LEMMA StreamsAre ==
  ASSUME JoinInv
  PROVE  /\ Len(side.joins) \in Nat /\ DOMAIN side.joins = 1 .. Len(side.joins)
         /\ Streams \in Seq(Seq(Cells)) /\ Len(Streams) = Len(side.joins) + 1
         /\ DOMAIN Streams = 1 .. Len(side.joins) + 1
         /\ Streams[1] = MainStream
         /\ \A n \in 1 .. Len(side.joins) : Streams[n + 1] = content[side.joins[n].node]
<1> DEFINE J == side.joins
           T == [n \in DOMAIN J |-> content[J[n].node]]
           L == Len(J)
           a == <<MainStream>>
<1>1. L \in Nat /\ DOMAIN J = 1 .. L /\ MainStream \in Seq(Cells)
      /\ \A n \in 1 .. L : content[J[n].node] \in Seq(Cells)
  BY JoinsAre
<1>2. T \in [1 .. L -> Seq(Cells)] /\ \A n \in 1 .. L : T[n] = content[J[n].node]
  BY <1>1
<1>3. Streams = a \o T
  BY DEF Streams
<1> HIDE DEF T, L
<1>4. T \in Seq(Seq(Cells)) /\ Len(T) = L
  BY <1>1, <1>2, SeqOfFunction
<1>5. a \in Seq(Seq(Cells)) /\ Len(a) = 1 /\ a[1] = MainStream
  BY <1>1
<1> HIDE DEF a
<1>6. /\ a \o T \in Seq(Seq(Cells)) /\ Len(a \o T) = 1 + L
      /\ \A i \in 1 .. 1 + L : (a \o T)[i] = IF i <= 1 THEN a[i] ELSE T[i - 1]
  <2>1. /\ a \o T \in Seq(Seq(Cells)) /\ Len(a \o T) = Len(a) + Len(T)
        /\ \A i \in 1 .. Len(a) + Len(T) :
             (a \o T)[i] = IF i <= Len(a) THEN a[i] ELSE T[i - Len(a)]
    BY <1>4, <1>5, ConcatProperties
  <2>2. Len(a) = 1 /\ Len(T) = L
    BY <1>4, <1>5
  <2> QED BY <2>1, <2>2
<1>7. DOMAIN (a \o T) = 1 .. L + 1
  BY <1>1, <1>6, LenProperties
<1>8. (a \o T)[1] = a[1]
  BY <1>1, <1>6
<1>9. ASSUME NEW n \in 1 .. L PROVE (a \o T)[n + 1] = T[n]
  <2>1. n + 1 \in 1 .. 1 + L /\ ~ (n + 1 <= 1) /\ (n + 1) - 1 = n
    BY <1>1
  <2> QED BY <1>6, <2>1
<1> QED BY <1>1, <1>2, <1>3, <1>5, <1>6, <1>7, <1>8, <1>9 DEF L

\* What keys there are.
LEMMA KeysAre ==
  ASSUME JoinInv
  PROVE  /\ Len(ConfiguredKeys(side)) = Len(side.joins) + 1
         /\ DOMAIN ConfiguredKeys(side) = 1 .. Len(side.joins) + 1
         /\ StreamKeys(1) = side.key
         /\ \A n \in 1 .. Len(side.joins) : StreamKeys(n + 1) = side.joins[n].key
         /\ \A n \in 1 .. Len(side.joins) + 1 : StreamKeys(n) \in Cells
<1> DEFINE J == side.joins
           T == [n \in DOMAIN J |-> J[n].key]
           L == Len(J)
           a == <<side.key>>
<1>1. L \in Nat /\ DOMAIN J = 1 .. L /\ side \in Sides
  BY JoinsAre DEF JoinInv
<1>2. side.key \in Cells /\ \A n \in 1 .. L : J[n].key \in Cells
  BY <1>1, JoinAssumption DEF Cells
<1>3. T \in [1 .. L -> Cells] /\ \A n \in 1 .. L : T[n] = J[n].key
  BY <1>1, <1>2
<1>4. ConfiguredKeys(side) = a \o T
  BY DEF ConfiguredKeys
<1> HIDE DEF T, L
<1>5. T \in Seq(Cells) /\ Len(T) = L
  BY <1>1, <1>3, SeqOfFunction
<1>6. a \in Seq(Cells) /\ Len(a) = 1 /\ a[1] = side.key
  BY <1>2
<1> HIDE DEF a
<1>7. /\ a \o T \in Seq(Cells) /\ Len(a \o T) = 1 + L
      /\ \A i \in 1 .. 1 + L : (a \o T)[i] = IF i <= 1 THEN a[i] ELSE T[i - 1]
  <2>1. /\ a \o T \in Seq(Cells) /\ Len(a \o T) = Len(a) + Len(T)
        /\ \A i \in 1 .. Len(a) + Len(T) :
             (a \o T)[i] = IF i <= Len(a) THEN a[i] ELSE T[i - Len(a)]
    BY <1>5, <1>6, ConcatProperties
  <2>2. Len(a) = 1 /\ Len(T) = L
    BY <1>5, <1>6
  <2> QED BY <2>1, <2>2
<1>8. DOMAIN (a \o T) = 1 .. L + 1
  BY <1>1, <1>7, LenProperties
<1>9. (a \o T)[1] = a[1]
  BY <1>1, <1>7
<1>10. ASSUME NEW n \in 1 .. L PROVE (a \o T)[n + 1] = T[n]
  <2>1. n + 1 \in 1 .. 1 + L /\ ~ (n + 1 <= 1) /\ (n + 1) - 1 = n
    BY <1>1
  <2> QED BY <1>7, <2>1
<1>11. \A n \in 1 .. L + 1 : (a \o T)[n] \in Cells
  BY <1>7, <1>8, ElementOfSeq, <1>1
<1> QED BY <1>1, <1>3, <1>4, <1>6, <1>7, <1>8, <1>9, <1>10, <1>11 DEF L, StreamKeys

\* A stream is a header and lines of its length.
LEMMA TableIs ==
  ASSUME JoinInv, AreTables, NEW n \in DOMAIN Streams, Streams[n] # <<>>
  PROVE  /\ Head(Streams[n]) \in Cells /\ Head(Streams[n]) = Streams[n][1]
         /\ Len(Streams[n]) \in Nat \ {0} /\ Len(Head(Streams[n])) \in Nat
         /\ Streams[n] \in Seq(Cells)
         /\ \A i, j \in 1 .. Len(Head(Streams[n])) :
              Head(Streams[n])[i] = Head(Streams[n])[j] => i = j
         /\ \A i \in 1 .. Len(Streams[n]) :
              /\ Streams[n][i] \in Cells
              /\ Len(Streams[n][i]) = Len(Head(Streams[n]))
              /\ \A k \in 1 .. Len(Head(Streams[n])) : Streams[n][i][k] \in Seq(STRING)
<1> DEFINE s == Streams[n]
           h == Head(s)
<1>1. s \in Seq(Cells)
  BY StreamsAre, ElementOfSeq
<1>2. (\A i, j \in DOMAIN h : h[i] = h[j] => i = j) /\ \A i \in DOMAIN s : Len(s[i]) = Len(h)
  BY DEF AreTables
<1> HIDE DEF s
<1>3. Len(s) \in Nat \ {0} /\ DOMAIN s = 1 .. Len(s) /\ h = s[1] /\ h \in Cells
  BY <1>1, HeadTailProperties, LenProperties, EmptySeq DEF s
<1> HIDE DEF h
<1>4. Len(h) \in Nat /\ DOMAIN h = 1 .. Len(h)
  BY <1>3, LenProperties DEF Cells
<1>5. ASSUME NEW i \in 1 .. Len(s)
      PROVE  s[i] \in Cells /\ Len(s[i]) = Len(h) /\ \A k \in 1 .. Len(h) : s[i][k] \in Seq(STRING)
  <2> DEFINE line == s[i]
  <2>1. line \in Cells /\ Len(line) = Len(h)
    BY <1>1, <1>2, <1>3, ElementOfSeq
  <2> HIDE DEF line
  <2>2. \A k \in 1 .. Len(h) : line[k] \in Seq(STRING)
    BY <2>1, ElementOfSeq DEF Cells
  <2> QED BY <2>1, <2>2 DEF line
<1> QED BY <1>1, <1>2, <1>3, <1>4, <1>5 DEF s, h

\* The columns of the keys, and what a line has in them.
Places(n) == JoinColIndeces(Head(Streams[n]), StreamKeys(n))

\* Where the keys of a stream are, and what the key of a line is.
LEMMA PlacesAre ==
  ASSUME JoinInv, AreTables, KeysAgree, NEW n, HasKeys(n)
  PROVE  /\ Len(side.key) \in Nat \ {0}
         /\ StreamKeys(n) \in Cells /\ Len(StreamKeys(n)) = Len(side.key)
         /\ DOMAIN Places(n) = 1 .. Len(side.key)
         /\ \A k \in 1 .. Len(side.key) :
              /\ Places(n)[k] \in 1 .. Len(Head(Streams[n]))
              /\ Places(n)[k] = KeyIndex(Head(Streams[n]), StreamKeys(n)[k])
              /\ Head(Streams[n])[Places(n)[k]] = StreamKeys(n)[k]
         /\ KeyColumns(n) = {Places(n)[k] : k \in 1 .. Len(side.key)}
         /\ KeyColumns(n) = Range(Places(n))
         /\ \A i \in 1 .. Len(Streams[n]) :
              /\ KeyOf(n, i) \in Cells /\ Len(KeyOf(n, i)) = Len(side.key)
              /\ KeyOf(n, i) = [k \in DOMAIN Places(n) |-> Streams[n][i][Places(n)[k]]]
         /\ KeyOf(n, 1) = StreamKeys(n)
<1> DEFINE K == Len(side.key)
           ks == StreamKeys(n)
           h == Head(Streams[n])
           ix == Places(n)
<1>1. n \in DOMAIN Streams /\ Streams[n] # <<>> /\ K >= 1 /\ \A k \in 1 .. K : KeyIndex(h, ks[k]) # 0
  BY DEF HasKeys
<1>2. ks \in Cells /\ Len(ks) = K
  <2>1. n \in 1 .. Len(side.joins) + 1
    BY <1>1, StreamsAre
  <2> QED BY <1>1, <2>1, KeysAre DEF KeysAgree, StreamKeys
<1>3. K \in Nat \ {0} /\ DOMAIN ks = 1 .. K
  <2>1. Len(ks) \in Nat /\ DOMAIN ks = 1 .. Len(ks)
    BY <1>2, LenProperties DEF Cells
  <2> QED BY <1>1, <1>2, <2>1
<1>4. h \in Cells /\ h = Streams[n][1] /\ Len(Streams[n]) \in Nat \ {0}
      /\ \A i \in 1 .. Len(Streams[n]) : \A k \in 1 .. Len(h) : Streams[n][i][k] \in Seq(STRING)
  BY <1>1, TableIs
<1>5. DOMAIN ix = 1 .. K /\ \A k \in 1 .. K : ix[k] = KeyIndex(h, ks[k])
  BY <1>3 DEF Places, JoinColIndeces
<1>6. KeyColumns(n) = {KeyIndex(h, ks[k]) : k \in DOMAIN ks}
  BY DEF KeyColumns, StreamKeys
<1>7. \A i : KeyOf(n, i) = [k \in DOMAIN ks |-> Streams[n][i][KeyIndex(h, ks[k])]]
  BY DEF KeyOf, StreamKeys
<1> HIDE DEF K, ks, h, ix
<1>8. ASSUME NEW k \in 1 .. K PROVE ix[k] \in 1 .. Len(h) /\ h[ix[k]] = ks[k]
  <2>1. KeyIndex(h, ks[k]) \in 0 .. Len(h) /\ KeyIndex(h, ks[k]) # 0 => h[KeyIndex(h, ks[k])] = ks[k]
    BY <1>4, KeyIndexIs DEF Cells
  <2>2. KeyIndex(h, ks[k]) # 0
    BY <1>1
  <2>3. Len(h) \in Nat
    BY <1>4, LenProperties DEF Cells
  <2> QED BY <1>5, <2>1, <2>2, <2>3, <1>4, KeyIndexIs DEF Cells
<1>9. KeyColumns(n) = {ix[k] : k \in 1 .. K}
  BY <1>3, <1>5, <1>6
<1>10. KeyColumns(n) = Range(ix)
  BY <1>5, <1>9 DEF Range
<1>11. ASSUME NEW i \in 1 .. Len(Streams[n])
       PROVE  /\ KeyOf(n, i) \in Cells /\ Len(KeyOf(n, i)) = K
              /\ KeyOf(n, i) = [k \in DOMAIN ix |-> Streams[n][i][ix[k]]]
  <2>1. KeyOf(n, i) = [k \in 1 .. K |-> Streams[n][i][ix[k]]]
    BY <1>3, <1>5, <1>7
  <2>2. \A k \in 1 .. K : Streams[n][i][ix[k]] \in Seq(STRING)
    BY <1>4, <1>8
  <2>3. KeyOf(n, i) \in [1 .. K -> Seq(STRING)]
    BY <2>1, <2>2
  <2>4. KeyOf(n, i) \in Seq(Seq(STRING)) /\ Len(KeyOf(n, i)) = K
    BY <1>3, <2>3, SeqOfFunction
  <2> QED BY <1>5, <2>1, <2>4 DEF Cells
<1>12. KeyOf(n, 1) = ks
  <2>1. 1 \in 1 .. Len(Streams[n])
    BY <1>4
  <2>2. KeyOf(n, 1) \in Seq(Seq(STRING)) /\ Len(KeyOf(n, 1)) = K
        /\ KeyOf(n, 1) = [k \in DOMAIN ix |-> Streams[n][1][ix[k]]]
    BY <1>11, <2>1 DEF Cells
  <2>3. \A k \in 1 .. K : KeyOf(n, 1)[k] = ks[k]
    BY <1>4, <1>5, <1>8, <2>2
  <2> QED BY <1>2, <2>2, <2>3, SeqEqual DEF Cells
<1> QED BY <1>2, <1>3, <1>5, <1>8, <1>9, <1>10, <1>11, <1>12 DEF K, ks, h, ix

-----------------------------------------------------------------------------
\* A stream as the command sees it, with one column for its keys.
Prepared(n) ==
  IF MultiKey THEN WriteMultiKeyStream(Streams[n], StreamKeys(n)) ELSE Streams[n]

\* The name of the one column that stands for the keys.
KeyName(n) == FlattenSeq(StreamKeys(n))

\* The place of this column.
KeyPlace(n) == KeyIndex(Head(Prepared(n)), KeyName(n))

\* The other columns.
Others(n) ==
  Numbers((1 .. Len(Head(Streams[n]))) \ KeyColumns(n), Len(Head(Streams[n])))

\* The columns of the stream that its cells come from, 0 for that of several keys.
Origin(n) == IF MultiKey THEN <<0>> \o Others(n) ELSE Count1(Len(Head(Streams[n])))

\* What a stream is when its keys are in one column.
IsPrepared(n) ==
  /\ Prepared(n) \in Seq(Cells) /\ Len(Prepared(n)) = Len(Streams[n])
  /\ Origin(n) \in Seq(Nat) /\ KeyPlace(n) \in 1 .. Len(Origin(n))
  /\ \A i \in 1 .. Len(Streams[n]) :
       /\ Len(Prepared(n)[i]) = Len(Origin(n))
       /\ Prepared(n)[i][KeyPlace(n)] = FlattenSeq(KeyOf(n, i))
       /\ \A q \in 1 .. Len(Origin(n)) :
            q # KeyPlace(n) => Prepared(n)[i][q] = Streams[n][i][Origin(n)[q]]
  /\ \A q \in 1 .. Len(Origin(n)) :
       q # KeyPlace(n) => Origin(n)[q] \in (1 .. Len(Head(Streams[n]))) \ KeyColumns(n)
  /\ \A o \in (1 .. Len(Head(Streams[n]))) \ KeyColumns(n) :
       \E q \in 1 .. Len(Origin(n)) : q # KeyPlace(n) /\ Origin(n)[q] = o
  /\ \A p, q \in 1 .. Len(Origin(n)) :
       p # KeyPlace(n) /\ q # KeyPlace(n) /\ p < q => Origin(n)[p] < Origin(n)[q]
  /\ \A p, q \in 1 .. Len(Origin(n)) : Prepared(n)[1][p] = Prepared(n)[1][q] => p = q
  /\ Prepared(n)[1][KeyPlace(n)] = KeyName(n)
  /\ MultiKey => KeyPlace(n) = 1
  /\ ~ MultiKey => /\ KeyColumns(n) = {KeyPlace(n)} /\ Len(Origin(n)) = Len(Head(Streams[n]))
                  /\ \A q \in 1 .. Len(Origin(n)) : Origin(n)[q] = q

\* A sequence of one element.
LEMMA SingleIs ==
  ASSUME NEW X, NEW s \in Seq(X), Len(s) = 1
  PROVE  s = <<s[1]>> /\ s[1] \in X
<1>1. 1 \in 1 .. Len(s)
  OBVIOUS
<1>2. s[1] \in X
  BY <1>1, ElementOfSeq
<1>3. <<s[1]>> \in Seq(X) /\ Len(<<s[1]>>) = 1 /\ <<s[1]>>[1] = s[1]
  BY <1>2
<1>4. \A i \in 1 .. 1 : s[i] = <<s[1]>>[i]
  BY <1>3
<1>5. s = <<s[1]>>
  BY <1>3, <1>4, SeqEqual
<1> QED BY <1>2, <1>5

\* A stream with one key is left as it is.
LEMMA OneKeyPrepared ==
  ASSUME JoinInv, AreTables, KeysAgree, NEW n, HasKeys(n), ~ MultiKey
  PROVE  IsPrepared(n)
<1> DEFINE s == Streams[n]
           h == Head(s)
           L == Len(h)
           ks == StreamKeys(n)
           kx == KeyPlace(n)
<1>1. n \in DOMAIN Streams /\ s # <<>>
  BY DEF HasKeys
<1>2. /\ h \in Cells /\ h = s[1] /\ Len(s) \in Nat \ {0} /\ L \in Nat /\ s \in Seq(Cells)
      /\ \A i, j \in 1 .. L : h[i] = h[j] => i = j
      /\ \A i \in 1 .. Len(s) : s[i] \in Cells /\ Len(s[i]) = L
  BY <1>1, TableIs
<1>3. Len(side.key) = 1
  <2>1. Len(side.key) \in Nat \ {0}
    BY PlacesAre
  <2>2. ~ (Len(side.key) > 1)
    BY DEF MultiKey
  <2>3. \A x \in Nat \ {0} : ~ (x > 1) => x = 1
    OBVIOUS
  <2> QED BY <2>1, <2>2, <2>3
<1>4. /\ ks \in Cells /\ Len(ks) = 1 /\ DOMAIN Places(n) = 1 .. 1
      /\ Places(n)[1] \in 1 .. L /\ Places(n)[1] = KeyIndex(h, ks[1]) /\ h[Places(n)[1]] = ks[1]
      /\ KeyColumns(n) = {Places(n)[k] : k \in 1 .. 1}
      /\ \A i \in 1 .. Len(s) : KeyOf(n, i) \in Cells /\ Len(KeyOf(n, i)) = 1
                                /\ KeyOf(n, i) = [k \in DOMAIN Places(n) |-> s[i][Places(n)[k]]]
      /\ KeyOf(n, 1) = ks
  BY <1>3, PlacesAre
<1>5. Prepared(n) = s
  BY DEF Prepared
<1>6. Origin(n) \in Seq(1 .. L) /\ Len(Origin(n)) = L /\ \A q \in 1 .. L : Origin(n)[q] = q
  BY <1>2, CountIs DEF Origin
<1>7. KeyName(n) = ks[1]
  <2>0. ks \in Seq(Seq(STRING)) /\ Len(ks) = 1
    BY <1>4 DEF Cells
  <2> HIDE DEF ks
  <2>1. ks = <<ks[1]>> /\ ks[1] \in Seq(STRING)
    BY <2>0, SingleIs
  <2>2. FlattenSeq(<<ks[1]>>) = ks[1]
    BY <2>1, FlattenSeqOne
  <2> QED BY <2>1, <2>2 DEF KeyName, ks
<1>8. kx = Places(n)[1]
  BY <1>4, <1>5, <1>7 DEF KeyPlace
<1>9. KeyColumns(n) = {kx}
  BY <1>4, <1>8
<1>10. ASSUME NEW i \in 1 .. Len(s) PROVE s[i][kx] = FlattenSeq(KeyOf(n, i))
  <2> DEFINE key == KeyOf(n, i)
  <2>1. key \in Seq(Seq(STRING)) /\ Len(key) = 1 /\ key[1] = s[i][kx]
    BY <1>4, <1>8 DEF Cells
  <2> HIDE DEF key
  <2>2. key = <<key[1]>> /\ key[1] \in Seq(STRING)
    BY <2>1, SingleIs
  <2>3. FlattenSeq(<<key[1]>>) = key[1]
    BY <2>2, FlattenSeqOne
  <2> QED BY <2>1, <2>2, <2>3 DEF key
<1> HIDE DEF s, h, L, ks, kx
<1>11. Origin(n) \in Seq(Nat) /\ kx \in 1 .. Len(Origin(n))
  <2>1. 1 .. L \subseteq Nat
    OBVIOUS
  <2>2. Origin(n) \in Seq(Nat)
    BY <1>6, <2>1
  <2> QED BY <1>4, <1>6, <1>8, <2>2
<1>12. /\ \A p, q \in 1 .. L : p < q => Origin(n)[p] < Origin(n)[q]
       /\ \A o \in (1 .. L) \ KeyColumns(n) : o \in 1 .. L /\ o # kx /\ Origin(n)[o] = o
       /\ \A q \in 1 .. L : q # kx => Origin(n)[q] \in (1 .. L) \ KeyColumns(n)
  BY <1>6, <1>9
<1>13. s[1][kx] = KeyName(n)
  BY <1>2, <1>4, <1>7, <1>8
<1>14. \A i \in 1 .. Len(s) : \A q \in 1 .. L : s[i][q] = s[i][Origin(n)[q]]
  BY <1>6
<1>15. \A p, q \in 1 .. L : s[1][p] = s[1][q] => p = q
  BY <1>2
<1> QED BY <1>2, <1>5, <1>6, <1>9, <1>10, <1>11, <1>12, <1>13, <1>14, <1>15
        DEF IsPrepared, s, h, L, kx

\* One cell before the others.
LEMMA ConsIs ==
  ASSUME NEW X, NEW x \in X, NEW s \in Seq(X)
  PROVE  /\ <<x>> \o s \in Seq(X) /\ Len(<<x>> \o s) = Len(s) + 1
         /\ (<<x>> \o s)[1] = x
         /\ \A q \in 1 .. Len(s) + 1 : q # 1 => q - 1 \in 1 .. Len(s) /\ (<<x>> \o s)[q] = s[q - 1]
         /\ Tail(<<x>> \o s) = s
<1> DEFINE a == <<x>>
<1>1. a \in Seq(X) /\ Len(a) = 1 /\ a[1] = x /\ Len(s) \in Nat
  BY LenProperties
<1> HIDE DEF a
<1>2. /\ a \o s \in Seq(X) /\ Len(a \o s) = Len(a) + Len(s)
      /\ \A i \in 1 .. Len(a) + Len(s) : (a \o s)[i] = IF i <= Len(a) THEN a[i] ELSE s[i - Len(a)]
  BY <1>1, ConcatProperties
<1>3. (a \o s)[1] = x
  BY <1>1, <1>2
<1>4. \A q \in 1 .. Len(s) + 1 : q # 1 => q - 1 \in 1 .. Len(s) /\ (a \o s)[q] = s[q - 1]
  BY <1>1, <1>2
<1>5. Tail(a \o s) = s
  <2> DEFINE t == a \o s
  <2>1. t \in Seq(X) /\ t # <<>> /\ Len(t) = Len(s) + 1
    BY <1>1, <1>2
  <2> HIDE DEF t
  <2>2. Tail(t) \in Seq(X) /\ Len(Tail(t)) = Len(s) /\ \A i \in 1 .. Len(s) : Tail(t)[i] = t[i + 1]
    BY <1>1, <2>1, HeadTailProperties
  <2>3. \A i \in 1 .. Len(s) : t[i + 1] = s[i]
    <3> SUFFICES ASSUME NEW i \in 1 .. Len(s) PROVE t[i + 1] = s[i]
      OBVIOUS
    <3>1. i + 1 \in 1 .. Len(s) + 1 /\ i + 1 # 1 /\ (i + 1) - 1 = i
      BY <1>1
    <3> QED BY <1>4, <3>1 DEF t
  <2>4. \A i \in 1 .. Len(s) : Tail(t)[i] = s[i]
    BY <2>2, <2>3
  <2>5. Tail(t) = s
    BY <2>2, <2>4, SeqEqual
  <2> QED BY <2>5 DEF t
<1> QED BY <1>1, <1>2, <1>3, <1>4, <1>5 DEF a

-----------------------------------------------------------------------------
\* A line of a stream with several keys, as it is written.
LEMMA LineIs ==
  ASSUME JoinInv, AreTables, KeysAgree, NEW n, HasKeys(n), MultiKey,
         NEW i \in 1 .. Len(Streams[n])
  PROVE  /\ Prepared(n)[i] \in Cells /\ Len(Prepared(n)[i]) = Len(Others(n)) + 1
         /\ Prepared(n)[i][1] = FlattenSeq(KeyOf(n, i))
         /\ \A q \in 1 .. Len(Others(n)) + 1 :
              q # 1 => q - 1 \in 1 .. Len(Others(n)) /\ Prepared(n)[i][q] = Streams[n][i][Others(n)[q - 1]]
<1> DEFINE s == Streams[n]
           h == Head(s)
           L == Len(h)
           line == s[i]
           P == (1 .. L) \ KeyColumns(n)
           rest == Selected(line, P)
           key == FlattenSeq(KeyOf(n, i))
<1>1. n \in DOMAIN Streams /\ s # <<>>
  BY DEF HasKeys
<1>2. L \in Nat /\ s \in Seq(Cells) /\ line \in Cells /\ Len(line) = L
  BY <1>1, TableIs
<1>3. /\ KeyColumns(n) = Range(Places(n)) /\ KeyOf(n, i) \in Cells
      /\ KeyOf(n, i) = [k \in DOMAIN Places(n) |-> s[i][Places(n)[k]]]
  BY PlacesAre
<1>4. DOMAIN line = 1 .. L /\ i \in DOMAIN s
  BY <1>2, LenProperties DEF Cells
<1>5. Prepared(n)[i] = WriteLine(line, Places(n))
  BY <1>4 DEF Prepared, WriteMultiKeyStream, Places
<1>6. WriteLine(line, Places(n)) = <<key>> \o rest
  BY <1>3, <1>4 DEF WriteLine
<1>7. key \in Seq(STRING)
  BY <1>3, FlattenSeqType DEF Cells
<1> HIDE DEF s, h, L, key, line
<1>8. /\ rest \in Seq(Seq(STRING)) /\ Len(rest) = Len(Numbers(P, L))
      /\ \A k \in 1 .. Len(rest) : rest[k] = line[Numbers(P, L)[k]]
  <2>1. line \in Seq(Seq(STRING)) /\ Len(line) = L
    BY <1>2 DEF Cells
  <2> HIDE DEF P
  <2> DEFINE X == Seq(STRING)
  <2>0. line \in Seq(X)
    BY <2>1
  <2> HIDE DEF X
  <2>2. /\ rest \in Seq(X) /\ Len(rest) = Len(Numbers(P, Len(line)))
        /\ \A k \in 1 .. Len(rest) : rest[k] = line[Numbers(P, Len(line))[k]]
    BY <2>0, SelectedByNumbers
  <2> QED BY <2>1, <2>2 DEF X
<1>9. Numbers(P, L) = Others(n)
  BY DEF Others, L, h, s
<1> HIDE DEF rest, P
<1>10. /\ <<key>> \o rest \in Seq(Seq(STRING)) /\ Len(<<key>> \o rest) = Len(rest) + 1
       /\ (<<key>> \o rest)[1] = key
       /\ \A q \in 1 .. Len(rest) + 1 :
            q # 1 => q - 1 \in 1 .. Len(rest) /\ (<<key>> \o rest)[q] = rest[q - 1]
  BY <1>7, <1>8, ConsIs
<1> QED BY <1>5, <1>6, <1>8, <1>9, <1>10 DEF key, line, s, Cells

\* A stream with several keys has them in its first column.
LEMMA SeveralKeysPrepared ==
  ASSUME JoinInv, AreTables, KeysAgree, NEW n, HasKeys(n), MultiKey
  PROVE  IsPrepared(n)
<1> DEFINE s == Streams[n]
           h == Head(s)
           L == Len(h)
           P == (1 .. L) \ KeyColumns(n)
           oth == Others(n)
           N == Len(oth) + 1
           p == Prepared(n)
           o == Origin(n)
<1>1. n \in DOMAIN Streams /\ s # <<>>
  BY DEF HasKeys
<1>2. /\ h \in Cells /\ h = s[1] /\ Len(s) \in Nat \ {0} /\ L \in Nat /\ s \in Seq(Cells)
      /\ \A i, j \in 1 .. L : h[i] = h[j] => i = j
  BY <1>1, TableIs
<1>3. KeyOf(n, 1) = StreamKeys(n)
  BY PlacesAre
<1>4. DOMAIN s = 1 .. Len(s)
  BY <1>2, LenProperties
<1>5. \A i \in 1 .. Len(s) :
        /\ p[i] \in Cells /\ Len(p[i]) = N /\ p[i][1] = FlattenSeq(KeyOf(n, i))
        /\ \A q \in 1 .. N : q # 1 => q - 1 \in 1 .. Len(oth) /\ p[i][q] = s[i][oth[q - 1]]
  BY LineIs
<1>6. p \in Seq(Cells) /\ Len(p) = Len(s)
  <2>1. p = [i \in 1 .. Len(s) |-> p[i]]
    BY <1>4 DEF Prepared, WriteMultiKeyStream
  <2> HIDE DEF p, s
  <2>2. p \in [1 .. Len(s) -> Cells]
    BY <1>5, <2>1
  <2> QED BY <1>2, <2>2, SeqOfFunction
<1>7. /\ oth \in Seq(1 .. L)
      /\ \A k \in 1 .. Len(oth) : oth[k] \in P \cap 1 .. L
      /\ \A j, k \in 1 .. Len(oth) : oth[j] = oth[k] => j = k
      /\ \A m \in P \cap 1 .. L : \E k \in 1 .. Len(oth) : oth[k] = m
      /\ \A j, k \in 1 .. Len(oth) : j < k => oth[j] < oth[k]
  <2>1. oth = Numbers(P, L)
    BY DEF Others
  <2> HIDE DEF oth, P, L
  <2> QED BY <1>2, <2>1, NumbersAre, NumbersGrow
<1>8. /\ o \in Seq(Nat) /\ Len(o) = N /\ o[1] = 0
      /\ \A q \in 1 .. N : q # 1 => q - 1 \in 1 .. Len(oth) /\ o[q] = oth[q - 1]
  <2>1. o = <<0>> \o oth
    BY DEF Origin
  <2>2. oth \in Seq(Nat) /\ 0 \in Nat
    BY <1>7
  <2> HIDE DEF oth, o
  <2> QED BY <2>1, <2>2, ConsIs
<1>9. Len(oth) \in Nat
  BY <1>7, LenProperties
<1>10. KeyName(n) = p[1][1]
  BY <1>2, <1>3, <1>5 DEF KeyName
<1>11. \A i \in 1 .. L : h[i] # KeyName(n)
  <2>1. FlattenSeq(ConfiguredKeys(side)[n]) \notin Range(Head(Streams[n]))
    BY <1>1 DEF KeysAgree, MultiKey
  <2>2. DOMAIN h = 1 .. L
    BY <1>2, LenProperties DEF Cells
  <2> QED BY <2>1, <2>2 DEF KeyName, StreamKeys, Range
<1> HIDE DEF s, h, L, p, oth, o
<1>12. 1 \in 1 .. Len(s) /\ 1 \in 1 .. N
  BY <1>2, <1>9
<1>13. ASSUME NEW q \in 1 .. N, q # 1
       PROVE  oth[q - 1] \in P \cap 1 .. L /\ p[1][q] = h[oth[q - 1]]
  <2>1. q - 1 \in 1 .. Len(oth) /\ p[1][q] = s[1][oth[q - 1]]
    BY <1>5, <1>12, <1>13
  <2>2. h = s[1]
    BY <1>2
  <2>3. oth[q - 1] \in P \cap 1 .. L
    BY <1>7, <2>1
  <2> QED BY <2>1, <2>2, <2>3
<1>14. ASSUME NEW i \in 1 .. N, NEW j \in 1 .. N, p[1][i] = p[1][j] PROVE i = j
  <2>1. CASE i = 1 /\ j # 1
    BY <1>10, <1>11, <1>13, <1>14, <2>1
  <2>2. CASE i # 1 /\ j = 1
    BY <1>10, <1>11, <1>13, <1>14, <2>2
  <2>3. CASE i # 1 /\ j # 1
    <3>1. oth[i - 1] = oth[j - 1]
      <4> DEFINE a == oth[i - 1]
                 b == oth[j - 1]
      <4>1. a \in 1 .. L /\ b \in 1 .. L /\ p[1][i] = h[a] /\ p[1][j] = h[b]
        BY <1>13, <2>3
      <4> HIDE DEF a, b
      <4>2. a = b
        BY <1>2, <1>14, <4>1
      <4> QED BY <4>2 DEF a, b
    <3>2. i - 1 \in 1 .. Len(oth) /\ j - 1 \in 1 .. Len(oth)
      BY <1>8, <2>3
    <3>3. i - 1 = j - 1
      BY <1>7, <3>1, <3>2
    <3> QED BY <3>3, <1>9
  <2> QED BY <2>1, <2>2, <2>3
<1>15. KeyPlace(n) = 1
  <2>1. Head(p) = p[1] /\ p[1] \in Seq(Seq(STRING)) /\ Len(p[1]) = N
    <3>1. p # <<>>
      BY <1>2, <1>6
    <3>2. Head(p) = p[1]
      BY <1>6, <3>1, HeadTailProperties
    <3> QED BY <1>5, <1>12, <3>2 DEF Cells
  <2> DEFINE ph == p[1]
  <2>2. ph \in Seq(Seq(STRING)) /\ 1 \in 1 .. Len(ph) /\ \A i, j \in 1 .. Len(ph) : ph[i] = ph[j] => i = j
    BY <1>12, <1>14, <2>1
  <2> HIDE DEF ph
  <2>3. KeyIndex(ph, ph[1]) = 1
    BY <2>2, KeyIndexOf
  <2> QED BY <1>10, <2>1, <2>3 DEF KeyPlace, ph, p
<1>16. \A q \in 1 .. N : q # 1 => o[q] \in P
  BY <1>8, <1>13
<1>17. ASSUME NEW c \in P PROVE \E q \in 1 .. N : q # 1 /\ o[q] = c
  <2>1. PICK k \in 1 .. Len(oth) : oth[k] = c
    BY <1>7
  <2>2. k + 1 \in 1 .. N /\ k + 1 # 1 /\ (k + 1) - 1 = k
    BY <1>9
  <2> QED BY <1>8, <2>1, <2>2
<1>18. ASSUME NEW i \in 1 .. N, NEW j \in 1 .. N, i # 1, j # 1, i < j PROVE o[i] < o[j]
  <2>1. i - 1 \in 1 .. Len(oth) /\ j - 1 \in 1 .. Len(oth) /\ o[i] = oth[i - 1] /\ o[j] = oth[j - 1]
    BY <1>8, <1>18
  <2>2. i - 1 < j - 1
    BY <1>9, <1>18
  <2> QED BY <1>7, <2>1, <2>2
<1>19. \A i \in 1 .. Len(s) :
         /\ Len(p[i]) = N /\ p[i][1] = FlattenSeq(KeyOf(n, i))
         /\ \A q \in 1 .. N : q # 1 => p[i][q] = s[i][o[q]]
  BY <1>5, <1>8
<1>20. N = Len(o) /\ P = (1 .. Len(Head(Streams[n]))) \ KeyColumns(n)
  BY <1>8 DEF L, h, s
<1> HIDE DEF N, P
<1>21. Len(p) = Len(Streams[n]) /\ p[1][1] = KeyName(n)
  BY <1>6, <1>10 DEF s
<1> QED
  BY <1>6, <1>8, <1>12, <1>14, <1>15, <1>16, <1>17, <1>18, <1>19, <1>20, <1>21
     DEF IsPrepared, s, p, o

\* A stream with its keys is prepared as it should be, with one key or several.
LEMMA PreparedIs ==
  ASSUME JoinInv, AreTables, KeysAgree, NEW n, HasKeys(n)
  PROVE  IsPrepared(n)
BY OneKeyPrepared, SeveralKeysPrepared

-----------------------------------------------------------------------------
\* A column under its name, or under that of its node where the name is there.
WithName(names, c, joinKey, node) ==
  IF c = joinKey THEN names
  ELSE Append(names, IF c \in Range(names) THEN <<node>> \o c ELSE c)

\* The names of the output, after each column that is added.
NamesGrow(g, hs, columns, joinKey, node) ==
  /\ g \in [0 .. Len(columns) -> Seq(Seq(STRING))] /\ g[0] = hs
  /\ \A n \in 1 .. Len(columns) : g[n] = WithName(g[n - 1], columns[n], joinKey, node)

\* AddedNames is the last of them.
LEMMA AddedAsGrown ==
  ASSUME NEW hs, NEW columns, Len(columns) \in Nat, NEW joinKey, NEW node, NEW g,
         NamesGrow(g, hs, columns, joinKey, node)
  PROVE  AddedNames(hs, columns, joinKey, node) = g[Len(columns)]
<1> DEFINE L == Len(columns)
           C(h) == h = [n \in 0 .. L |->
                          IF n = 0 THEN hs ELSE WithName(h[n - 1], columns[n], joinKey, node)]
           f == CHOOSE h : C(h)
<1>1. AddedNames(hs, columns, joinKey, node) = f[L]
  BY Zenon DEF AddedNames, WithName, L, f, C
<1>2. C(g)
  <2>1. g = [n \in 0 .. L |-> g[n]]
    BY DEF NamesGrow
  <2>2. ASSUME NEW n \in 0 .. L
        PROVE  g[n] = IF n = 0 THEN hs ELSE WithName(g[n - 1], columns[n], joinKey, node)
    <3>1. n = 0 \/ n \in 1 .. L
      OBVIOUS
    <3> QED BY <3>1 DEF NamesGrow
  <2> QED BY <2>1, <2>2
<1>3. C(f)
  <2> HIDE DEF C
  <2> QED BY <1>2
<1> HIDE DEF f
<1>4. StepsAlike(f, g, L)
  <2>1. f[0] = hs /\ g[0] = hs
    BY <1>3 DEF NamesGrow
  <2>2. ASSUME NEW n \in 1 .. L, f[n - 1] = g[n - 1] PROVE f[n] = g[n]
    <3>1. n \in 0 .. L /\ n # 0
      OBVIOUS
    <3> QED BY <1>3, <2>2, <3>1 DEF NamesGrow
  <2> QED BY <2>1, <2>2 DEF StepsAlike
<1>5. \A n \in 0 .. L : f[n] = g[n]
  <2> HIDE DEF L, C
  <2> QED BY <1>4, SameSteps DEF L
<1> QED BY <1>1, <1>5

\* One element as a sequence.
LEMMA SingleIn ==
  ASSUME NEW X, NEW x \in X
  PROVE  <<x>> \in Seq(X)
OBVIOUS

\* With a name more these are still names.
LEMMA WithNameType ==
  ASSUME NEW names \in Seq(Seq(STRING)), NEW c \in Seq(STRING), NEW joinKey, NEW node \in STRING
  PROVE  WithName(names, c, joinKey, node) \in Seq(Seq(STRING))
<1>1. <<node>> \in Seq(STRING)
  BY SingleIn
<1>2. <<node>> \o c \in Seq(STRING)
  BY <1>1, ConcatProperties
<1> DEFINE d == IF c \in Range(names) THEN <<node>> \o c ELSE c
<1>3. d \in Seq(STRING)
  BY <1>2
<1> HIDE DEF d
<1>4. Append(names, d) \in Seq(Seq(STRING))
  BY <1>3, AppendProperties
<1> QED BY <1>4 DEF WithName, d

\* There are such names.
LEMMA NamesGrowSteps ==
  ASSUME NEW hs \in Seq(Seq(STRING)), NEW columns \in Seq(Seq(STRING)), NEW joinKey,
         NEW node \in STRING
  PROVE  \E g : NamesGrow(g, hs, columns, joinKey, node)
<1> DEFINE L == Len(columns)
           X == Seq(STRING)
           One(n, x) == WithName(x, columns[n], joinKey, node)
           F == [n \in 1 .. L |-> [x \in Seq(X) |-> One(n, x)]]
<1>1. L \in Nat /\ \A n \in 1 .. L : columns[n] \in X
  BY LenProperties, ElementOfSeq
<1>2. \A n \in 1 .. L, x \in Seq(X) : One(n, x) \in Seq(X)
  BY <1>1, WithNameType
<1>3. \A n, x : One(n, x) = WithName(x, columns[n], joinKey, node)
  OBVIOUS
<1>4. hs \in Seq(X)
  OBVIOUS
<1> HIDE DEF L, One, X
<1>5. F \in [1 .. L -> [Seq(X) -> Seq(X)]] /\ \A n \in 1 .. L, x \in Seq(X) : F[n][x] = One(n, x)
  BY <1>2
<1> HIDE DEF F
<1>6. PICK g : IteratesUpto(g, L, hs, F, Seq(X))
  BY <1>1, <1>4, <1>5, FiniteRecursion
<1>7. g \in [0 .. L -> Seq(X)] /\ \A n \in 0 .. L : g[n] = IF n = 0 THEN hs ELSE F[n][g[n - 1]]
  BY <1>6 DEF IteratesUpto
<1>8. ASSUME NEW n \in 1 .. L PROVE g[n] = One(n, g[n - 1])
  <2>1. n \in 0 .. L /\ n # 0 /\ n - 1 \in 0 .. L
    BY <1>1
  <2>2. g[n - 1] \in Seq(X) /\ g[n] = F[n][g[n - 1]]
    BY <1>7, <2>1
  <2> QED BY <1>5, <2>2
<1>9. g[0] = hs
  BY <1>1, <1>7
<1> QED BY <1>3, <1>7, <1>8, <1>9 DEF NamesGrow, L, X

\* No column adds no name.
LEMMA AddedNamesNone ==
  ASSUME NEW hs \in Seq(Seq(STRING)), NEW joinKey, NEW node \in STRING
  PROVE  AddedNames(hs, <<>>, joinKey, node) = hs
<1>1. <<>> \in Seq(Seq(STRING)) /\ Len(<<>>) = 0
  OBVIOUS
<1>2. PICK g : NamesGrow(g, hs, <<>>, joinKey, node)
  BY <1>1, NamesGrowSteps
<1>3. AddedNames(hs, <<>>, joinKey, node) = g[0]
  BY <1>1, <1>2, AddedAsGrown
<1> QED BY <1>2, <1>3 DEF NamesGrow

\* A column more adds its name as WithName does.
LEMMA AddedNamesNext ==
  ASSUME NEW hs \in Seq(Seq(STRING)), NEW columns \in Seq(Seq(STRING)), NEW c \in Seq(STRING),
         NEW joinKey, NEW node \in STRING
  PROVE  /\ AddedNames(hs, columns, joinKey, node) \in Seq(Seq(STRING))
         /\ AddedNames(hs, Append(columns, c), joinKey, node)
              = WithName(AddedNames(hs, columns, joinKey, node), c, joinKey, node)
<1> DEFINE L == Len(columns)
           more == Append(columns, c)
<1>1. /\ more \in Seq(Seq(STRING)) /\ Len(more) = L + 1 /\ more[L + 1] = c
      /\ \A n \in 1 .. L : more[n] = columns[n]
  BY AppendProperties
<1>2. L \in Nat
  BY LenProperties
<1> HIDE DEF more
<1>3. PICK g : NamesGrow(g, hs, columns, joinKey, node)
  BY NamesGrowSteps
<1>4. PICK h : NamesGrow(h, hs, more, joinKey, node)
  BY <1>1, NamesGrowSteps
<1>5. AddedNames(hs, columns, joinKey, node) = g[L]
  BY <1>2, <1>3, AddedAsGrown
<1>6. AddedNames(hs, more, joinKey, node) = h[L + 1]
  <2>1. Len(more) = L + 1 /\ Len(more) \in Nat
    BY <1>1, <1>2
  <2>2. AddedNames(hs, more, joinKey, node) = h[Len(more)]
    BY <2>1, <1>4, AddedAsGrown, Zenon
  <2> QED BY <2>1, <2>2
<1>7. StepsAlike(h, g, L)
  <2>1. h[0] = hs /\ g[0] = hs
    BY <1>3, <1>4 DEF NamesGrow
  <2>2. ASSUME NEW n \in 1 .. L, h[n - 1] = g[n - 1] PROVE h[n] = g[n]
    <3>1. n \in 1 .. L + 1
      BY <1>2
    <3> QED BY <1>1, <1>3, <1>4, <2>2, <3>1 DEF NamesGrow
  <2> QED BY <2>1, <2>2 DEF StepsAlike
<1>8. h[L] = g[L]
  <2>1. L \in 0 .. L
    BY <1>2
  <2> QED BY <1>2, <1>7, <2>1, SameSteps
<1>9. h[L + 1] = WithName(h[L], c, joinKey, node)
  <2>1. L + 1 \in 1 .. L + 1 /\ (L + 1) - 1 = L
    BY <1>2
  <2>2. h[L + 1] = WithName(h[(L + 1) - 1], more[L + 1], joinKey, node)
    BY <1>1, <1>4, <2>1 DEF NamesGrow
  <2> QED BY <1>1, <2>1, <2>2
<1>10. g[L] \in Seq(Seq(STRING))
  <2>1. L \in 0 .. L
    BY <1>2
  <2> QED BY <1>3, <2>1 DEF NamesGrow
<1> QED BY <1>5, <1>6, <1>8, <1>9, <1>10 DEF more

-----------------------------------------------------------------------------
\* The names of the columns q of the header h come after those of hs.
NamesFollow(names, q, hs, h, node) ==
  /\ names \in Seq(Seq(STRING)) /\ q \in Seq(1 .. Len(h)) /\ Len(names) = Len(hs) + Len(q)
  /\ \A p \in 1 .. Len(hs) : names[p] = hs[p]
  /\ \A j \in 1 .. Len(q) :
       \/ names[Len(hs) + j] = h[q[j]] /\ \A p \in 1 .. Len(hs) : hs[p] # h[q[j]]
       \/ names[Len(hs) + j] = <<node>> \o h[q[j]]
  /\ \A j \in 1 .. Len(q) : \E p \in 1 .. Len(names) : names[p] = h[q[j]]

\* The name of the next column follows those that are there.
LEMMA OneNameFollows ==
  ASSUME NEW hs \in Seq(Seq(STRING)), NEW h \in Seq(Seq(STRING)), NEW node \in STRING,
         NEW names, NEW q, NamesFollow(names, q, hs, h, node),
         NEW m \in 1 .. Len(h), NEW joinKey, joinKey # h[m]
  PROVE  NamesFollow(WithName(names, h[m], joinKey, node), Append(q, m), hs, h, node)
<1> DEFINE W == Len(hs)
           n == Len(q)
           c == h[m]
           d == IF c \in Range(names) THEN <<node>> \o c ELSE c
           b == Append(names, d)
           r == Append(q, m)
<1>1. /\ names \in Seq(Seq(STRING)) /\ q \in Seq(1 .. Len(h)) /\ Len(names) = W + n
      /\ \A p \in 1 .. W : names[p] = hs[p]
      /\ \A j \in 1 .. n :
           \/ names[W + j] = h[q[j]] /\ \A p \in 1 .. W : hs[p] # h[q[j]]
           \/ names[W + j] = <<node>> \o h[q[j]]
      /\ \A j \in 1 .. n : \E p \in 1 .. W + n : names[p] = h[q[j]]
  BY DEF NamesFollow
<1>2. W \in Nat /\ n \in Nat
  BY <1>1, LenProperties
<1>3. WithName(names, c, joinKey, node) = b /\ b \in Seq(Seq(STRING))
  <2>1. WithName(names, c, joinKey, node) = b
    BY DEF WithName
  <2>2. c \in Seq(STRING)
    BY ElementOfSeq
  <2>3. WithName(names, c, joinKey, node) \in Seq(Seq(STRING))
    BY <1>1, <2>2, WithNameType
  <2> QED BY <2>1, <2>3
<1>4. c \in Range(names) <=> \E p \in 1 .. W + n : names[p] = c
  <2>1. DOMAIN names = 1 .. W + n
    BY <1>1, LenProperties
  <2> QED BY <2>1 DEF Range
<1>5. \/ d = c /\ \A p \in 1 .. W + n : names[p] # c
      \/ d = <<node>> \o c /\ \E p \in 1 .. W + n : names[p] = c
  BY <1>4
<1> HIDE DEF d, W, n
<1>6. Len(b) = (W + n) + 1 /\ b[(W + n) + 1] = d /\ \A p \in 1 .. W + n : b[p] = names[p]
  BY <1>1, AppendProperties
<1>7. r \in Seq(1 .. Len(h)) /\ Len(r) = n + 1 /\ r[n + 1] = m /\ \A j \in 1 .. n : r[j] = q[j]
  BY <1>1, AppendProperties DEF n
<1> HIDE DEF b, r
<1>8. Len(b) = W + Len(r)
  BY <1>2, <1>6, <1>7
<1>9. \A p \in 1 .. W : p \in 1 .. W + n /\ b[p] = hs[p]
  BY <1>1, <1>2, <1>6
<1>10. ASSUME NEW j \in 1 .. n + 1
       PROVE  /\ \/ b[W + j] = h[r[j]] /\ \A p \in 1 .. W : hs[p] # h[r[j]]
                 \/ b[W + j] = <<node>> \o h[r[j]]
              /\ \E p \in 1 .. (W + n) + 1 : b[p] = h[r[j]]
  <2>1. j \in 1 .. n \/ j = n + 1
    BY <1>2
  <2>2. CASE j \in 1 .. n
    <3>1. W + j \in 1 .. W + n
      BY <1>2, <2>2
    <3>2. b[W + j] = names[W + j] /\ r[j] = q[j]
      BY <1>6, <1>7, <2>2, <3>1
    <3>3. PICK p \in 1 .. W + n : names[p] = h[q[j]]
      BY <1>1, <2>2
    <3>4. p \in 1 .. (W + n) + 1 /\ b[p] = h[r[j]]
      BY <1>2, <1>6, <3>2, <3>3
    <3>5. \/ b[W + j] = h[r[j]] /\ \A i \in 1 .. W : hs[i] # h[r[j]]
          \/ b[W + j] = <<node>> \o h[r[j]]
      BY <1>1, <2>2, <3>2
    <3> QED BY <3>4, <3>5
  <2>3. CASE j = n + 1
    <3>1. W + j = (W + n) + 1 /\ r[j] = m /\ b[W + j] = d
      BY <1>2, <1>6, <1>7, <2>3
    <3>2. CASE d = c /\ \A p \in 1 .. W + n : names[p] # c
      <4>1. \A p \in 1 .. W : hs[p] # c
        BY <1>1, <1>9, <3>2
      <4>2. (W + n) + 1 \in 1 .. (W + n) + 1 /\ b[(W + n) + 1] = h[r[j]]
        BY <1>2, <1>6, <3>1, <3>2
      <4> QED BY <3>1, <3>2, <4>1, <4>2
    <3>3. CASE d = <<node>> \o c /\ \E p \in 1 .. W + n : names[p] = c
      <4>1. PICK p \in 1 .. W + n : names[p] = c
        BY <3>3
      <4>2. p \in 1 .. (W + n) + 1 /\ b[p] = h[r[j]]
        BY <1>2, <1>6, <3>1, <4>1
      <4> QED BY <3>1, <3>3, <4>2
    <3> QED BY <1>5, <3>2, <3>3
  <2> QED BY <2>1, <2>2, <2>3
<1>11. \A j \in 1 .. Len(r) :
         /\ \/ b[W + j] = h[r[j]] /\ \A p \in 1 .. W : hs[p] # h[r[j]]
            \/ b[W + j] = <<node>> \o h[r[j]]
         /\ \E p \in 1 .. Len(b) : b[p] = h[r[j]]
  <2>1. Len(r) = n + 1 /\ Len(b) = (W + n) + 1
    BY <1>6, <1>7
  <2> QED BY <1>10, <2>1
<1>12. NamesFollow(b, r, hs, h, node)
  <2>1. b \in Seq(Seq(STRING)) /\ r \in Seq(1 .. Len(h)) /\ Len(b) = Len(hs) + Len(r)
    BY <1>3, <1>7, <1>8 DEF W
  <2>2. \A p \in 1 .. Len(hs) : b[p] = hs[p]
    BY <1>9 DEF W
  <2>3. \A j \in 1 .. Len(r) :
          \/ b[Len(hs) + j] = h[r[j]] /\ \A p \in 1 .. Len(hs) : hs[p] # h[r[j]]
          \/ b[Len(hs) + j] = <<node>> \o h[r[j]]
    BY <1>11 DEF W
  <2>4. \A j \in 1 .. Len(r) : \E p \in 1 .. Len(b) : b[p] = h[r[j]]
    BY <1>11
  <2> QED BY <2>1, <2>2, <2>3, <2>4 DEF NamesFollow
<1>13. WithName(names, h[m], joinKey, node) = b /\ Append(q, m) = r
  BY <1>3 DEF c, r
<1> QED BY <1>12, <1>13

-----------------------------------------------------------------------------
\* Only what is in the line can be selected of it.
LEMMA SelectedWhole ==
  ASSUME NEW X, NEW s \in Seq(X), NEW P
  PROVE  Selected(s, P \cap 1 .. Len(s)) = Selected(s, P)
<1>1. PICK g : Chooses(g, s, P, X)
  BY SelectedSteps
<1>2. Selected(s, P) = g[Len(s)]
  BY <1>1, ChoosesTheSame
<1>3. Len(s) \in 0 .. Len(s)
  BY LenProperties
<1>4. Selected(s, P \cap 1 .. Len(s)) = g[Len(s)]
  BY <1>1, <1>3, SelectedUpto
<1> QED BY <1>2, <1>4

\* The names with one more column, where s is the columns with c.
NamesWith(hs, s, columns, c, joinKey, node) ==
  AddedNames(hs, s, joinKey, node)
    = WithName(AddedNames(hs, columns, joinKey, node), c, joinKey, node)

\* The names after one column more, for a list that is known by another name.
LEMMA AddedNamesWith ==
  ASSUME NEW hs \in Seq(Seq(STRING)), NEW s, NEW columns \in Seq(Seq(STRING)),
         NEW c \in Seq(STRING), s = Append(columns, c), NEW joinKey, NEW node \in STRING
  PROVE  NamesWith(hs, s, columns, c, joinKey, node)
<1>1. AddedNames(hs, Append(columns, c), joinKey, node)
        = WithName(AddedNames(hs, columns, joinKey, node), c, joinKey, node)
  BY AddedNamesNext
<1> QED BY <1>1 DEF NamesWith

\* The columns of P but that of the key are added, with their names and in the list.
LEMMA NamesAreAdded ==
  ASSUME NEW hs \in Seq(Seq(STRING)), NEW h \in Seq(Seq(STRING)), NEW node \in STRING,
         \A i, j \in 1 .. Len(h) : h[i] = h[j] => i = j,
         NEW kx \in 1 .. Len(h), NEW P, NEW R, R = P \ {kx}
  PROVE  NamesFollow(AddedNames(hs, Selected(h, P), h[kx], node), Numbers(R, Len(h)), hs, h, node)
<1> DEFINE L == Len(h)
           t == Count1(L)
           C(n) == Selected(h, P \cap 1 .. n)
           A(n) == AddedNames(hs, C(n), h[kx], node)
           q(n) == Selected(t, R \cap 1 .. n)
           F(n) == NamesFollow(A(n), q(n), hs, h, node)
           I == {n \in Nat : n <= L => F(n)}
           X == Seq(STRING)
<1>0. h \in Seq(X)
  OBVIOUS
<1> HIDE DEF X
<1>1. L \in Nat
  BY LenProperties
<1>2. t \in Seq(1 .. L) /\ Len(t) = L /\ \A n \in 1 .. L : t[n] = n
  BY <1>1, CountIs
<1> HIDE DEF t
<1>3. \A n \in 0 .. L : C(n) \in Seq(Seq(STRING)) /\ A(n) \in Seq(Seq(STRING))
  <2> SUFFICES ASSUME NEW n \in 0 .. L PROVE C(n) \in Seq(Seq(STRING)) /\ A(n) \in Seq(Seq(STRING))
    OBVIOUS
  <2> DEFINE Pn == P \cap 1 .. n
  <2> HIDE DEF Pn
  <2>2. Selected(h, Pn) \in Seq(X)
    BY <1>0, SelectedByNumbers
  <2>3. C(n) \in Seq(Seq(STRING))
    BY <2>2 DEF X, Pn
  <2>4. h[kx] \in Seq(STRING)
    BY ElementOfSeq
  <2> HIDE DEF C
  <2>5. A(n) \in Seq(Seq(STRING))
    BY <2>3, <2>4, AddedNamesNext
  <2> QED BY <2>3, <2>5
<1>4. 0 \in I
  <2>1. P \cap 1 .. 0 = {} /\ R \cap 1 .. 0 = {}
    OBVIOUS
  <2>2. C(0) = <<>>
    BY <2>1, SelectedNone
  <2>3. q(0) = <<>>
    BY <1>2, <2>1, SelectedNone
  <2> HIDE DEF C, q
  <2>4. A(0) = hs
    BY <2>2, AddedNamesNone
  <2>5. <<>> \in Seq(1 .. L) /\ Len(<<>>) = 0 /\ Len(hs) = Len(hs) + 0
    BY LenProperties
  <2>6. \A j \in 1 .. Len(<<>>) : FALSE
    OBVIOUS
  <2>7. NamesFollow(hs, <<>>, hs, h, node)
    BY <2>5, <2>6 DEF NamesFollow
  <2> HIDE DEF A
  <2> QED BY <2>3, <2>4, <2>7
<1> HIDE DEF F
<1>5. ASSUME NEW k \in Nat, k \in I PROVE k + 1 \in I
  <2> DEFINE n == k + 1
  <2>1. SUFFICES ASSUME n <= L PROVE F(n)
    OBVIOUS
  <2>2. n \in 1 .. L /\ n - 1 = k /\ k \in 0 .. L /\ k <= L
    BY <1>1, <2>1
  <2>3. F(k)
    BY <1>5, <2>2
  <2>4. n \in P => C(n) = Append(C(k), h[n])
    <3>1. n \in P => Selected(h, P \cap 1 .. n) = Append(Selected(h, P \cap 1 .. n - 1), h[n])
      BY <1>0, <2>2, SelectedNext
    <3> QED BY <2>2, <3>1
  <2>5. n \notin P => C(n) = C(k)
    <3>1. SUFFICES ASSUME n \notin P PROVE C(n) = C(k)
      OBVIOUS
    <3> HIDE DEF n
    <3>2. P \cap 1 .. n = P \cap 1 .. k
      BY <2>2, <3>1
    <3> QED BY <3>2
  <2>6. n \in R => q(n) = Append(q(k), n)
    <3>1. n \in R => Selected(t, R \cap 1 .. n) = Append(Selected(t, R \cap 1 .. n - 1), t[n])
      BY <1>2, <2>2, SelectedNext
    <3> QED BY <1>2, <2>2, <3>1
  <2>7. n \notin R => q(n) = q(k)
    <3>1. SUFFICES ASSUME n \notin R PROVE q(n) = q(k)
      OBVIOUS
    <3> HIDE DEF n
    <3>2. R \cap 1 .. n = R \cap 1 .. k
      BY <2>2, <3>1
    <3> QED BY <3>2
  <2>8. C(k) \in Seq(Seq(STRING))
    BY <1>3, <2>2
  <2> HIDE DEF n, C, q
  <2>9. h[n] \in Seq(STRING)
    BY <2>2, ElementOfSeq
  <2>10. n \in P => A(n) = WithName(A(k), h[n], h[kx], node)
    <3>0. SUFFICES ASSUME n \in P PROVE A(n) = WithName(A(k), h[n], h[kx], node)
      OBVIOUS
    <3>1. C(n) = Append(C(k), h[n])
      BY <2>4, <3>0
    <3> DEFINE a == C(n)
               b == C(k)
               c == h[n]
               key == h[kx]
    <3>2. b \in Seq(Seq(STRING)) /\ c \in Seq(STRING) /\ a = Append(b, c)
      BY <3>1, <2>8, <2>9
    <3> HIDE DEF a, b, c, key
    <3>3. hs \in Seq(Seq(STRING)) /\ node \in STRING
      OBVIOUS
    <3>4. NamesWith(hs, a, b, c, key, node)
      BY <3>2, <3>3, AddedNamesWith
    <3> QED BY <3>4 DEF a, b, c, key, NamesWith
  <2>11. CASE n \notin P
    BY <2>3, <2>5, <2>7, <2>11 DEF F
  <2>12. CASE n \in P /\ n = kx
    <3>1. A(n) = A(k)
      BY <2>10, <2>12 DEF WithName
    <3> QED BY <2>3, <2>7, <2>12, <3>1 DEF F
  <2>13. CASE n \in P /\ n # kx
    <3>1. h[kx] # h[n]
      BY <2>2, <2>13
    <3>3. NamesFollow(A(k), q(k), hs, h, node)
      BY <2>3 DEF F
    <3> HIDE DEF A
    <3>2. NamesFollow(WithName(A(k), h[n], h[kx], node), Append(q(k), n), hs, h, node)
      BY <2>2, <3>3, <3>1, OneNameFollows
    <3> QED BY <2>6, <2>10, <2>13, <3>2 DEF F
  <2> QED BY <2>11, <2>12, <2>13
<1>6. L \in I
  <2> HIDE DEF I
  <2> QED BY <1>1, <1>4, <1>5, Induction
<1>7. NamesFollow(A(L), q(L), hs, h, node)
  <2> HIDE DEF L
  <2>1. F(L)
    BY <1>1, <1>6
  <2> QED BY <2>1 DEF F
<1>8. C(L) = Selected(h, P) /\ q(L) = Selected(t, R)
  <2>1. C(L) = Selected(h, P)
    BY <1>0, SelectedWhole
  <2>2. Selected(t, R \cap 1 .. Len(t)) = Selected(t, R)
    <3> HIDE DEF L
    <3> DEFINE Y == 1 .. L
    <3>1. t \in Seq(Y)
      BY <1>2
    <3> HIDE DEF Y
    <3> QED BY <3>1, SelectedWhole
  <2>3. Len(t) = L
    BY <1>2
  <2> QED BY <2>1, <2>2, <2>3
<1>9. Numbers(R, Len(h)) = Selected(t, R)
  BY DEF Numbers, t, Count1, L
<1> QED BY <1>7, <1>8, <1>9

-----------------------------------------------------------------------------
\* The columns that are configured, and with them that of the key.
Included(h, columns, k) == {n \in 1 .. Len(h) : columns = All \/ n = k \/ h[n] \in columns}

\* What all of is selected stays as it is.
LEMMA SelectedAll ==
  ASSUME NEW X, NEW s \in Seq(X)
  PROVE  Selected(s, 1 .. Len(s)) = s
<1> DEFINE L == Len(s)
           P == 1 .. L
           q == Numbers(P, L)
           t == Selected(s, P)
<1>1. L \in Nat
  BY LenProperties
<1>2. \A i, j \in 1 .. L : i < j /\ j \in P => i \in P
  OBVIOUS
<1>3. \A m \in P \cap 1 .. L : m \in 1 .. L
  OBVIOUS
<1>4. t \in Seq(X) /\ Len(t) = Len(q) /\ \A k \in 1 .. Len(t) : t[k] = s[q[k]]
  BY SelectedByNumbers
<1> HIDE DEF P
<1>5. /\ q \in Seq(1 .. L) /\ \A k \in 1 .. Len(q) : q[k] \in P \cap 1 .. L
      /\ \A m \in P \cap 1 .. L : \E k \in 1 .. Len(q) : q[k] = m
  BY <1>1, NumbersAre
<1>6. \A k \in 1 .. Len(q) : q[k] = k
  BY <1>1, <1>2, NumbersPrefix
<1>7. Len(q) \in Nat
  BY <1>5, LenProperties
<1> HIDE DEF q, t
<1>8. \A k \in 1 .. Len(q) : k \in 1 .. L
  BY <1>5, <1>6
<1>9. \A m \in 1 .. L : m \in 1 .. Len(q)
  BY <1>5, <1>6 DEF P
<1> HIDE DEF L
<1>10. Len(q) = L
  <2>1. CASE Len(q) > L
    BY <1>1, <1>7, <1>8, <2>1
  <2>2. CASE Len(q) < L
    BY <1>1, <1>7, <1>9, <2>2
  <2> QED BY <1>1, <1>7, <2>1, <2>2
<1>11. \A k \in 1 .. L : t[k] = s[k]
  BY <1>4, <1>6, <1>10
<1>12. t = s
  <2>1. Len(t) = Len(s)
    BY <1>4, <1>10 DEF L
  <2>2. \A k \in 1 .. Len(t) : t[k] = s[k]
    BY <1>4, <1>10, <1>11
  <2> QED BY <1>4, <2>1, <2>2, SeqEqual
<1> QED BY <1>12 DEF t, P, L

\* The columns that are included are a selection of the header.
LEMMA IncludeIs ==
  ASSUME NEW h \in Seq(Seq(STRING)), NEW columns, NEW k
  PROVE  IncludeColumns(h, columns, k) = Selected(h, Included(h, columns, k))
<1> DEFINE X == Seq(STRING)
<1>1. h \in Seq(X) /\ DOMAIN h = 1 .. Len(h)
  BY LenProperties
<1> HIDE DEF X
<1>2. CASE columns = All
  <2>1. Included(h, columns, k) = 1 .. Len(h)
    BY <1>2 DEF Included
  <2>2. Selected(h, 1 .. Len(h)) = h
    BY <1>1, SelectedAll
  <2> QED BY <1>2, <2>1, <2>2 DEF IncludeColumns
<1>3. CASE columns # All
  <2>1. Included(h, columns, k) = {n \in DOMAIN h : n = k \/ h[n] \in columns}
    BY <1>1, <1>3 DEF Included
  <2> QED BY <1>3, <2>1 DEF IncludeColumns
<1> QED BY <1>2, <1>3

\* Where each name is there once, the names that are taken are those of the columns.
LEMMA SelectedNames ==
  ASSUME NEW X, NEW h \in Seq(X), \A i, j \in 1 .. Len(h) : h[i] = h[j] => i = j, NEW P,
         NEW i \in 1 .. Len(h)
  PROVE  h[i] \in Range(Selected(h, P)) <=> i \in P
<1> DEFINE t == Selected(h, P)
           q == Numbers(P, Len(h))
<1>1. t \in Seq(X) /\ Len(t) = Len(q) /\ \A k \in 1 .. Len(t) : t[k] = h[q[k]]
  BY SelectedByNumbers
<1>2. Len(h) \in Nat
  BY LenProperties
<1>3. /\ \A k \in 1 .. Len(q) : q[k] \in P \cap 1 .. Len(h)
      /\ \A m \in P \cap 1 .. Len(h) : \E k \in 1 .. Len(q) : q[k] = m
  BY <1>2, NumbersAre
<1>4. DOMAIN t = 1 .. Len(q)
  BY <1>1, LenProperties
<1> HIDE DEF t, q
<1>5. ASSUME h[i] \in Range(t) PROVE i \in P
  <2>1. PICK k \in 1 .. Len(q) : t[k] = h[i]
    BY <1>4, <1>5 DEF Range
  <2>2. q[k] \in P /\ q[k] \in 1 .. Len(h) /\ h[q[k]] = h[i]
    BY <1>1, <1>3, <2>1
  <2>3. q[k] = i
    BY <2>2
  <2> QED BY <2>2, <2>3
<1>6. ASSUME i \in P PROVE h[i] \in Range(t)
  <2>1. PICK k \in 1 .. Len(q) : q[k] = i
    BY <1>3, <1>6
  <2> QED BY <1>1, <1>4, <2>1 DEF Range
<1> QED BY <1>5, <1>6 DEF t

\* No column name is there twice.
DiffersEach(h) == \A i, j \in 1 .. Len(h) : h[i] = h[j] => i = j

\* The list names the columns of the second file at the places of q.
NamesPlaces(list, q) ==
  list \in Seq({2} \X Nat) /\ Len(list) = Len(q) /\ \A j \in 1 .. Len(q) : list[j] = <<2, q[j]>>

\* What a joined stream adds to the list of the command.
LEMMA ColumnListIs ==
  ASSUME NEW h \in Seq(Seq(STRING)), DiffersEach(h), NEW P,
         NEW kx, NEW R, R = P \ {kx}, NEW list, list = ColumnList(h, kx, Selected(h, P)),
         NEW q, q = Numbers(R, Len(h))
  PROVE  NamesPlaces(list, q)
<1> DEFINE L == Len(h)
           t == [i \in 1 .. L |-> <<2, i>>]
           Q == {i \in 1 .. L : i # kx /\ h[i] \in Range(Selected(h, P))}
           X == Seq(STRING)
<1>1. L \in Nat /\ DOMAIN h = 1 .. L
  BY LenProperties
<1>2. list = Selected(t, Q)
  BY <1>1 DEF ColumnList
<1>3. Q = R \cap 1 .. L
  <2>1. h \in Seq(X)
    OBVIOUS
  <2> HIDE DEF X
  <2>2. \A i \in 1 .. L : h[i] \in Range(Selected(h, P)) <=> i \in P
    BY <2>1, SelectedNames DEF DiffersEach
  <2> QED BY <2>2
<1>4. t \in Seq({2} \X Nat) /\ Len(t) = L
  BY <1>1
<1>4a. \A i \in 1 .. L : t[i] = <<2, i>>
  OBVIOUS
<1>5. Selected(t, R \cap 1 .. L) = Selected(t, R)
  <2> DEFINE Y == {2} \X Nat
  <2>1. t \in Seq(Y) /\ Len(t) = L
    BY <1>4
  <2> HIDE DEF t, Y, L
  <2>2. Selected(t, R \cap 1 .. Len(t)) = Selected(t, R)
    BY <2>1, SelectedWhole
  <2> QED BY <2>1, <2>2
<1>6. /\ Selected(t, R) \in Seq({2} \X Nat) /\ Len(Selected(t, R)) = Len(q)
      /\ \A j \in 1 .. Len(q) : Selected(t, R)[j] = t[q[j]]
  <2> DEFINE Y == {2} \X Nat
  <2>1. t \in Seq(Y) /\ Len(t) = L
    BY <1>4
  <2> HIDE DEF t, Y
  <2>2. /\ Selected(t, R) \in Seq(Y) /\ Len(Selected(t, R)) = Len(Numbers(R, Len(t)))
        /\ \A k \in 1 .. Len(Selected(t, R)) : Selected(t, R)[k] = t[Numbers(R, Len(t))[k]]
    BY <2>1, SelectedByNumbers
  <2> QED BY <2>1, <2>2 DEF Y
<1> HIDE DEF t, Q
<1>7. \A j \in 1 .. Len(q) : q[j] \in 1 .. L
  <2>1. q \in Seq(1 .. L)
    BY <1>1, NumbersAre
  <2> QED BY <2>1, ElementOfSeq
<1>8. list = Selected(t, R)
  BY <1>2, <1>3, <1>5
<1>9. \A j \in 1 .. Len(q) : t[q[j]] = <<2, q[j]>>
  BY <1>4a, <1>7
<1> QED BY <1>6, <1>8, <1>9 DEF NamesPlaces

-----------------------------------------------------------------------------
\* The header of the main stream, with the columns that are kept of it.
MainHeader == IncludeColumns(Head(Prepared(1)), side.columns, KeyPlace(1))

\* The columns that are kept come first.
LEMMA MainHeaderIs ==
  ASSUME JoinInv, AreTables, KeysAgree, KeepsAPrefix, HasKeys(1)
  PROVE  /\ MainHeader \in Seq(Seq(STRING)) /\ Len(MainHeader) \in 1 .. Len(Origin(1))
         /\ KeyPlace(1) \in 1 .. Len(MainHeader)
         /\ \A p \in 1 .. Len(MainHeader) : MainHeader[p] = Prepared(1)[1][p]
         /\ \A p \in 1 .. Len(Origin(1)) :
              p # KeyPlace(1) => (Wanted(1, Origin(1)[p]) <=> p \in 1 .. Len(MainHeader))
<1> DEFINE s == Streams[1]
           H == Len(Head(s))
           h == Head(Prepared(1))
           o == Origin(1)
           L == Len(o)
           K == KeyPlace(1)
           KC == KeyColumns(1)
           P == Included(h, side.columns, K)
           q == Numbers(P, L)
           m == MainHeader
<1>1. 1 \in DOMAIN Streams /\ s # <<>>
  BY DEF HasKeys
<1>2. Len(s) \in Nat \ {0} /\ Head(s) = s[1] /\ H \in Nat
  BY <1>1, TableIs
<1>3. 1 \in 1 .. Len(s)
  BY <1>2
<1>4. /\ Prepared(1) \in Seq(Cells) /\ Len(Prepared(1)) = Len(s)
      /\ o \in Seq(Nat) /\ K \in 1 .. L
      /\ Len(Prepared(1)[1]) = L
      /\ \A p \in 1 .. L : p # K => Prepared(1)[1][p] = s[1][o[p]]
      /\ \A p \in 1 .. L : p # K => o[p] \in (1 .. H) \ KC
      /\ \A x, y \in 1 .. L : x # K /\ y # K /\ x < y => o[x] < o[y]
      /\ MultiKey => K = 1
      /\ ~ MultiKey => KC = {K} /\ L = H /\ \A x \in 1 .. L : o[x] = x
  BY <1>3, PreparedIs DEF IsPrepared
<1>5. h = Prepared(1)[1] /\ h \in Seq(Seq(STRING))
  <2>1. Prepared(1) # <<>>
    BY <1>2, <1>4
  <2>2. h = Prepared(1)[1]
    BY <1>4, <2>1
  <2>3. Prepared(1)[1] \in Cells
    BY <1>3, <1>4, ElementOfSeq
  <2> QED BY <2>2, <2>3 DEF Cells
<1>6. L \in Nat
  BY <1>4, LenProperties
<1>7. \A i, j \in 1 .. H :
        (MultiKey => i \notin KC /\ j \notin KC) /\ i < j /\ (j \in KC \/ Wanted(1, j))
          => (i \in KC \/ Wanted(1, i))
  <2>1. DOMAIN Head(s) = 1 .. H
    <3>1. Head(s) \in Cells
      BY <1>1, TableIs
    <3> QED BY <3>1, LenProperties DEF Cells
  <2> QED BY <2>1 DEF KeepsAPrefix, MultiKey
<1>8. \A p \in 1 .. L : p # K => (p \in P <=> Wanted(1, o[p]))
  <2>1. \A p \in 1 .. L : p # K => h[p] = Head(s)[o[p]]
    BY <1>2, <1>4, <1>5
  <2>2. Len(h) = L
    BY <1>4, <1>5
  <2> HIDE DEF h, L, o, K, s
  <2>3. ASSUME NEW p \in 1 .. L, p # K PROVE p \in P <=> Wanted(1, o[p])
    <3>1. p \in P <=> side.columns = All \/ h[p] \in side.columns
      BY <2>2, <2>3 DEF Included
    <3>2. Wanted(1, o[p]) <=> side.columns = All \/ h[p] \in side.columns
      BY <2>1, <2>3 DEF Wanted, ColumnsOf, s
    <3> QED BY <3>1, <3>2
  <2> QED BY <2>3
<1>9. K \in P
  <2>1. Len(h) = L
    BY <1>4, <1>5
  <2> QED BY <1>4, <2>1 DEF Included
<1> HIDE DEF P, h, o, K, L, H, KC, s
<1>10. ASSUME NEW i \in 1 .. L, NEW j \in 1 .. L, i < j, j \in P PROVE i \in P
  <2>1. CASE i = K
    BY <1>9, <2>1
  <2>2. CASE i # K /\ MultiKey
    <3>1. j # K
      <4>1. K = 1 /\ i >= 1 /\ i \in Nat /\ j \in Nat
        BY <1>4, <2>2
      <4> QED BY <1>10, <4>1
    <3>2. o[i] < o[j] /\ o[i] \in (1 .. H) \ KC /\ o[j] \in (1 .. H) \ KC
      BY <1>4, <1>10, <2>2, <3>1
    <3>3. Wanted(1, o[j])
      BY <1>8, <1>10, <3>1
    <3>4. Wanted(1, o[i])
      BY <1>7, <3>2, <3>3
    <3> QED BY <1>8, <2>2, <3>4
  <2>3. CASE i # K /\ ~ MultiKey
    <3>1. i \in 1 .. H /\ j \in 1 .. H /\ o[i] = i /\ o[j] = j /\ i \notin KC
      BY <1>4, <2>3
    <3>2. j \in KC \/ Wanted(1, j)
      <4>1. CASE j = K
        BY <1>4, <2>3, <4>1
      <4>2. CASE j # K
        BY <1>8, <1>10, <3>1, <4>2
      <4> QED BY <4>1, <4>2
    <3>3. Wanted(1, o[i])
      BY <1>7, <1>10, <2>3, <3>1, <3>2
    <3> QED BY <1>8, <2>3, <3>3
  <2> QED BY <2>1, <2>2, <2>3
<1>11. \A k \in 1 .. Len(q) : q[k] = k
  BY <1>6, <1>10, NumbersPrefix
<1>12. /\ q \in Seq(1 .. L) /\ \A k \in 1 .. Len(q) : q[k] \in P \cap 1 .. L
       /\ \A x \in P \cap 1 .. L : \E k \in 1 .. Len(q) : q[k] = x
  BY <1>6, NumbersAre
<1> HIDE DEF q
<1>13. Len(h) = L
  BY <1>4, <1>5
<1>14. m = Selected(h, P)
  <2>1. m = IncludeColumns(h, side.columns, K)
    BY DEF MainHeader, h, K
  <2> QED BY <1>5, <2>1, IncludeIs DEF P
<1>15. m \in Seq(Seq(STRING)) /\ Len(m) = Len(q) /\ \A k \in 1 .. Len(m) : m[k] = h[q[k]]
  <2> DEFINE X == Seq(STRING)
  <2>1. h \in Seq(X)
    BY <1>5
  <2> HIDE DEF X
  <2>2. /\ Selected(h, P) \in Seq(X) /\ Len(Selected(h, P)) = Len(Numbers(P, Len(h)))
        /\ \A k \in 1 .. Len(Selected(h, P)) : Selected(h, P)[k] = h[Numbers(P, Len(h))[k]]
    BY <2>1, SelectedByNumbers
  <2> QED BY <1>13, <1>14, <2>2 DEF X, q
<1> HIDE DEF m
<1>16. \A x \in 1 .. L : x \in P <=> x \in 1 .. Len(m)
  BY <1>11, <1>12, <1>15
<1>17. K \in 1 .. Len(m)
  BY <1>4, <1>9, <1>16
<1>18. Len(m) \in 1 .. L
  <2>1. Len(m) \in Nat
    BY <1>15, LenProperties
  <2>2. Len(m) \in 1 .. Len(q)
    BY <1>15, <1>17, <2>1
  <2> QED BY <1>11, <1>12, <2>2
<1>19. \A p \in 1 .. Len(m) : m[p] = Prepared(1)[1][p]
  BY <1>5, <1>11, <1>15
<1>20. \A p \in 1 .. L : p # K => (Wanted(1, o[p]) <=> p \in 1 .. Len(m))
  BY <1>8, <1>16
<1> QED BY <1>15, <1>17, <1>18, <1>19, <1>20 DEF m, o, L, K

-----------------------------------------------------------------------------
\* The columns of the first n streams that are in the result, but for the keys.
PlainColumns(n) == {c \in ResultColumns : c[1] <= n /\ c[2] \notin KeyColumns(c[1])}

\* A name stands for a column: it is the first with the name, or has that of its node.
NamedRightly(name, c) ==
  \/ name = ColumnName(c) /\ \A d \in ResultColumns : ColumnName(d) = name => c[1] <= d[1]
  \/ c[1] > 1 /\ name = PrefixedName(c)

\* How many columns there are after m joins.
Width(cmds, m) == IF m = 0 THEN Len(MainHeader) ELSE Len(cmds[m].list)

\* The header names the columns of the first n streams, each of them once.
ChainColumns(hdr, cols, n) ==
  /\ hdr \in Seq(Seq(STRING)) /\ Len(cols) = Len(hdr)
  /\ KeyPlace(1) \in 1 .. Len(hdr) /\ hdr[KeyPlace(1)] = KeyName(1)
  /\ \A p \in 1 .. Len(hdr) :
       p # KeyPlace(1) => cols[p] \in PlainColumns(n) /\ NamedRightly(hdr[p], cols[p])
  /\ \A p, q \in 1 .. Len(hdr) :
       p # KeyPlace(1) /\ q # KeyPlace(1) /\ cols[p] = cols[q] => p = q
  /\ \A c \in PlainColumns(n) :
       /\ \E p \in 1 .. Len(hdr) : p # KeyPlace(1) /\ cols[p] = c
       /\ \E p \in 1 .. Len(hdr) : hdr[p] = ColumnName(c)

\* The m-th join keeps the columns there are and adds some of its stream.
CommandIs(cmds, cols, m) ==
  /\ cmds[m].right = KeyPlace(m + 1)
  /\ cmds[m].pairs = Pairs(side.joins[m].type) /\ cmds[m].alone = Alone(side.joins[m].type)
  /\ cmds[m].list \in Seq(Nat \X Nat)
  /\ Width(cmds, m - 1) \in 1 .. Width(cmds, m) /\ Width(cmds, m) <= Len(cols)
  /\ KeyPlace(1) <= Width(cmds, m - 1)
  /\ cmds[m].list[KeyPlace(1)] = <<0, 0>>
  /\ \A p \in 1 .. Width(cmds, m - 1) :
       p # KeyPlace(1) => cmds[m].list[p] = <<1, p>> /\ cols[p][1] \in 1 .. m
  /\ \A p \in 1 .. Width(cmds, m) :
       p > Width(cmds, m - 1) =>
         \E q \in 1 .. Len(Origin(m + 1)) :
           /\ q # KeyPlace(m + 1) /\ cmds[m].list[p] = <<2, q>>
           /\ cols[p] = <<m + 1, Origin(m + 1)[q]>>

\* A request that has met the first n streams.
Chain(hdr, cmds, cols, n) ==
  /\ ChainColumns(hdr, cols, n)
  /\ \A m \in 1 .. n : HasKeys(m)
  /\ Len(cmds) = n - 1 /\ Width(cmds, n - 1) = Len(hdr)
  /\ Len(MainHeader) <= Len(hdr) /\ KeyPlace(1) \in 1 .. Len(MainHeader)
  /\ \A p \in 1 .. Len(MainHeader) : p # KeyPlace(1) => cols[p] = <<1, Origin(1)[p]>>
  /\ \A m \in 1 .. n - 1 : CommandIs(cmds, cols, m)

\* What a column of the result is.
LEMMA ResultColumnIs ==
  ASSUME JoinInv, NEW c \in ResultColumns
  PROVE  /\ c[1] \in 1 .. Len(side.joins) + 1 /\ c = <<c[1], c[2]>>
         /\ c[2] \in DOMAIN Head(Streams[c[1]])
         /\ c[2] \in KeyColumns(c[1]) => c[1] = 1
         /\ c[2] \notin KeyColumns(c[1]) => Wanted(c[1], c[2])
<1>1. PICK n \in DOMAIN Streams : c \in {n} \X DOMAIN Head(Streams[n])
  BY DEF ResultColumns
<1>2. c[1] = n /\ c[2] \in DOMAIN Head(Streams[n]) /\ c = <<c[1], c[2]>>
  BY <1>1
<1>3. n \in 1 .. Len(side.joins) + 1
  BY StreamsAre
<1>4. IF c[2] \in KeyColumns(c[1]) THEN c[1] = 1 ELSE Wanted(c[1], c[2])
  BY DEF ResultColumns
<1> QED BY <1>2, <1>3, <1>4

\* Which columns are in the result.
LEMMA IsResultColumn ==
  ASSUME NEW n \in DOMAIN Streams, NEW i \in DOMAIN Head(Streams[n]),
         IF i \in KeyColumns(n) THEN n = 1 ELSE Wanted(n, i)
  PROVE  <<n, i>> \in ResultColumns
<1>1. <<n, i>> \in {n} \X DOMAIN Head(Streams[n])
  OBVIOUS
<1>2. <<n, i>> \in UNION {{m} \X DOMAIN Head(Streams[m]) : m \in DOMAIN Streams}
  BY <1>1
<1> QED BY <1>2 DEF ResultColumns

\* A column of a prepared stream that is not its key is one of the stream.
LEMMA OriginIs ==
  ASSUME JoinInv, AreTables, KeysAgree, NEW n, HasKeys(n),
         NEW q \in 1 .. Len(Origin(n)), q # KeyPlace(n), NEW c, c = <<n, Origin(n)[q]>>
  PROVE  /\ n \in 1 .. Len(side.joins) + 1
         /\ Origin(n)[q] \in DOMAIN Head(Streams[n]) /\ Origin(n)[q] \notin KeyColumns(n)
         /\ ColumnName(c) = Prepared(n)[1][q]
         /\ Wanted(n, Origin(n)[q]) => c \in PlainColumns(n)
         /\ \A p \in 1 .. Len(Origin(n)) : p # KeyPlace(n) /\ Origin(n)[p] = Origin(n)[q] => p = q
<1> DEFINE s == Streams[n]
           i == Origin(n)[q]
           o == Origin(n)
<1>1. n \in DOMAIN Streams /\ s # <<>>
  BY DEF HasKeys
<1>2. n \in 1 .. Len(side.joins) + 1
  BY <1>1, StreamsAre
<1>3. Len(s) \in Nat \ {0} /\ Head(s) = s[1] /\ Head(s) \in Cells
  BY <1>1, TableIs
<1>4. 1 \in 1 .. Len(s) /\ DOMAIN Head(s) = 1 .. Len(Head(s))
  BY <1>3, LenProperties DEF Cells
<1>5. /\ i \in (1 .. Len(Head(s))) \ KeyColumns(n)
      /\ Prepared(n)[1][q] = s[1][i]
      /\ \A x, y \in 1 .. Len(o) : x # KeyPlace(n) /\ y # KeyPlace(n) /\ x < y => o[x] < o[y]
      /\ o \in Seq(Nat)
  <2>1. IsPrepared(n)
    BY PreparedIs
  <2>2. /\ o \in Seq(Nat)
        /\ \A x, y \in 1 .. Len(o) : x # KeyPlace(n) /\ y # KeyPlace(n) /\ x < y => o[x] < o[y]
    BY <2>1 DEF IsPrepared
  <2>3. i \in (1 .. Len(Head(s))) \ KeyColumns(n) /\ Prepared(n)[1][q] = s[1][i]
    BY <1>4, <2>1 DEF IsPrepared
  <2> QED BY <2>2, <2>3
<1>6. ColumnName(c) = Prepared(n)[1][q]
  BY <1>3, <1>5 DEF ColumnName
<1>7. Wanted(n, i) => c \in PlainColumns(n)
  <2>1. SUFFICES ASSUME Wanted(n, i) PROVE c \in PlainColumns(n)
    OBVIOUS
  <2>2. c \in ResultColumns
    BY <1>1, <1>4, <1>5, <2>1, IsResultColumn
  <2>3. c[1] = n /\ c[2] = i /\ n <= n
    BY <1>2
  <2> QED BY <1>5, <2>2, <2>3 DEF PlainColumns
<1>8. ASSUME NEW p \in 1 .. Len(o), p # KeyPlace(n), o[p] = o[q] PROVE p = q
  <2>1. Len(o) \in Nat /\ o[p] \in Nat
    BY <1>5, LenProperties, ElementOfSeq
  <2> HIDE DEF o
  <2>2. CASE p < q
    <3>1. o[p] < o[q]
      BY <1>5, <1>8, <2>2 DEF o
    <3> QED BY <1>8, <2>1, <3>1
  <2>3. CASE q < p
    <3>1. o[q] < o[p]
      BY <1>5, <1>8, <2>3 DEF o
    <3> QED BY <1>8, <2>1, <3>1
  <2> QED BY <2>1, <2>2, <2>3 DEF o
<1> QED BY <1>2, <1>4, <1>5, <1>6, <1>7, <1>8

\* The columns before the first join.
LEMMA ChainFirst ==
  ASSUME JoinInv, AreTables, KeysAgree, KeepsAPrefix, HasKeys(1)
  PROVE  \E cols : Chain(MainHeader, <<>>, cols, 1)
<1> DEFINE m == MainHeader
           M == Len(m)
           K == KeyPlace(1)
           o == Origin(1)
           cols == [p \in 1 .. M |-> <<1, o[p]>>]
<1>1. /\ m \in Seq(Seq(STRING)) /\ M \in 1 .. Len(o) /\ K \in 1 .. M
      /\ \A p \in 1 .. M : m[p] = Prepared(1)[1][p]
      /\ \A p \in 1 .. Len(o) : p # K => (Wanted(1, o[p]) <=> p \in 1 .. M)
  BY MainHeaderIs
<1>2. M \in Nat
  BY <1>1
<1>3. Len(cols) = M /\ \A p \in 1 .. M : cols[p] = <<1, o[p]>>
  BY <1>2
<1> HIDE DEF m, M, cols
<1>4. \A p \in 1 .. M : p \in 1 .. Len(o)
  <2>1. Len(o) \in Nat
    <3>1. o \in Seq(Nat)
      BY PreparedIs DEF IsPrepared
    <3> QED BY <3>1, LenProperties
  <2> HIDE DEF o
  <2> QED BY <1>1, <2>1
<1>5. ASSUME NEW p \in 1 .. M, p # K
      PROVE  /\ cols[p] \in PlainColumns(1) /\ NamedRightly(m[p], cols[p])
             /\ m[p] = ColumnName(cols[p])
  <2>1. p \in 1 .. Len(o) /\ Wanted(1, o[p]) /\ cols[p] = <<1, o[p]>>
    BY <1>1, <1>3, <1>4, <1>5
  <2>2. ColumnName(cols[p]) = Prepared(1)[1][p] /\ cols[p] \in PlainColumns(1)
    BY <1>5, <2>1, OriginIs
  <2>3. \A d \in ResultColumns : 1 <= d[1]
    BY ResultColumnIs
  <2>4. cols[p][1] = 1
    BY <2>1
  <2>5. m[p] = ColumnName(cols[p])
    BY <1>1, <2>2
  <2> QED BY <2>2, <2>3, <2>4, <2>5 DEF NamedRightly
<1>6. ASSUME NEW p \in 1 .. M, NEW q \in 1 .. M, p # K, q # K, cols[p] = cols[q] PROVE p = q
  <2>1. o[p] = o[q]
    BY <1>3, <1>6
  <2>2. p \in 1 .. Len(o) /\ q \in 1 .. Len(o)
    BY <1>4
  <2> QED BY <1>6, <2>1, <2>2, OriginIs
<1>7. ASSUME NEW c \in PlainColumns(1)
      PROVE  \E p \in 1 .. M : p # K /\ cols[p] = c
  <2>1. c \in ResultColumns /\ c[1] <= 1 /\ c[2] \notin KeyColumns(c[1])
    BY DEF PlainColumns
  <2>2. /\ c[1] \in 1 .. Len(side.joins) + 1 /\ c = <<c[1], c[2]>>
        /\ c[2] \in DOMAIN Head(Streams[c[1]]) /\ Wanted(c[1], c[2])
    BY <2>1, ResultColumnIs
  <2>3. c[1] = 1
    BY <2>1, <2>2
  <2>4. 1 \in DOMAIN Streams /\ Streams[1] # <<>>
    BY DEF HasKeys
  <2>5. c[2] \in (1 .. Len(Head(Streams[1]))) \ KeyColumns(1)
    <3>1. Head(Streams[1]) \in Cells
      BY <2>4, TableIs
    <3> QED BY <2>1, <2>2, <2>3, <3>1, LenProperties DEF Cells
  <2>6. PICK p \in 1 .. Len(o) : p # K /\ o[p] = c[2]
    BY <2>5, PreparedIs DEF IsPrepared
  <2>7. p \in 1 .. M
    BY <1>1, <2>2, <2>3, <2>6
  <2> QED BY <1>3, <2>2, <2>3, <2>6, <2>7
<1>8. ASSUME NEW c \in PlainColumns(1) PROVE \E p \in 1 .. M : m[p] = ColumnName(c)
  BY <1>5, <1>7
<1>9. m[K] = KeyName(1)
  <2>1. Prepared(1)[1][K] = KeyName(1)
    BY PreparedIs DEF IsPrepared
  <2> QED BY <1>1, <2>1
<1>10. ChainColumns(m, cols, 1)
  BY <1>1, <1>3, <1>5, <1>6, <1>7, <1>8, <1>9 DEF ChainColumns, M
<1>11. Width(<<>>, 0) = M
  BY DEF Width, m, M
<1>12. Len(<<>>) = 1 - 1 /\ 1 - 1 = 0 /\ 1 .. 0 = {} /\ \A x \in 1 .. 1 : x = 1
  OBVIOUS
<1>13. Chain(m, <<>>, cols, 1)
  BY <1>1, <1>2, <1>3, <1>10, <1>11, <1>12 DEF Chain, M, m
<1> QED BY <1>13 DEF m

-----------------------------------------------------------------------------
\* The places, in the stream with one key column, of the columns the n-th join adds.
AddedPlaces(n) ==
  Numbers(Included(Head(Prepared(n + 1)), side.joins[n].columns, 0) \ {KeyPlace(n + 1)},
          Len(Head(Prepared(n + 1))))

\* What the header of a prepared stream is.
LEMMA PreparedHeader ==
  ASSUME JoinInv, AreTables, KeysAgree, NEW m, HasKeys(m)
  PROVE  /\ Head(Prepared(m)) = Prepared(m)[1] /\ Head(Prepared(m)) \in Seq(Seq(STRING))
         /\ Len(Head(Prepared(m))) = Len(Origin(m)) /\ Len(Origin(m)) \in Nat
         /\ KeyPlace(m) \in 1 .. Len(Origin(m)) /\ Head(Prepared(m))[KeyPlace(m)] = KeyName(m)
         /\ \A i, j \in 1 .. Len(Origin(m)) :
              Head(Prepared(m))[i] = Head(Prepared(m))[j] => i = j
         /\ Prepared(m) \in Seq(Cells) /\ Len(Prepared(m)) = Len(Streams[m])
         /\ Len(Streams[m]) \in Nat \ {0}
<1>1. m \in DOMAIN Streams /\ Streams[m] # <<>>
  BY DEF HasKeys
<1>2. Len(Streams[m]) \in Nat \ {0}
  BY <1>1, TableIs
<1>3. 1 \in 1 .. Len(Streams[m])
  BY <1>2
<1>4. IsPrepared(m)
  BY PreparedIs
<1>5. /\ Prepared(m) \in Seq(Cells) /\ Len(Prepared(m)) = Len(Streams[m])
      /\ Origin(m) \in Seq(Nat) /\ KeyPlace(m) \in 1 .. Len(Origin(m))
      /\ Prepared(m)[1][KeyPlace(m)] = KeyName(m)
      /\ \A i, j \in 1 .. Len(Origin(m)) : Prepared(m)[1][i] = Prepared(m)[1][j] => i = j
  BY <1>4 DEF IsPrepared
<1>6. Len(Prepared(m)[1]) = Len(Origin(m))
  BY <1>3, <1>4 DEF IsPrepared
<1>7. Prepared(m) # <<>>
  BY <1>2, <1>5
<1>8. Head(Prepared(m)) = Prepared(m)[1] /\ Prepared(m)[1] \in Seq(Seq(STRING))
  <2>1. Prepared(m)[1] \in Cells
    BY <1>3, <1>5, ElementOfSeq
  <2> QED BY <1>5, <1>7, <2>1 DEF Cells
<1>9. Len(Origin(m)) \in Nat
  BY <1>5, LenProperties
<1> QED BY <1>2, <1>5, <1>6, <1>8, <1>9

\* The places of the columns a stream adds: those that are wanted, but for the key.
LEMMA AddedPlacesAre ==
  ASSUME JoinInv, AreTables, KeysAgree, NEW n \in 1 .. Len(side.joins), HasKeys(n + 1),
         NEW q, q = AddedPlaces(n)
  PROVE  /\ q \in Seq(1 .. Len(Origin(n + 1))) /\ Len(q) \in Nat
         /\ \A j \in 1 .. Len(q) :
              /\ q[j] \in 1 .. Len(Origin(n + 1)) /\ q[j] # KeyPlace(n + 1)
              /\ Wanted(n + 1, Origin(n + 1)[q[j]])
         /\ \A i, j \in 1 .. Len(q) : q[i] = q[j] => i = j
         /\ \A i \in 1 .. Len(Origin(n + 1)) :
              i # KeyPlace(n + 1) /\ Wanted(n + 1, Origin(n + 1)[i]) =>
                \E j \in 1 .. Len(q) : q[j] = i
<1> DEFINE m == n + 1
           h == Head(Prepared(m))
           o == Origin(m)
           L == Len(o)
           kx == KeyPlace(m)
           columns == side.joins[n].columns
           R == Included(h, columns, 0) \ {kx}
<1>1. m \in Nat /\ m # 1 /\ m - 1 = n
  <2>1. Len(side.joins) \in Nat
    BY StreamsAre
  <2> QED BY <2>1
<1>2. ColumnsOf(m) = columns
  BY <1>1 DEF ColumnsOf
<1>3. m \in DOMAIN Streams /\ Streams[m] # <<>>
  BY DEF HasKeys
<1> HIDE DEF m
<1>4. h = Prepared(m)[1] /\ Len(h) = L /\ L \in Nat /\ Len(Streams[m]) \in Nat \ {0}
  BY PreparedHeader DEF m
<1>5. Head(Streams[m]) = Streams[m][1] /\ 1 \in 1 .. Len(Streams[m])
  BY <1>3, <1>4, TableIs
<1>6. \A i \in 1 .. L : i # kx => Prepared(m)[1][i] = Streams[m][1][o[i]]
  <2>1. IsPrepared(m)
    BY PreparedIs DEF m
  <2> QED BY <1>5, <2>1 DEF IsPrepared
<1>7. \A i \in 1 .. L : i \in R <=> i # kx /\ Wanted(m, o[i])
  <2> SUFFICES ASSUME NEW i \in 1 .. L PROVE i \in R <=> i # kx /\ Wanted(m, o[i])
    OBVIOUS
  <2>1. i # kx => h[i] = Head(Streams[m])[o[i]]
    BY <1>4, <1>5, <1>6
  <2>2. i # 0
    BY <1>4
  <2> HIDE DEF h, columns, kx, o
  <2>3. i \in R <=> i # kx /\ (columns = All \/ h[i] \in columns)
    BY <1>4, <2>2 DEF Included, L
  <2>4. Wanted(m, o[i]) <=> columns = All \/ Head(Streams[m])[o[i]] \in columns
    BY <1>2 DEF Wanted
  <2> QED BY <2>1, <2>3, <2>4
<1>8. q = Numbers(R, L)
  BY <1>4 DEF AddedPlaces, m
<1> HIDE DEF R, L
<1>9. /\ q \in Seq(1 .. L)
      /\ \A k \in 1 .. Len(q) : q[k] \in R \cap 1 .. L
      /\ \A j, k \in 1 .. Len(q) : q[j] = q[k] => j = k
      /\ \A x \in R \cap 1 .. L : \E k \in 1 .. Len(q) : q[k] = x
  <2>1. L \in Nat
    BY <1>4
  <2>2. /\ Numbers(R, L) \in Seq(1 .. L)
        /\ \A k \in 1 .. Len(Numbers(R, L)) : Numbers(R, L)[k] \in R \cap 1 .. L
        /\ \A j, k \in 1 .. Len(Numbers(R, L)) : Numbers(R, L)[j] = Numbers(R, L)[k] => j = k
        /\ \A x \in R \cap 1 .. L : \E k \in 1 .. Len(Numbers(R, L)) : Numbers(R, L)[k] = x
    BY <2>1, NumbersAre
  <2> QED BY <1>8, <2>2
<1>10. Len(q) \in Nat
  BY <1>9, LenProperties
<1>11. \A j \in 1 .. Len(q) : q[j] \in 1 .. L /\ q[j] # kx /\ Wanted(m, o[q[j]])
  BY <1>7, <1>9
<1>12. \A i \in 1 .. L : i # kx /\ Wanted(m, o[i]) => \E j \in 1 .. Len(q) : q[j] = i
  BY <1>7, <1>9
<1> QED BY <1>9, <1>10, <1>11, <1>12 DEF m, L

\* What the columns are when the n-th stream is joined.
MoreColumns(cols, w, n) ==
  [p \in 1 .. w + Len(AddedPlaces(n)) |->
     IF p <= w THEN cols[p] ELSE <<n + 1, Origin(n + 1)[AddedPlaces(n)[p - w]]>>]

\* The columns cols come first, then those of the n-th stream.
ColumnsFollow(more, cols, w, n) ==
  /\ Len(more) = w + Len(AddedPlaces(n))
  /\ \A p \in 1 .. w : more[p] = cols[p]
  /\ \A j \in 1 .. Len(AddedPlaces(n)) :
       more[w + j] = <<n + 1, Origin(n + 1)[AddedPlaces(n)[j]]>>
  /\ \A p \in 1 .. w + Len(AddedPlaces(n)) :
       p \notin 1 .. w => p - w \in 1 .. Len(AddedPlaces(n)) /\ p = w + (p - w) /\ p > w

\* The columns with those of one stream more.
LEMMA MoreColumnsAre ==
  ASSUME NEW cols, NEW w \in Nat, NEW n, Len(AddedPlaces(n)) \in Nat, NEW more, more = MoreColumns(cols, w, n)
  PROVE  ColumnsFollow(more, cols, w, n)
<1> DEFINE q == AddedPlaces(n)
           v == Len(q)
           c(j) == <<n + 1, Origin(n + 1)[q[j]]>>
<1>0. v \in Nat /\ more = [p \in 1 .. w + v |-> IF p <= w THEN cols[p] ELSE c(p - w)]
  BY DEF MoreColumns
<1> HIDE DEF v, c, q
<1>1. Len(more) = w + v
  BY <1>0
<1>2. \A p \in 1 .. w : more[p] = cols[p]
  BY <1>0
<1>3. \A j \in 1 .. v : more[w + j] = c(j)
  <2> SUFFICES ASSUME NEW j \in 1 .. v PROVE more[w + j] = c(j)
    OBVIOUS
  <2>1. w + j \in 1 .. w + v /\ ~ (w + j <= w) /\ (w + j) - w = j
    BY <1>0
  <2> QED BY <1>0, <2>1
<1>4. \A p \in 1 .. w + v : p \notin 1 .. w => p - w \in 1 .. v /\ p = w + (p - w) /\ p > w
  <2>1. ASSUME NEW p \in 1 .. w + v, p \notin 1 .. w
        PROVE  p - w \in 1 .. v /\ p = w + (p - w) /\ p > w
    <3>1. p \in Nat /\ p > w /\ p <= w + v
      BY <1>0, <2>1
    <3> QED BY <1>0, <3>1
  <2> QED BY <2>1
<1> QED BY <1>1, <1>2, <1>3, <1>4 DEF v, c, q, ColumnsFollow

-----------------------------------------------------------------------------
\* The name of a key column of the main stream.
LEMMA KeyColumnName ==
  ASSUME JoinInv, AreTables, KeysAgree, HasKeys(1),
         NEW d \in ResultColumns, d[2] \in KeyColumns(d[1])
  PROVE  /\ ~ MultiKey => ColumnName(d) = KeyName(1)
         /\ ColumnName(d) \in Range(side.key)
<1>1. d[1] = 1
  BY ResultColumnIs
<1>2. PICK k \in 1 .. Len(side.key) : d[2] = Places(1)[k]
  BY <1>1, PlacesAre
<1>3. ColumnName(d) = side.key[k]
  <2>1. StreamKeys(1) = side.key
    BY KeysAre
  <2> QED BY <1>1, <1>2, <2>1, PlacesAre DEF ColumnName
<1>4. ColumnName(d) \in Range(side.key)
  <2>1. DOMAIN side.key = 1 .. Len(side.key)
    <3>1. side.key \in Cells
      BY PlacesAre, KeysAre
    <3> QED BY <3>1, LenProperties DEF Cells
  <2> QED BY <1>3, <2>1 DEF Range
<1>5. ASSUME ~ MultiKey PROVE ColumnName(d) = KeyName(1)
  <2>1. KeyColumns(1) = {KeyPlace(1)} /\ Prepared(1)[1][KeyPlace(1)] = KeyName(1)
    BY <1>5, PreparedIs DEF IsPrepared
  <2>2. Prepared(1) = Streams[1]
    BY <1>5 DEF Prepared
  <2>3. Head(Prepared(1)) = Prepared(1)[1]
    BY PreparedHeader
  <2> QED BY <1>1, <2>1, <2>2, <2>3 DEF ColumnName
<1> QED BY <1>4, <1>5

\* What such a column is in the result, and what it is named.
LEMMA NewColumnIs ==
  ASSUME JoinInv, AreTables, KeysAgree, NEW n \in 1 .. Len(side.joins), HasKeys(n + 1),
         NEW j \in 1 .. Len(AddedPlaces(n)),
         NEW c, c = <<n + 1, Origin(n + 1)[AddedPlaces(n)[j]]>>
  PROVE  /\ c \in PlainColumns(n + 1) /\ c[1] = n + 1 /\ n + 1 > 1 /\ (n + 1) - 1 = n
         /\ ColumnName(c) = Head(Prepared(n + 1))[AddedPlaces(n)[j]]
         /\ PrefixedName(c) = <<side.joins[n].node>> \o Head(Prepared(n + 1))[AddedPlaces(n)[j]]
<1> DEFINE q == AddedPlaces(n)
           m == n + 1
<1>1. q[j] \in 1 .. Len(Origin(m)) /\ q[j] # KeyPlace(m) /\ Wanted(m, Origin(m)[q[j]])
  BY AddedPlacesAre
<1>2. m > 1 /\ m - 1 = n
  <2>1. Len(side.joins) \in Nat
    BY StreamsAre
  <2> QED BY <2>1
<1> HIDE DEF m, q
<1>3. HasKeys(m) /\ c = <<m, Origin(m)[q[j]]>>
  BY DEF m, q
<1>4. ColumnName(c) = Prepared(m)[1][q[j]] /\ c \in PlainColumns(m)
  BY <1>1, <1>3, OriginIs
<1>5. Head(Prepared(m)) = Prepared(m)[1]
  BY <1>3, PreparedHeader
<1>6. c[1] = m
  BY <1>3
<1>7. PrefixedName(c) = <<side.joins[n].node>> \o ColumnName(c)
  BY <1>2, <1>6 DEF PrefixedName
<1> QED BY <1>2, <1>4, <1>5, <1>6, <1>7 DEF m, q

\* The header with one stream more still names the columns of the result.
LEMMA ChainColumnsNext ==
  ASSUME JoinInv, AreTables, KeysAgree, NamesApart, NEW n \in 1 .. Len(side.joins),
         HasKeys(1), HasKeys(n + 1), NEW hdr, NEW cols, ChainColumns(hdr, cols, n), NEW hdr2,
         NamesFollow(hdr2, AddedPlaces(n), hdr, Head(Prepared(n + 1)), side.joins[n].node),
         NEW more, more = MoreColumns(cols, Len(hdr), n)
  PROVE  ChainColumns(hdr2, more, n + 1)
<1> DEFINE K == KeyPlace(1)
           W == Len(hdr)
           q == AddedPlaces(n)
           v == Len(q)
           m == n + 1
           h == Head(Prepared(m))
           c(j) == <<m, Origin(m)[q[j]]>>
           node == side.joins[n].node
<1>1. /\ hdr \in Seq(Seq(STRING)) /\ Len(cols) = W
      /\ K \in 1 .. W /\ hdr[K] = KeyName(1)
      /\ \A p \in 1 .. W : p # K => cols[p] \in PlainColumns(n) /\ NamedRightly(hdr[p], cols[p])
      /\ \A p, i \in 1 .. W : p # K /\ i # K /\ cols[p] = cols[i] => p = i
      /\ \A d \in PlainColumns(n) :
           /\ \E p \in 1 .. W : p # K /\ cols[p] = d
           /\ \E p \in 1 .. W : hdr[p] = ColumnName(d)
  BY DEF ChainColumns
<1>2. W \in Nat
  BY <1>1, LenProperties
<1>3. /\ v \in Nat
      /\ \A j \in 1 .. v : q[j] \in 1 .. Len(Origin(m)) /\ q[j] # KeyPlace(m)
      /\ \A i, j \in 1 .. v : q[i] = q[j] => i = j
      /\ \A i \in 1 .. Len(Origin(m)) :
           i # KeyPlace(m) /\ Wanted(m, Origin(m)[i]) => \E j \in 1 .. v : q[j] = i
  BY AddedPlacesAre
<1>4. /\ Len(more) = W + v /\ \A p \in 1 .. W : more[p] = cols[p]
      /\ \A j \in 1 .. v : more[W + j] = c(j)
      /\ \A p \in 1 .. W + v : p \notin 1 .. W => p - W \in 1 .. v /\ p = W + (p - W) /\ p > W
  <2>1. more = MoreColumns(cols, W, n) /\ Len(AddedPlaces(n)) \in Nat /\ W \in Nat
    BY <1>2, <1>3
  <2> HIDE DEF W
  <2>2. ColumnsFollow(more, cols, W, n)
    BY <2>1, MoreColumnsAre
  <2> QED BY <2>2 DEF ColumnsFollow
<1>5. /\ hdr2 \in Seq(Seq(STRING)) /\ Len(hdr2) = W + v
      /\ \A p \in 1 .. W : hdr2[p] = hdr[p]
      /\ \A j \in 1 .. v :
           \/ hdr2[W + j] = h[q[j]] /\ \A p \in 1 .. W : hdr[p] # h[q[j]]
           \/ hdr2[W + j] = <<node>> \o h[q[j]]
      /\ \A j \in 1 .. v : \E p \in 1 .. Len(hdr2) : hdr2[p] = h[q[j]]
  BY DEF NamesFollow
<1>6. \A j \in 1 .. v :
        /\ c(j) \in PlainColumns(m) /\ c(j)[1] = m /\ ColumnName(c(j)) = h[q[j]]
        /\ PrefixedName(c(j)) = <<node>> \o h[q[j]]
  BY NewColumnIs
<1>7. m > 1 /\ m \in Nat /\ n \in Nat /\ m - 1 = n
  <2>1. Len(side.joins) \in Nat
    BY StreamsAre
  <2> QED BY <2>1
<1>7a. HasKeys(m) /\ m = n + 1
  OBVIOUS
<1> HIDE DEF K, W, q, v, m, h, c, node
<1>8. \A d \in ResultColumns : d[1] \in Nat /\ d[1] >= 1
  <2>1. Len(side.joins) \in Nat
    BY StreamsAre
  <2>2. \A d \in ResultColumns : d[1] \in 1 .. Len(side.joins) + 1
    BY ResultColumnIs
  <2> QED BY <2>1, <2>2
<1>9. \A d \in PlainColumns(n) : d \in PlainColumns(m) /\ d \in ResultColumns /\ d[1] < m
  <2> SUFFICES ASSUME NEW d \in PlainColumns(n)
               PROVE  d \in PlainColumns(m) /\ d \in ResultColumns /\ d[1] < m
    OBVIOUS
  <2>1. d \in ResultColumns /\ d[1] <= n /\ d[2] \notin KeyColumns(d[1])
    BY DEF PlainColumns
  <2>2. d[1] <= m /\ d[1] < m
    BY <1>7, <1>7a, <1>8, <2>1
  <2> QED BY <2>1, <2>2 DEF PlainColumns
<1>10. ASSUME NEW j \in 1 .. v PROVE NamedRightly(hdr2[W + j], c(j))
  <2>1. c(j) \in ResultColumns /\ c(j)[1] = m
    BY <1>6 DEF PlainColumns
  <2>2. CASE hdr2[W + j] = h[q[j]] /\ \A p \in 1 .. W : hdr[p] # h[q[j]]
    <3>1. ASSUME NEW d \in ResultColumns, ColumnName(d) = hdr2[W + j] PROVE c(j)[1] <= d[1]
      <4>1. SUFFICES ASSUME ~ (m <= d[1]) PROVE FALSE
        BY <2>1
      <4>2. d[1] <= n
        BY <1>7, <1>7a, <1>8, <4>1
      <4>3. CASE d[2] \notin KeyColumns(d[1])
        <5>1. d \in PlainColumns(n)
          BY <4>2, <4>3 DEF PlainColumns
        <5>2. PICK p \in 1 .. W : hdr[p] = ColumnName(d)
          BY <1>1, <5>1
        <5> QED BY <2>2, <3>1, <5>2
      <4>4. CASE d[2] \in KeyColumns(d[1]) /\ ~ MultiKey
        <5>1. ColumnName(d) = KeyName(1)
          BY <4>4, KeyColumnName
        <5> QED BY <1>1, <2>2, <3>1, <5>1
      <4>5. CASE d[2] \in KeyColumns(d[1]) /\ MultiKey
        <5>1. ColumnName(d) \in Range(side.key)
          BY <4>5, KeyColumnName
        <5>2. ColumnName(c(j)) = ColumnName(d)
          BY <1>6, <2>2, <3>1
        <5>3. ColumnName(c(j)) \notin Range(side.key)
          <6>1. c(j)[1] > 1
            BY <1>7, <2>1
          <6> QED BY <2>1, <4>5, <6>1 DEF NamesApart, MultiKey
        <5> QED BY <5>1, <5>2, <5>3
      <4> QED BY <4>3, <4>4, <4>5
    <3>2. hdr2[W + j] = ColumnName(c(j))
      BY <1>6, <2>2
    <3> QED BY <3>1, <3>2 DEF NamedRightly
  <2>3. CASE hdr2[W + j] = <<node>> \o h[q[j]]
    <3>1. c(j)[1] > 1 /\ hdr2[W + j] = PrefixedName(c(j))
      BY <1>6, <1>7, <2>1, <2>3
    <3> QED BY <3>1 DEF NamedRightly
  <2> QED BY <1>5, <2>2, <2>3
<1>11. \A p \in 1 .. W : p \in 1 .. W + v
  BY <1>2, <1>3
<1>11a. \A j \in 1 .. v : W + j \in 1 .. W + v /\ W + j # K
  BY <1>1, <1>2, <1>3
<1>12. ASSUME NEW p \in 1 .. W + v, p # K
       PROVE  more[p] \in PlainColumns(m) /\ NamedRightly(hdr2[p], more[p])
  <2>1. CASE p \in 1 .. W
    BY <1>1, <1>4, <1>5, <1>9, <1>12, <2>1
  <2>2. CASE p \notin 1 .. W
    <3>1. PICK j \in 1 .. v : p = W + j
      BY <1>4, <2>2
    <3> QED BY <1>4, <1>6, <1>10, <3>1
  <2> QED BY <2>1, <2>2
<1>13. ASSUME NEW i \in 1 .. v, NEW j \in 1 .. v, c(i) = c(j) PROVE i = j
  <2>1. Origin(m)[q[i]] = Origin(m)[q[j]]
    BY <1>13 DEF c
  <2>2. /\ q[i] \in 1 .. Len(Origin(m)) /\ q[i] # KeyPlace(m)
        /\ q[j] \in 1 .. Len(Origin(m)) /\ q[j] # KeyPlace(m)
    BY <1>3
  <2>3. q[i] = q[j]
    BY <1>7a, <2>1, <2>2, OriginIs
  <2> QED BY <1>3, <2>3
<1>14. ASSUME NEW p \in 1 .. W + v, NEW i \in 1 .. W + v, p # K, i # K, more[p] = more[i]
       PROVE  p = i
  <2>1. \A x \in 1 .. W : x # K => more[x][1] < m
    BY <1>1, <1>4, <1>9
  <2>2. \A j \in 1 .. v : more[W + j][1] = m
    BY <1>4, <1>6
  <2>3. CASE p \in 1 .. W /\ i \in 1 .. W
    BY <1>1, <1>4, <1>14, <2>3
  <2>4. CASE p \notin 1 .. W /\ i \notin 1 .. W
    <3>1. PICK a \in 1 .. v : p = W + a
      BY <1>4, <2>4
    <3>2. PICK b \in 1 .. v : i = W + b
      BY <1>4, <2>4
    <3>3. c(a) = c(b)
      BY <1>4, <1>14, <3>1, <3>2
    <3> QED BY <1>13, <3>1, <3>2, <3>3
  <2>5. CASE p \in 1 .. W /\ i \notin 1 .. W
    <3>1. PICK b \in 1 .. v : i = W + b
      BY <1>4, <2>5
    <3>2. more[p][1] < m /\ more[i][1] = m
      BY <1>14, <2>1, <2>2, <2>5, <3>1
    <3> QED BY <1>7, <1>14, <3>2
  <2>6. CASE p \notin 1 .. W /\ i \in 1 .. W
    <3>1. PICK b \in 1 .. v : p = W + b
      BY <1>4, <2>6
    <3>2. more[i][1] < m /\ more[p][1] = m
      BY <1>14, <2>1, <2>2, <2>6, <3>1
    <3> QED BY <1>7, <1>14, <3>2
  <2> QED BY <2>3, <2>4, <2>5, <2>6
<1>15. ASSUME NEW d \in PlainColumns(m)
       PROVE  /\ \E p \in 1 .. W + v : p # K /\ more[p] = d
              /\ \E p \in 1 .. W + v : hdr2[p] = ColumnName(d)
  <2>1. d \in ResultColumns /\ d[1] <= m /\ d[2] \notin KeyColumns(d[1]) /\ d[1] \in Nat
    BY <1>8 DEF PlainColumns
  <2>2. CASE d[1] <= n
    <3>1. d \in PlainColumns(n)
      BY <2>1, <2>2 DEF PlainColumns
    <3>2. PICK p \in 1 .. W : p # K /\ cols[p] = d
      BY <1>1, <3>1
    <3>3. PICK i \in 1 .. W : hdr[i] = ColumnName(d)
      BY <1>1, <3>1
    <3> QED BY <1>4, <1>5, <1>11, <3>2, <3>3
  <2>3. CASE ~ (d[1] <= n)
    <3>1. d[1] = m
      BY <1>7, <1>7a, <2>1, <2>3
    <3>2. d = <<m, d[2]>> /\ d[2] \in DOMAIN Head(Streams[m]) /\ Wanted(m, d[2])
      BY <2>1, <3>1, ResultColumnIs
    <3>3. d[2] \in (1 .. Len(Head(Streams[m]))) \ KeyColumns(m)
      <4>1. m \in DOMAIN Streams /\ Streams[m] # <<>>
        BY <1>7a DEF HasKeys
      <4>2. Head(Streams[m]) \in Cells
        BY <4>1, TableIs
      <4> QED BY <2>1, <3>1, <3>2, <4>2, LenProperties DEF Cells
    <3>4. IsPrepared(m)
      BY <1>7a, PreparedIs
    <3>5. PICK i \in 1 .. Len(Origin(m)) : i # KeyPlace(m) /\ Origin(m)[i] = d[2]
      BY <3>3, <3>4 DEF IsPrepared
    <3>6. PICK j \in 1 .. v : q[j] = i
      BY <1>3, <3>2, <3>5
    <3>7. d = c(j)
      BY <3>2, <3>5, <3>6 DEF c
    <3>8. W + j \in 1 .. W + v /\ W + j # K /\ more[W + j] = d
      BY <1>4, <1>11a, <3>7
    <3>9. PICK p \in 1 .. W + v : hdr2[p] = h[q[j]]
      BY <1>5
    <3>10. ColumnName(d) = h[q[j]]
      BY <1>6, <3>7
    <3> QED BY <3>8, <3>9, <3>10
  <2> QED BY <2>2, <2>3
<1>16. K \in 1 .. W + v /\ hdr2[K] = KeyName(1)
  BY <1>1, <1>5, <1>11
<1>17. Len(more) = Len(hdr2)
  BY <1>4, <1>5
<1> QED BY <1>5, <1>12, <1>14, <1>15, <1>16, <1>17 DEF ChainColumns, K, m

-----------------------------------------------------------------------------
\* The command of the n-th join, and its list.
ListOf(w, n) ==
  TrivialColumnList(w, KeyPlace(1))
    \o ColumnList(Head(Prepared(n + 1)), KeyPlace(n + 1),
                  IncludeColumns(Head(Prepared(n + 1)), side.joins[n].columns, 0))

\* The command that joins the n-th stream to rows of w cells.
CommandOf(w, n) ==
  [right |-> KeyPlace(n + 1), pairs |-> Pairs(side.joins[n].type),
   alone |-> Alone(side.joins[n].type), list |-> ListOf(w, n)]

\* Its list: the key, the cells so far, then the columns that are added.
ListFollows(list, w, n) ==
  /\ list \in Seq(Nat \X Nat) /\ Len(list) = w + Len(AddedPlaces(n))
  /\ \A p \in 1 .. w : list[p] = IF p = KeyPlace(1) THEN <<0, 0>> ELSE <<1, p>>
  /\ \A j \in 1 .. Len(AddedPlaces(n)) : list[w + j] = <<2, AddedPlaces(n)[j]>>

\* This is the list that the code prints.
LEMMA ListOfIs ==
  ASSUME JoinInv, AreTables, KeysAgree, NEW n \in 1 .. Len(side.joins), HasKeys(n + 1), NEW w \in Nat,
         NEW list, list = ListOf(w, n)
  PROVE  ListFollows(list, w, n)
<1> DEFINE h == Head(Prepared(n + 1))
           kx == KeyPlace(n + 1)
           columns == side.joins[n].columns
           P == Included(h, columns, 0)
           R == P \ {kx}
           q == AddedPlaces(n)
           v == Len(q)
           t == TrivialColumnList(w, KeyPlace(1))
           u == ColumnList(h, kx, Selected(h, P))
<1>1. h \in Seq(Seq(STRING)) /\ kx \in 1 .. Len(h) /\ \A i, j \in 1 .. Len(h) : h[i] = h[j] => i = j
  BY PreparedHeader
<1>2. q = Numbers(R, Len(h))
  BY DEF AddedPlaces
<1>3. v \in Nat
  BY AddedPlacesAre
<1>4. list = t \o u
  <2>1. IncludeColumns(h, columns, 0) = Selected(h, P)
    BY <1>1, IncludeIs
  <2> QED BY <2>1 DEF ListOf
<1> HIDE DEF h, kx, P, q, t
<1>5. u \in Seq({2} \X Nat) /\ Len(u) = v /\ \A j \in 1 .. v : u[j] = <<2, q[j]>>
  <2> HIDE DEF u, R, v
  <2>1. R = P \ {kx} /\ u = ColumnList(h, kx, Selected(h, P))
    BY DEF R, u
  <2>2. u \in Seq({2} \X Nat) /\ Len(u) = Len(q) /\ \A j \in 1 .. Len(q) : u[j] = <<2, q[j]>>
    <3>1. h \in Seq(Seq(STRING)) /\ DiffersEach(h)
      BY <1>1 DEF DiffersEach
    <3>2. q = Numbers(R, Len(h)) /\ R = P \ {kx} /\ u = ColumnList(h, kx, Selected(h, P))
      BY <1>2, <2>1
    <3>3. NamesPlaces(u, q)
      BY <3>1, <3>2, ColumnListIs
    <3> QED BY <3>3 DEF NamesPlaces
  <2> QED BY <2>2 DEF v
<1> HIDE DEF u, R, v
<1> DEFINE Y == Nat \X Nat
<1>6. t \in Seq(Y) /\ Len(t) = w /\ \A p \in 1 .. w : t[p] = IF p = KeyPlace(1) THEN <<0, 0>> ELSE <<1, p>>
  BY DEF t, TrivialColumnList
<1>7. u \in Seq(Y)
  <2>1. {2} \X Nat \subseteq Y
    OBVIOUS
  <2> HIDE DEF Y
  <2> QED BY <1>5, <2>1, SeqMonotonic
<1> HIDE DEF Y
<1>8. /\ t \o u \in Seq(Y) /\ Len(t \o u) = Len(t) + Len(u)
      /\ \A i \in 1 .. Len(t) + Len(u) : (t \o u)[i] = IF i <= Len(t) THEN t[i] ELSE u[i - Len(t)]
  BY <1>6, <1>7, ConcatProperties
<1>9. list \in Seq(Y) /\ Len(list) = w + v
  BY <1>4, <1>5, <1>6, <1>8
<1>10. \A i \in 1 .. w + v : list[i] = IF i <= w THEN t[i] ELSE u[i - w]
  BY <1>4, <1>5, <1>6, <1>8
<1>11. \A p \in 1 .. w : list[p] = IF p = KeyPlace(1) THEN <<0, 0>> ELSE <<1, p>>
  <2>1. \A p \in 1 .. w : p \in 1 .. w + v /\ p <= w
    BY <1>3
  <2> QED BY <1>6, <1>10, <2>1
<1>12. ASSUME NEW j \in 1 .. v PROVE list[w + j] = <<2, q[j]>>
  <2>1. w + j \in 1 .. w + v /\ ~ (w + j <= w) /\ (w + j) - w = j
    BY <1>3
  <2>2. list[w + j] = u[j]
    BY <1>10, <2>1
  <2> QED BY <1>5, <2>2
<1> QED BY <1>9, <1>11, <1>12 DEF ListFollows, Y, v, q

\* A command more leaves the widths.
WidthsKept(all, cmds, command, n) ==
  /\ Len(all) = n /\ all[n] = command
  /\ \A m \in 1 .. n - 1 : all[m] = cmds[m]
  /\ \A m \in 0 .. n - 1 : Width(all, m) = Width(cmds, m)
  /\ n # 0 => Width(all, n) = Len(command.list)

\* A command more does not change the width of the rows before it.
LEMMA WidthKept ==
  ASSUME NEW cmds, IsSeq(cmds), NEW command, NEW n \in Nat, Len(cmds) = n - 1, NEW all,
         all = Append(cmds, command)
  PROVE  WidthsKept(all, cmds, command, n)
<1> DEFINE X == Range(cmds) \union {command}
<1>1. cmds \in Seq(X) /\ command \in X
  BY SeqMonotonic DEF IsSeq
<1> HIDE DEF X
<1>2. /\ Len(all) = Len(cmds) + 1 /\ all[Len(cmds) + 1] = command
      /\ \A m \in 1 .. Len(cmds) : all[m] = cmds[m]
  BY <1>1, AppendProperties
<1>3. (n - 1) + 1 = n
  OBVIOUS
<1>4. Len(all) = n /\ all[n] = command /\ \A m \in 1 .. n - 1 : all[m] = cmds[m]
  BY <1>2, <1>3
<1>5. ASSUME NEW m \in 0 .. n - 1 PROVE Width(all, m) = Width(cmds, m)
  <2>1. m = 0 \/ m \in 1 .. n - 1
    OBVIOUS
  <2> QED BY <1>4, <2>1 DEF Width
<1>6. n # 0 => Width(all, n) = Len(command.list)
  BY <1>4 DEF Width
<1> QED BY <1>4, <1>5, <1>6 DEF WidthsKept

\* Each command prints the columns up to its stream.
CommandsAre(all, more, n) ==
  /\ Len(all) = n /\ Width(all, n) = Len(more)
  /\ \A m \in 1 .. n : CommandIs(all, more, m)

\* The commands with one stream more.
LEMMA CommandAdded ==
  ASSUME JoinInv, AreTables, KeysAgree, NEW n \in 1 .. Len(side.joins), HasKeys(n + 1), NEW hdr,
         NEW cmds, NEW cols, IsSeq(cmds), Chain(hdr, cmds, cols, n),
         NEW all, all = Append(cmds, CommandOf(Len(hdr), n)),
         NEW more, more = MoreColumns(cols, Len(hdr), n)
  PROVE  CommandsAre(all, more, n)
<1> DEFINE K == KeyPlace(1)
           W == Len(hdr)
           q == AddedPlaces(n)
           v == Len(q)
           c == CommandOf(W, n)
           l == c.list
<1>1. /\ hdr \in Seq(Seq(STRING)) /\ Len(cols) = W /\ K \in 1 .. W
      /\ \A p \in 1 .. W : p # K => cols[p] \in PlainColumns(n)
      /\ Len(cmds) = n - 1 /\ Width(cmds, n - 1) = W
      /\ \A m \in 1 .. n - 1 : CommandIs(cmds, cols, m)
  BY DEF Chain, ChainColumns
<1>2. W \in Nat
  BY <1>1, LenProperties
<1>3. v \in Nat /\ \A j \in 1 .. v : q[j] \in 1 .. Len(Origin(n + 1)) /\ q[j] # KeyPlace(n + 1)
  BY AddedPlacesAre
<1>4. ColumnsFollow(more, cols, W, n)
  BY <1>2, <1>3, MoreColumnsAre
<1>5. ListFollows(l, W, n)
  <2>1. l = ListOf(W, n)
    BY DEF CommandOf
  <2> HIDE DEF l, W
  <2> QED BY <1>2, <2>1, ListOfIs
<1>6. n \in Nat /\ n >= 1
  <2>1. Len(side.joins) \in Nat
    BY StreamsAre
  <2> QED BY <2>1
<1>7. all = Append(cmds, c)
  OBVIOUS
<1>8. c.right = KeyPlace(n + 1) /\ c.pairs = Pairs(side.joins[n].type) /\ c.alone = Alone(side.joins[n].type)
  BY DEF CommandOf
<1> HIDE DEF c, l, W, v, q, K
<1>9. /\ Len(all) = n /\ all[n] = c
      /\ \A m \in 1 .. n - 1 : all[m] = cmds[m]
      /\ \A m \in 0 .. n - 1 : Width(all, m) = Width(cmds, m)
      /\ n # 0 => Width(all, n) = Len(c.list)
  <2>1. WidthsKept(all, cmds, c, n)
    BY <1>1, <1>6, <1>7, WidthKept
  <2> QED BY <2>1 DEF WidthsKept
<1>10. /\ Len(more) = W + v /\ \A p \in 1 .. W : more[p] = cols[p]
       /\ \A j \in 1 .. v : more[W + j] = <<n + 1, Origin(n + 1)[q[j]]>>
       /\ \A p \in 1 .. W + v : p \notin 1 .. W => p - W \in 1 .. v /\ p = W + (p - W) /\ p > W
  BY <1>4 DEF ColumnsFollow, v, q
<1>11. /\ l \in Seq(Nat \X Nat) /\ Len(l) = W + v
       /\ \A p \in 1 .. W : l[p] = IF p = K THEN <<0, 0>> ELSE <<1, p>>
       /\ \A j \in 1 .. v : l[W + j] = <<2, q[j]>>
  BY <1>5 DEF ListFollows, v, q, K
<1>12. Width(all, n) = W + v /\ Width(all, n - 1) = W
  BY <1>1, <1>6, <1>9, <1>11 DEF l
<1>13. CommandIs(all, more, n)
  <2>1. ASSUME NEW p \in 1 .. W, p # K PROVE l[p] = <<1, p>> /\ more[p][1] \in 1 .. n
    <3>1. more[p] \in PlainColumns(n)
      BY <1>1, <1>10, <2>1
    <3>2. more[p] \in ResultColumns /\ more[p][1] <= n
      BY <3>1 DEF PlainColumns
    <3>3. more[p][1] \in 1 .. Len(side.joins) + 1 /\ Len(side.joins) \in Nat
      BY <3>2, ResultColumnIs, StreamsAre
    <3>4. more[p][1] \in 1 .. n
      BY <1>6, <3>2, <3>3
    <3> QED BY <1>11, <2>1, <3>4
  <2>2. ASSUME NEW p \in 1 .. W + v, p > W
        PROVE  \E i \in 1 .. Len(Origin(n + 1)) :
                 i # KeyPlace(n + 1) /\ l[p] = <<2, i>> /\ more[p] = <<n + 1, Origin(n + 1)[i]>>
    <3>1. p \notin 1 .. W
      BY <1>2, <2>2
    <3>2. PICK j \in 1 .. v : p = W + j
      BY <1>10, <3>1
    <3> QED BY <1>3, <1>10, <1>11, <3>2 DEF v, q
  <2>3. W \in 1 .. W + v /\ W + v <= W + v /\ K <= W
    BY <1>1, <1>2, <1>3
  <2>4. l[K] = <<0, 0>>
    BY <1>1, <1>11
  <2> QED BY <1>8, <1>9, <1>10, <1>11, <1>12, <2>1, <2>2, <2>3, <2>4 DEF CommandIs, l, K
<1>14. ASSUME NEW m \in 1 .. n - 1 PROVE CommandIs(all, more, m)
  <2>1. CommandIs(cmds, cols, m) /\ all[m] = cmds[m]
    BY <1>1, <1>9
  <2>2. Width(all, m) = Width(cmds, m) /\ Width(all, m - 1) = Width(cmds, m - 1)
    <3>1. m \in 0 .. n - 1 /\ m - 1 \in 0 .. n - 1
      BY <1>6
    <3> QED BY <1>9, <3>1
  <2> DEFINE a == Width(cmds, m - 1)
             b == Width(cmds, m)
  <2>3. a \in 1 .. b /\ b <= W
    BY <1>1, <2>1 DEF CommandIs
  <2>3a. b \in Nat
    <3>1. cmds[m].list \in Seq(Nat \X Nat)
      BY <2>1 DEF CommandIs
    <3> QED BY <3>1, LenProperties DEF Width
  <2> HIDE DEF a, b
  <2>4. b <= W + v /\ (\A p \in 1 .. a : p \in 1 .. W) /\ (\A p \in 1 .. b : p \in 1 .. W)
    BY <1>2, <1>3, <2>3, <2>3a
  <2>5. /\ \A p \in 1 .. a : more[p] = cols[p]
        /\ \A p \in 1 .. b : more[p] = cols[p]
        /\ b <= Len(more)
    BY <1>10, <2>4
  <2> DEFINE d == cmds[m]
  <2>6. /\ d.right = KeyPlace(m + 1) /\ d.pairs = Pairs(side.joins[m].type)
        /\ d.alone = Alone(side.joins[m].type) /\ d.list \in Seq(Nat \X Nat)
        /\ a \in 1 .. b /\ KeyPlace(1) <= a /\ d.list[KeyPlace(1)] = <<0, 0>>
        /\ \A p \in 1 .. a : p # KeyPlace(1) => d.list[p] = <<1, p>> /\ cols[p][1] \in 1 .. m
        /\ \A p \in 1 .. b :
             p > a =>
               \E i \in 1 .. Len(Origin(m + 1)) :
                 /\ i # KeyPlace(m + 1) /\ d.list[p] = <<2, i>>
                 /\ cols[p] = <<m + 1, Origin(m + 1)[i]>>
    BY <2>1 DEF CommandIs, a, b
  <2> HIDE DEF d
  <2>7. \A p \in 1 .. a : p # KeyPlace(1) => d.list[p] = <<1, p>> /\ more[p][1] \in 1 .. m
    BY <2>5, <2>6
  <2>8. \A p \in 1 .. b :
          p > a =>
            \E i \in 1 .. Len(Origin(m + 1)) :
              /\ i # KeyPlace(m + 1) /\ d.list[p] = <<2, i>>
              /\ more[p] = <<m + 1, Origin(m + 1)[i]>>
    BY <2>5, <2>6
  <2>9. Width(all, m) = b /\ Width(all, m - 1) = a /\ all[m] = d
    BY <2>1, <2>2 DEF a, b, d
  <2> QED BY <2>5, <2>6, <2>7, <2>8, <2>9 DEF CommandIs
<1>15. \A m \in 1 .. n : m = n \/ m \in 1 .. n - 1
  BY <1>6
<1> QED BY <1>9, <1>10, <1>12, <1>13, <1>14, <1>15 DEF CommandsAre

-----------------------------------------------------------------------------
\* The header with the n-th joined stream.
NextHeader(hdr, n) ==
  AddedNames(hdr, IncludeColumns(Head(Prepared(n + 1)), side.joins[n].columns, 0),
             KeyName(n + 1), side.joins[n].node)

\* A node has a name.
LEMMA NodeIs ==
  ASSUME JoinInv, NEW n \in 1 .. Len(side.joins)
  PROVE  side.joins[n].node \in STRING
<1>1. side \in Sides /\ DOMAIN side.joins = 1 .. Len(side.joins)
  BY StreamsAre DEF JoinInv
<1> QED BY <1>1, JoinAssumption

\* Its names are those of the columns that are added.
LEMMA HeaderFollows ==
  ASSUME JoinInv, AreTables, KeysAgree, NEW n \in 1 .. Len(side.joins), HasKeys(n + 1),
         NEW hdr \in Seq(Seq(STRING))
  PROVE  NamesFollow(NextHeader(hdr, n), AddedPlaces(n), hdr, Head(Prepared(n + 1)), side.joins[n].node)
<1> DEFINE h == Head(Prepared(n + 1))
           kx == KeyPlace(n + 1)
           node == side.joins[n].node
           columns == side.joins[n].columns
           P == Included(h, columns, 0)
           R == P \ {kx}
<1>1. /\ h \in Seq(Seq(STRING)) /\ kx \in 1 .. Len(h) /\ h[kx] = KeyName(n + 1)
      /\ \A i, j \in 1 .. Len(h) : h[i] = h[j] => i = j
  BY PreparedHeader
<1>2. node \in STRING
  BY NodeIs
<1>3. AddedPlaces(n) = Numbers(R, Len(h))
  BY DEF AddedPlaces
<1>4. NextHeader(hdr, n) = AddedNames(hdr, Selected(h, P), h[kx], node)
  <2>1. IncludeColumns(h, columns, 0) = Selected(h, P)
    BY <1>1, IncludeIs
  <2>2. NextHeader(hdr, n) = AddedNames(hdr, IncludeColumns(h, columns, 0), h[kx], node)
    BY <1>1 DEF NextHeader
  <2> QED BY <2>1, <2>2
<1>5. R = P \ {kx}
  OBVIOUS
<1> HIDE DEF h, kx, node, P, R
<1>6. NamesFollow(AddedNames(hdr, Selected(h, P), h[kx], node), Numbers(R, Len(h)), hdr, h, node)
  BY <1>1, <1>2, <1>5, NamesAreAdded
<1> QED BY <1>3, <1>4, <1>6 DEF h, node

\* The columns after one join more: with each stream that JoinStream meets, the
\* header and the commands are right for one stream more.
LEMMA ChainNext ==
  ASSUME JoinInv, AreTables, KeysAgree, NamesApart, NEW n \in 1 .. Len(side.joins), HasKeys(n + 1),
         NEW hdr, NEW cmds, NEW cols, IsSeq(cmds), Chain(hdr, cmds, cols, n)
  PROVE  \E more : Chain(NextHeader(hdr, n), Append(cmds, CommandOf(Len(hdr), n)), more, n + 1)
<1> DEFINE W == Len(hdr)
           more == MoreColumns(cols, W, n)
           all == Append(cmds, CommandOf(W, n))
           hdr2 == NextHeader(hdr, n)
           K == KeyPlace(1)
<1>1. /\ ChainColumns(hdr, cols, n) /\ \A m \in 1 .. n : HasKeys(m)
      /\ Len(MainHeader) <= W /\ K \in 1 .. Len(MainHeader)
      /\ \A p \in 1 .. Len(MainHeader) : p # K => cols[p] = <<1, Origin(1)[p]>>
  BY DEF Chain
<1>2. hdr \in Seq(Seq(STRING))
  BY <1>1 DEF ChainColumns
<1>3. W \in Nat /\ Len(MainHeader) \in Nat /\ n \in Nat /\ n >= 1 /\ (n + 1) - 1 = n
  <2>1. Len(side.joins) \in Nat
    BY StreamsAre
  <2>2. W \in Nat
    BY <1>2, LenProperties
  <2>3. HasKeys(1)
    BY <1>1, <2>1
  <2>4. IsPrepared(1)
    BY <2>3, PreparedIs
  <2>5. Len(MainHeader) \in Nat
    <3>1. DOMAIN MainHeader = DOMAIN MainHeader
      OBVIOUS
    <3>2. Head(Prepared(1)) \in Seq(Seq(STRING))
      BY <2>3, PreparedHeader
    <3>3. MainHeader = Selected(Head(Prepared(1)), Included(Head(Prepared(1)), side.columns, KeyPlace(1)))
      BY <3>2, IncludeIs DEF MainHeader
    <3> DEFINE X == Seq(STRING)
               h == Head(Prepared(1))
               P == Included(h, side.columns, KeyPlace(1))
    <3>4. h \in Seq(X)
      BY <3>2
    <3> HIDE DEF X, h, P
    <3>5. Selected(h, P) \in Seq(X)
      BY <3>4, SelectedByNumbers
    <3> QED BY <3>3, <3>5, LenProperties DEF h, P
  <2> QED BY <2>1, <2>2, <2>5
<1>4. HasKeys(1)
  BY <1>1, <1>3
<1>5. NamesFollow(hdr2, AddedPlaces(n), hdr, Head(Prepared(n + 1)), side.joins[n].node)
  BY <1>2, HeaderFollows
<1>6. more = MoreColumns(cols, Len(hdr), n) /\ all = Append(cmds, CommandOf(Len(hdr), n))
  OBVIOUS
<1> HIDE DEF more, all, hdr2
<1>7. ChainColumns(hdr2, more, n + 1)
  BY <1>1, <1>4, <1>5, <1>6, ChainColumnsNext
<1>8. /\ Len(all) = n /\ Width(all, n) = Len(more)
      /\ \A m \in 1 .. n : CommandIs(all, more, m)
  <2>1. CommandsAre(all, more, n)
    BY <1>6, CommandAdded
  <2> QED BY <2>1 DEF CommandsAre
<1>9. ColumnsFollow(more, cols, W, n)
  <2>1. Len(AddedPlaces(n)) \in Nat
    BY AddedPlacesAre
  <2> HIDE DEF W
  <2> QED BY <1>3, <1>6, <2>1, MoreColumnsAre DEF W
<1>10. Len(more) = Len(hdr2)
  BY <1>7 DEF ChainColumns
<1>11. Len(MainHeader) <= Len(hdr2)
  <2>1. Len(more) = W + Len(AddedPlaces(n)) /\ Len(AddedPlaces(n)) \in Nat
    BY <1>9, AddedPlacesAre DEF ColumnsFollow
  <2> HIDE DEF W
  <2> QED BY <1>1, <1>3, <1>10, <2>1
<1>12. \A p \in 1 .. Len(MainHeader) : p # K => more[p] = <<1, Origin(1)[p]>>
  <2>1. \A p \in 1 .. W : more[p] = cols[p]
    BY <1>9 DEF ColumnsFollow
  <2> HIDE DEF W
  <2>2. \A p \in 1 .. Len(MainHeader) : p \in 1 .. W
    BY <1>1, <1>3
  <2> QED BY <1>1, <2>1, <2>2
<1>13. \A m \in 1 .. n + 1 : HasKeys(m)
  <2>1. \A m \in 1 .. n + 1 : m = n + 1 \/ m \in 1 .. n
    BY <1>3
  <2> QED BY <1>1, <2>1
<1>14. Chain(hdr2, all, more, n + 1)
  BY <1>1, <1>3, <1>7, <1>8, <1>10, <1>11, <1>12, <1>13 DEF Chain
<1> QED BY <1>14 DEF hdr2, all

-----------------------------------------------------------------------------
\* A combination of lines of the first n streams.
IsCombination(a, n) ==
  /\ a \in Seq(Nat) /\ Len(a) = n
  /\ \A k \in 1 .. n : a[k] = 0 \/ a[k] \in LinesIn(k)
  /\ \E k \in 1 .. n : a[k] # 0

\* The sets of combinations, with one stream more each time.
CombinationsAre(g) ==
  /\ g[1] = {<<i>> : i \in LinesIn(1)}
  /\ \A n \in 2 .. Len(Streams) : g[n] = WithLinesOf(g[n - 1], n)

\* The combination of one line of the n-th stream and none of the others.
OnlyLine(n, i) == [k \in 1 .. n |-> IF k = n THEN i ELSE 0]

\* No line of any stream.
NoLines(n) == [k \in 1 .. n |-> 0]

\* The first stream that a combination has a line of.
FirstPlace(a) == SelectInSeq(a, LAMBDA i : i # 0)

\* This is what it is.
LEMMA FirstIs ==
  ASSUME NEW a \in Seq(Nat), NEW k \in 1 .. Len(a), a[k] # 0
  PROVE  /\ FirstPlace(a) \in 1 .. Len(a) /\ a[FirstPlace(a)] # 0
         /\ \A j \in 1 .. Len(a) : a[j] # 0 => FirstPlace(a) <= j
<1> DEFINE I == {i \in 1 .. Len(a) : a[i] # 0}
<1>1. FirstPlace(a) = IF I # {} THEN Min(I) ELSE 0
  BY DEF SelectInSeq, FirstPlace
<1>2. Len(a) \in Nat
  BY LenProperties
<1>3. I # {} /\ I \subseteq Nat
  BY <1>2
<1>4. \A i \in I : i \in 1 .. Len(a) /\ a[i] # 0
  OBVIOUS
<1>5. \A j \in 1 .. Len(a) : a[j] # 0 => j \in I
  OBVIOUS
<1> HIDE DEF I
<1>6. Min(I) \in I /\ \A m \in I : Min(I) <= m
  <2>1. \E n \in I : \A m \in I : n <= m
    BY <1>3, LeastNatural
  <2> QED BY <2>1 DEF Min
<1> QED BY <1>1, <1>3, <1>4, <1>5, <1>6

\* There is one first line.
LEMMA FirstOfIs ==
  ASSUME NEW a \in Seq(Nat), NEW k \in 1 .. Len(a), a[k] # 0, \A j \in 1 .. Len(a) : a[j] # 0 => k <= j
  PROVE  FirstPlace(a) = k
<1>1. /\ FirstPlace(a) \in 1 .. Len(a) /\ a[FirstPlace(a)] # 0
      /\ \A j \in 1 .. Len(a) : a[j] # 0 => FirstPlace(a) <= j
  BY FirstIs
<1>2. Len(a) \in Nat
  BY LenProperties
<1>3. FirstPlace(a) <= k /\ k <= FirstPlace(a)
  BY <1>1
<1> QED BY <1>1, <1>2, <1>3

\* The key of a combination is the key of its first line.
LEMMA KeyByFirst ==
  ASSUME NEW a
  PROVE  KeyOfCombination(a) = KeyOf(FirstPlace(a), a[FirstPlace(a)])
BY DEF KeyOfCombination, FirstPlace

\* Lines of later streams do not change the key.
LEMMA KeyOfAppended ==
  ASSUME NEW n \in Nat, NEW a, IsCombination(a, n), NEW b \in Nat
  PROVE  KeyOfCombination(Append(a, b)) = KeyOfCombination(a)
<1> DEFINE c == Append(a, b)
           f == FirstPlace(a)
<1>1. a \in Seq(Nat) /\ Len(a) = n
  BY DEF IsCombination
<1>2. PICK k \in 1 .. Len(a) : a[k] # 0
  BY <1>1 DEF IsCombination
<1>3. /\ f \in 1 .. n /\ a[f] # 0
      /\ \A j \in 1 .. n : a[j] # 0 => f <= j
  BY <1>1, <1>2, FirstIs
<1> HIDE DEF f
<1>4. c \in Seq(Nat) /\ Len(c) = n + 1 /\ c[n + 1] = b /\ \A j \in 1 .. n : c[j] = a[j]
  BY <1>1, AppendProperties
<1> HIDE DEF c
<1>5. f \in 1 .. Len(c) /\ c[f] = a[f]
  BY <1>3, <1>4
<1>6. ASSUME NEW j \in 1 .. Len(c), c[j] # 0 PROVE f <= j
  <2>1. j \in 1 .. n \/ j = n + 1
    BY <1>4
  <2>2. CASE j \in 1 .. n
    BY <1>3, <1>4, <1>6, <2>2
  <2>3. CASE j = n + 1
    BY <1>3, <2>3
  <2> QED BY <2>1, <2>2, <2>3
<1>7. FirstPlace(c) = f
  BY <1>3, <1>4, <1>5, <1>6, FirstOfIs
<1> QED BY <1>5, <1>7, KeyByFirst DEF c, f

\* A line without a partner has its own key.
LEMMA KeyOfOnlyLine ==
  ASSUME NEW n \in Nat \ {0}, NEW i \in Nat, i # 0
  PROVE  /\ OnlyLine(n, i) \in Seq(Nat) /\ Len(OnlyLine(n, i)) = n
         /\ NoLines(n - 1) \in Seq(Nat) /\ Len(NoLines(n - 1)) = n - 1
         /\ OnlyLine(n, i) = Append(NoLines(n - 1), i)
         /\ KeyOfCombination(OnlyLine(n, i)) = KeyOf(n, i)
<1> DEFINE z == OnlyLine(n, i)
           o == NoLines(n - 1)
           c == Append(o, i)
<1>1. z \in Seq(Nat) /\ Len(z) = n /\ \A k \in 1 .. n : z[k] = IF k = n THEN i ELSE 0
  BY DEF OnlyLine
<1>2. o \in Seq(Nat) /\ Len(o) = n - 1 /\ \A k \in 1 .. n - 1 : o[k] = 0
  BY DEF NoLines
<1> HIDE DEF z, o
<1>3. /\ c \in Seq(Nat) /\ Len(c) = n /\ c[n] = i /\ \A k \in 1 .. n - 1 : c[k] = o[k]
  <2>1. (n - 1) + 1 = n
    OBVIOUS
  <2> QED BY <1>2, <2>1, AppendProperties
<1> HIDE DEF c
<1>4. \A k \in 1 .. n : k = n \/ (k # n /\ k \in 1 .. n - 1)
  OBVIOUS
<1>5. \A k \in 1 .. n : z[k] = c[k]
  BY <1>1, <1>2, <1>3, <1>4
<1>6. z = c
  BY <1>1, <1>3, <1>5, SeqEqual
<1>7. FirstPlace(z) = n
  <2>1. n \in 1 .. Len(z) /\ z[n] # 0
    BY <1>1
  <2>2. \A j \in 1 .. Len(z) : z[j] # 0 => n <= j
    BY <1>1
  <2> QED BY <1>1, <2>1, <2>2, FirstOfIs
<1>8. KeyOfCombination(z) = KeyOf(n, i)
  <2>1. z[n] = i
    BY <1>3, <1>6
  <2> QED BY <1>7, <2>1, KeyByFirst
<1> QED BY <1>1, <1>2, <1>6, <1>8 DEF z, o, c

-----------------------------------------------------------------------------
\* The lines of a stream have numbers.
LEMMA LinesInAre ==
  ASSUME JoinInv, NEW n \in DOMAIN Streams
  PROVE  LinesIn(n) \subseteq Nat \ {0} /\ \A i \in LinesIn(n) : i \in 1 .. Len(Streams[n])
<1>1. Streams[n] \in Seq(Cells)
  BY StreamsAre, ElementOfSeq
<1>2. Len(Streams[n]) \in Nat
  BY <1>1, LenProperties
<1> QED BY <1>2 DEF LinesIn

\* A combination with one line more is one of one stream more.
LEMMA CombinationAppended ==
  ASSUME NEW n \in Nat, NEW a, IsCombination(a, n), NEW b \in Nat, b = 0 \/ b \in LinesIn(n + 1)
  PROVE  IsCombination(Append(a, b), n + 1)
<1> DEFINE c == Append(a, b)
<1>1. a \in Seq(Nat) /\ Len(a) = n /\ \A k \in 1 .. n : a[k] = 0 \/ a[k] \in LinesIn(k)
  BY DEF IsCombination
<1>2. PICK k \in 1 .. n : a[k] # 0
  BY DEF IsCombination
<1>3. c \in Seq(Nat) /\ Len(c) = n + 1 /\ c[n + 1] = b /\ \A j \in 1 .. n : c[j] = a[j]
  BY <1>1, AppendProperties
<1> HIDE DEF c
<1>4. \A j \in 1 .. n + 1 : j \in 1 .. n \/ j = n + 1
  OBVIOUS
<1>5. \A j \in 1 .. n + 1 : c[j] = 0 \/ c[j] \in LinesIn(j)
  BY <1>1, <1>3, <1>4
<1>6. k \in 1 .. n + 1 /\ c[k] # 0
  BY <1>2, <1>3
<1> QED BY <1>3, <1>5, <1>6 DEF IsCombination, c

\* One line alone is a combination.
LEMMA OnlyLineIsCombination ==
  ASSUME NEW n \in Nat \ {0}, NEW i \in Nat, i # 0, i \in LinesIn(n)
  PROVE  IsCombination(OnlyLine(n, i), n)
<1> DEFINE z == OnlyLine(n, i)
<1>1. z \in Seq(Nat) /\ Len(z) = n
  BY KeyOfOnlyLine
<1>2. \A k \in 1 .. n : z[k] = IF k = n THEN i ELSE 0
  BY DEF OnlyLine
<1>3. n \in 1 .. n
  OBVIOUS
<1> HIDE DEF z
<1> QED BY <1>1, <1>2, <1>3 DEF IsCombination, z

\* How WithLinesOf adds the lines of a stream to combinations of lines.
Added(cs, n) ==
  LET matched == {m \in cs \X LinesIn(n) : KeyOfCombination(m[1]) = KeyOf(n, m[2])}
      left == {c \in cs : \A m \in matched : m[1] # c}
      right == {i \in LinesIn(n) : \A m \in matched : m[2] # i}
  IN  [matched |-> matched, left |-> left, right |-> right]

\* The three parts that WithLinesOf puts together.
LEMMA WithLinesAre ==
  ASSUME NEW cs, NEW n
  PROVE  WithLinesOf(cs, n) =
           (IF Pairs(side.joins[n - 1].type)
              THEN {Append(m[1], m[2]) : m \in Added(cs, n).matched} ELSE {})
             \union (IF 1 \in Alone(side.joins[n - 1].type)
                       THEN {Append(c, 0) : c \in Added(cs, n).left} ELSE {})
             \union (IF 2 \in Alone(side.joins[n - 1].type)
                       THEN {OnlyLine(n, i) : i \in Added(cs, n).right} ELSE {})
BY DEF WithLinesOf, Added, OnlyLine

\* Combinations of n streams.
AreCombinations(cs, n) == \A a \in cs : IsCombination(a, n)

\* The pairs and the lines alone are some of those that there are.
LEMMA AddedAre ==
  ASSUME NEW cs, NEW n
  PROVE  /\ Added(cs, n).matched \subseteq cs \X LinesIn(n)
         /\ Added(cs, n).left \subseteq cs /\ Added(cs, n).right \subseteq LinesIn(n)
BY DEF Added

\* Combinations with the lines of the next stream are combinations.
LEMMA WithLinesAreCombinations ==
  ASSUME JoinInv, NEW n \in Nat \ {0}, n + 1 \in DOMAIN Streams, NEW cs, AreCombinations(cs, n)
  PROVE  AreCombinations(WithLinesOf(cs, n + 1), n + 1)
<1> DEFINE m == n + 1
<1>1. LinesIn(m) \subseteq Nat \ {0}
  BY LinesInAre
<1>2. m \in Nat \ {0}
  OBVIOUS
<1>3. /\ Added(cs, m).matched \subseteq cs \X LinesIn(m)
      /\ Added(cs, m).left \subseteq cs /\ Added(cs, m).right \subseteq LinesIn(m)
  BY AddedAre
<1>4. \A a \in cs, b \in LinesIn(m) : IsCombination(Append(a, b), m)
  BY <1>1, CombinationAppended DEF AreCombinations
<1>5. \A a \in cs : IsCombination(Append(a, 0), m)
  BY CombinationAppended DEF AreCombinations
<1> HIDE DEF m
<1>6. \A i \in LinesIn(m) : IsCombination(OnlyLine(m, i), m)
  BY <1>1, <1>2, OnlyLineIsCombination
<1>7. \A c \in WithLinesOf(cs, m) :
        \/ \E x \in Added(cs, m).matched : c = Append(x[1], x[2])
        \/ \E a \in Added(cs, m).left : c = Append(a, 0)
        \/ \E i \in Added(cs, m).right : c = OnlyLine(m, i)
  BY WithLinesAre
<1>8. ASSUME NEW c \in WithLinesOf(cs, m) PROVE IsCombination(c, m)
  <2>1. CASE \E x \in Added(cs, m).matched : c = Append(x[1], x[2])
    <3>1. PICK x \in Added(cs, m).matched : c = Append(x[1], x[2])
      BY <2>1
    <3>2. x \in cs \X LinesIn(m)
      BY <1>3
    <3>3. x[1] \in cs /\ x[2] \in LinesIn(m)
      BY <3>2
    <3> QED BY <1>4, <3>1, <3>3
  <2>2. CASE \E a \in Added(cs, m).left : c = Append(a, 0)
    BY <1>3, <1>5, <2>2
  <2>3. CASE \E i \in Added(cs, m).right : c = OnlyLine(m, i)
    BY <1>3, <1>6, <2>3
  <2> QED BY <1>7, <2>1, <2>2, <2>3
<1> QED BY <1>8 DEF AreCombinations, m

\* Combinations is the last of the sets that grow stream by stream.
LEMMA CombinationSteps ==
  ASSUME JoinInv
  PROVE  \E g : CombinationsAre(g) /\ Combinations = g[Len(Streams)]
<1> DEFINE L == Len(Streams)
           A == {<<i>> : i \in LinesIn(1)}
           N == L - 1
           S == SUBSET Seq(Nat)
           F == [n \in 1 .. N |-> [x \in S |-> WithLinesOf(x, n + 1)]]
           C(h) == h = [n \in 1 .. L |-> IF n = 1 THEN A ELSE WithLinesOf(h[n - 1], n)]
           f == CHOOSE h : C(h)
<1>1. L \in Nat /\ L >= 1 /\ N \in Nat /\ DOMAIN Streams = 1 .. L
  BY StreamsAre
<1>2. Combinations = f[L]
  BY Zenon DEF Combinations
<1> HIDE DEF L
<1>3. \A n \in 1 .. L : LinesIn(n) \subseteq Nat \ {0}
  BY <1>1, LinesInAre
<1>4. A \in S
  <2>1. LinesIn(1) \subseteq Nat
    BY <1>1, <1>3
  <2>2. \A i \in LinesIn(1) : <<i>> \in Seq(Nat)
    BY <2>1
  <2> QED BY <2>2
<1>5. ASSUME NEW n \in 1 .. N, NEW x \in S PROVE WithLinesOf(x, n + 1) \in S
  <2> DEFINE m == n + 1
  <2>1. m \in 1 .. L /\ m \in Nat \ {0}
    BY <1>1
  <2> HIDE DEF m
  <2>2. LinesIn(m) \subseteq Nat \ {0}
    BY <1>3, <2>1
  <2>3. /\ Added(x, m).matched \subseteq x \X LinesIn(m)
        /\ Added(x, m).left \subseteq x /\ Added(x, m).right \subseteq LinesIn(m)
    BY AddedAre
  <2>4. \A c \in WithLinesOf(x, m) :
          \/ \E y \in Added(x, m).matched : c = Append(y[1], y[2])
          \/ \E a \in Added(x, m).left : c = Append(a, 0)
          \/ \E i \in Added(x, m).right : c = OnlyLine(m, i)
    BY WithLinesAre
  <2>5. ASSUME NEW c \in WithLinesOf(x, m) PROVE c \in Seq(Nat)
    <3>1. CASE \E y \in Added(x, m).matched : c = Append(y[1], y[2])
      <4>1. PICK y \in Added(x, m).matched : c = Append(y[1], y[2])
        BY <3>1
      <4>2. y \in x \X LinesIn(m)
        BY <2>3
      <4>3. y[1] \in Seq(Nat) /\ y[2] \in Nat
        BY <2>2, <4>2
      <4> QED BY <4>1, <4>3, AppendProperties
    <3>2. CASE \E a \in Added(x, m).left : c = Append(a, 0)
      <4>1. PICK a \in Added(x, m).left : c = Append(a, 0)
        BY <3>2
      <4>2. a \in Seq(Nat) /\ 0 \in Nat
        BY <2>3
      <4> QED BY <4>1, <4>2, AppendProperties
    <3>3. CASE \E i \in Added(x, m).right : c = OnlyLine(m, i)
      BY <2>1, <2>2, <2>3, <3>3, KeyOfOnlyLine
    <3> QED BY <2>4, <3>1, <3>2, <3>3
  <2> QED BY <2>5 DEF m
<1> HIDE DEF A
<1>6. F \in [1 .. N -> [S -> S]] /\ \A n \in 1 .. N, x \in S : F[n][x] = WithLinesOf(x, n + 1)
  <2> HIDE DEF S, N
  <2> QED BY <1>5
<1> HIDE DEF F, S
<1>7. PICK g : IteratesUpto(g, N, A, F, S)
  <2> HIDE DEF N
  <2> QED BY <1>1, <1>4, <1>6, FiniteRecursion
<1>8. g \in [0 .. N -> S] /\ \A n \in 0 .. N : g[n] = IF n = 0 THEN A ELSE F[n][g[n - 1]]
  BY <1>7 DEF IteratesUpto
<1> DEFINE h == [n \in 1 .. L |-> g[n - 1]]
<1>9. \A n \in 1 .. L : h[n] = IF n = 1 THEN A ELSE WithLinesOf(h[n - 1], n)
  <2> SUFFICES ASSUME NEW n \in 1 .. L PROVE h[n] = IF n = 1 THEN A ELSE WithLinesOf(h[n - 1], n)
    OBVIOUS
  <2>1. CASE n = 1
    <3>1. 0 \in 0 .. N /\ 1 \in 1 .. L /\ 1 - 1 = 0
      BY <1>1
    <3>2. h[1] = g[0]
      BY <3>1
    <3> QED BY <1>8, <2>1, <3>1, <3>2
  <2>2. CASE n # 1
    <3>1. n - 1 \in 1 .. N /\ n - 1 \in 0 .. N /\ n - 1 # 0 /\ n - 1 \in 1 .. L /\ (n - 1) + 1 = n
          /\ (n - 1) - 1 \in 0 .. N
      BY <1>1, <2>2
    <3>2. h[n] = g[n - 1] /\ h[n - 1] = g[(n - 1) - 1]
      BY <3>1
    <3>3. g[n - 1] = F[n - 1][g[(n - 1) - 1]] /\ g[(n - 1) - 1] \in S
      BY <1>8, <3>1
    <3>4. g[n - 1] = WithLinesOf(g[(n - 1) - 1], n)
      BY <1>6, <3>1, <3>3
    <3> QED BY <2>2, <3>2, <3>4
  <2> QED BY <2>1, <2>2
<1>10. C(h)
  <2>1. h = [n \in 1 .. L |-> h[n]]
    OBVIOUS
  <2> QED BY <1>9, <2>1
<1>11. C(f)
  <2> HIDE DEF C
  <2> QED BY <1>10
<1>12. \A n \in 1 .. L : f[n] = IF n = 1 THEN A ELSE WithLinesOf(f[n - 1], n)
  <2> HIDE DEF f
  <2> QED BY <1>11
<1> HIDE DEF f, C, h
<1>13. f[1] = A
  BY <1>1, <1>12
<1>14. \A n \in 2 .. L : f[n] = WithLinesOf(f[n - 1], n)
  <2>1. \A n \in 2 .. L : n \in 1 .. L /\ n # 1
    BY <1>1
  <2> QED BY <1>12, <2>1
<1>15. CombinationsAre(f)
  BY <1>13, <1>14 DEF CombinationsAre, A, L
<1> QED BY <1>2, <1>15 DEF L

-----------------------------------------------------------------------------
\* A key that a line of a stream has.
IsKeyOf(key) ==
  \E n \in DOMAIN Streams : HasKeys(n) /\ \E i \in 1 .. Len(Streams[n]) : key = KeyOf(n, i)

\* What the key of a line is, and that one cell says all of it.
LEMMA KeyIsCells ==
  ASSUME JoinInv, AreTables, KeysAgree, NEW key, IsKeyOf(key)
  PROVE  /\ key \in Seq(Seq(STRING)) /\ Len(key) = Len(side.key) /\ Len(side.key) \in Nat \ {0}
         /\ MultiKey => \A k \in 1 .. Len(key) : Len(key[k]) = 1
         /\ ~ MultiKey => key = <<FlattenSeq(key)>>
         /\ FlattenSeq(key) \in Seq(STRING)
<1>1. PICK n \in DOMAIN Streams : HasKeys(n) /\ \E i \in 1 .. Len(Streams[n]) : key = KeyOf(n, i)
  BY DEF IsKeyOf
<1>2. PICK i \in 1 .. Len(Streams[n]) : key = KeyOf(n, i)
  BY <1>1
<1>3. key \in Seq(Seq(STRING)) /\ Len(key) = Len(side.key) /\ Len(side.key) \in Nat \ {0}
  BY <1>1, <1>2, PlacesAre DEF Cells
<1>4. ASSUME MultiKey PROVE \A k \in 1 .. Len(key) : Len(key[k]) = 1
  <2>1. DOMAIN Streams[n] = 1 .. Len(Streams[n])
    <3>1. Streams[n] \in Seq(Cells)
      BY StreamsAre, ElementOfSeq
    <3> QED BY <3>1, LenProperties
  <2>2. \A cell \in Range(key) : Len(cell) = 1
    BY <1>2, <1>4, <2>1 DEF KeysAgree, MultiKey
  <2>3. \A k \in 1 .. Len(key) : key[k] \in Range(key)
    BY <1>3, LenProperties DEF Range
  <2> QED BY <2>2, <2>3
<1>5. ASSUME ~ MultiKey PROVE key = <<FlattenSeq(key)>>
  <2>1. Len(key) = 1
    <3>1. \A x \in Nat \ {0} : ~ (x > 1) => x = 1
      OBVIOUS
    <3>2. ~ (Len(side.key) > 1)
      BY <1>5 DEF MultiKey
    <3> QED BY <1>3, <3>1, <3>2
  <2>2. key = <<key[1]>> /\ key[1] \in Seq(STRING)
    BY <1>3, <2>1, SingleIs
  <2>3. FlattenSeq(<<key[1]>>) = key[1]
    BY <2>2, FlattenSeqOne
  <2> QED BY <2>2, <2>3
<1>6. FlattenSeq(key) \in Seq(STRING)
  BY <1>3, FlattenSeqType
<1> QED BY <1>3, <1>4, <1>5, <1>6

\* Keys are the same when they are the same in one cell.
LEMMA KeysInOneCell ==
  ASSUME JoinInv, AreTables, KeysAgree, NEW x, IsKeyOf(x), NEW y, IsKeyOf(y),
         FlattenSeq(x) = FlattenSeq(y)
  PROVE  x = y
<1>1. CASE ~ MultiKey
  <2>1. x = <<FlattenSeq(x)>> /\ y = <<FlattenSeq(y)>>
    BY <1>1, KeyIsCells
  <2> QED BY <2>1
<1>2. CASE MultiKey
  <2>1. /\ x \in Seq(Seq(STRING)) /\ \A k \in 1 .. Len(x) : Len(x[k]) = 1
        /\ y \in Seq(Seq(STRING)) /\ \A k \in 1 .. Len(y) : Len(y[k]) = 1
        /\ Len(x) = Len(y)
    BY <1>2, KeyIsCells
  <2>2. \A k \in 1 .. Len(x) : <<FlattenSeq(x)[k]>> = x[k]
    BY <2>1, FlattenSingles
  <2>3. \A k \in 1 .. Len(y) : <<FlattenSeq(y)[k]>> = y[k]
    BY <2>1, FlattenSingles
  <2>4. \A k \in 1 .. Len(x) : x[k] = y[k]
    BY <2>1, <2>2, <2>3
  <2> DEFINE X == Seq(STRING)
  <2>5. x \in Seq(X) /\ y \in Seq(X)
    BY <2>1
  <2> HIDE DEF X
  <2> QED BY <2>1, <2>4, <2>5, SeqEqual
<1> QED BY <1>1, <1>2

\* The key of a combination is one of a line of its first stream.
LEMMA CombinationHasKey ==
  ASSUME JoinInv, NEW n \in 1 .. Len(Streams), \A k \in 1 .. n : HasKeys(k),
         NEW a, IsCombination(a, n)
  PROVE  IsKeyOf(KeyOfCombination(a))
<1> DEFINE f == FirstPlace(a)
<1>1. a \in Seq(Nat) /\ Len(a) = n /\ \A k \in 1 .. n : a[k] = 0 \/ a[k] \in LinesIn(k)
  BY DEF IsCombination
<1>2. PICK k \in 1 .. Len(a) : a[k] # 0
  BY <1>1 DEF IsCombination
<1>3. f \in 1 .. n /\ a[f] # 0
  BY <1>1, <1>2, FirstIs
<1> HIDE DEF f
<1>4. HasKeys(f) /\ a[f] \in LinesIn(f) /\ f \in DOMAIN Streams
  <2>1. HasKeys(f)
    BY <1>3
  <2> QED BY <1>1, <1>3, <2>1 DEF HasKeys
<1>5. a[f] \in 1 .. Len(Streams[f])
  BY <1>4, LinesInAre
<1>6. KeyOfCombination(a) = KeyOf(f, a[f])
  BY KeyByFirst DEF f
<1> QED BY <1>4, <1>5, <1>6 DEF IsKeyOf

\* A join d adds lines of the stream n + 1 to the combinations cs.
JoinsCombinations(d, cs, n) ==
  /\ d.lefts = cs /\ d.rights = LinesIn(n + 1)
  /\ d.noLeft = NoLines(n) /\ d.noRight = 0
  /\ d.pairs = Pairs(side.joins[n].type) /\ d.alone = Alone(side.joins[n].type)
  /\ \A a \in cs, b \in LinesIn(n + 1) :
       LeftKey(d, a) = RightKey(d, b) <=> KeyOfCombination(a) = KeyOf(n + 1, b)

\* A pair as a combination.
AppendedPairs(d) == [m \in JoinedPairs(d) |-> Append(m[1], m[2])]

\* What the pairs of a join with the next stream are.
LEMMA JoinedPairsAre ==
  ASSUME NEW n, NEW cs, NEW d, JoinsCombinations(d, cs, n)
  PROVE  \A m \in JoinedPairs(d) :
           /\ m = <<m[1], m[2]>>
           /\ \/ m[1] \in cs /\ m[2] \in LinesIn(n + 1)
              \/ m[1] \in cs /\ m[2] = 0
              \/ m[1] = NoLines(n) /\ m[2] \in LinesIn(n + 1)
BY DEF JoinedPairs, JoinsCombinations, Matched, LeftAlone, RightAlone

\* WithLinesOf are these pairs as combinations.
LEMMA WithLinesOfPairs ==
  ASSUME NEW n \in Nat \ {0}, NEW cs, NEW d, JoinsCombinations(d, cs, n), LinesIn(n + 1) \subseteq Nat \ {0}
  PROVE  WithLinesOf(cs, n + 1) = {Append(m[1], m[2]) : m \in JoinedPairs(d)}
<1> DEFINE m == n + 1
           A == Added(cs, m)
           type == side.joins[n].type
<1>1. m - 1 = n /\ m \in Nat \ {0}
  OBVIOUS
<1>2. A.matched = Matched(d)
  BY DEF Added, Matched, JoinsCombinations
<1>3. A.left = LeftAlone(d)
  <2>1. ASSUME NEW c \in cs
        PROVE  (\A x \in Matched(d) : x[1] # c) <=> \A b \in d.rights : LeftKey(d, c) # RightKey(d, b)
    <3>1. \A b \in d.rights : LeftKey(d, c) = RightKey(d, b) => <<c, b>> \in Matched(d)
      BY DEF Matched, JoinsCombinations
    <3>2. \A x \in Matched(d) : x[1] = c => x[2] \in d.rights /\ LeftKey(d, c) = RightKey(d, x[2])
      BY DEF Matched
    <3> QED BY <3>1, <3>2
  <2>2. A.left = {c \in cs : \A x \in A.matched : x[1] # c}
    BY DEF Added
  <2>3. d.lefts = cs
    BY DEF JoinsCombinations
  <2> HIDE DEF A
  <2> QED BY <1>2, <2>1, <2>2, <2>3 DEF LeftAlone
<1>4. A.right = RightAlone(d)
  <2>1. ASSUME NEW b \in d.rights
        PROVE  (\A x \in Matched(d) : x[2] # b) <=> \A a \in d.lefts : LeftKey(d, a) # RightKey(d, b)
    <3>1. \A a \in d.lefts : LeftKey(d, a) = RightKey(d, b) => <<a, b>> \in Matched(d)
      BY DEF Matched
    <3>2. \A x \in Matched(d) : x[2] = b => x[1] \in d.lefts /\ LeftKey(d, x[1]) = RightKey(d, b)
      BY DEF Matched
    <3> QED BY <3>1, <3>2
  <2>2. A.right = {i \in LinesIn(m) : \A x \in A.matched : x[2] # i}
    BY DEF Added
  <2>3. d.rights = LinesIn(m)
    BY DEF JoinsCombinations
  <2> HIDE DEF A, m
  <2> QED BY <1>2, <2>1, <2>2, <2>3 DEF RightAlone
<1>5. d.pairs = Pairs(type) /\ d.alone = Alone(type) /\ d.noLeft = NoLines(n) /\ d.noRight = 0
  BY DEF JoinsCombinations
<1>6. \A i \in RightAlone(d) : OnlyLine(m, i) = Append(NoLines(n), i)
  <2>1. \A i \in RightAlone(d) : i \in Nat /\ i # 0
    BY DEF RightAlone, JoinsCombinations
  <2> HIDE DEF m
  <2> QED BY <1>1, <2>1, KeyOfOnlyLine
<1>7. WithLinesOf(cs, m) =
        (IF Pairs(type) THEN {Append(x[1], x[2]) : x \in Matched(d)} ELSE {})
          \union (IF 1 \in Alone(type) THEN {Append(c, 0) : c \in LeftAlone(d)} ELSE {})
          \union (IF 2 \in Alone(type) THEN {OnlyLine(m, i) : i \in RightAlone(d)} ELSE {})
  <2> HIDE DEF m
  <2> QED BY <1>1, <1>2, <1>3, <1>4, WithLinesAre DEF A, type
<1> HIDE DEF m, A, type
<1>8. JoinedPairs(d) =
        (IF Pairs(type) THEN Matched(d) ELSE {})
          \union (IF 1 \in Alone(type) THEN LeftAlone(d) \X {0} ELSE {})
          \union (IF 2 \in Alone(type) THEN {NoLines(n)} \X RightAlone(d) ELSE {})
  BY <1>5 DEF JoinedPairs
<1>9. ASSUME NEW c \in WithLinesOf(cs, m) PROVE \E x \in JoinedPairs(d) : c = Append(x[1], x[2])
  <2>1. CASE Pairs(type) /\ \E x \in Matched(d) : c = Append(x[1], x[2])
    BY <1>8, <2>1
  <2>2. CASE 1 \in Alone(type) /\ \E a \in LeftAlone(d) : c = Append(a, 0)
    <3>1. PICK a \in LeftAlone(d) : c = Append(a, 0)
      BY <2>2
    <3>2. <<a, 0>> \in JoinedPairs(d)
      BY <1>8, <2>2
    <3> QED BY <3>1, <3>2
  <2>3. CASE 2 \in Alone(type) /\ \E i \in RightAlone(d) : c = OnlyLine(m, i)
    <3>1. PICK i \in RightAlone(d) : c = Append(NoLines(n), i)
      BY <1>6, <2>3
    <3>2. <<NoLines(n), i>> \in JoinedPairs(d)
      BY <1>8, <2>3
    <3> QED BY <3>1, <3>2
  <2> QED BY <1>7, <2>1, <2>2, <2>3
<1>10. ASSUME NEW x \in JoinedPairs(d) PROVE Append(x[1], x[2]) \in WithLinesOf(cs, m)
  <2>1. CASE Pairs(type) /\ x \in Matched(d)
    BY <1>7, <2>1
  <2>2. CASE 1 \in Alone(type) /\ x \in LeftAlone(d) \X {0}
    <3>1. x[1] \in LeftAlone(d) /\ x[2] = 0
      BY <2>2
    <3> QED BY <1>7, <2>2, <3>1
  <2>3. CASE 2 \in Alone(type) /\ x \in {NoLines(n)} \X RightAlone(d)
    <3>1. x[1] = NoLines(n) /\ x[2] \in RightAlone(d)
      BY <2>3
    <3> QED BY <1>6, <1>7, <2>3, <3>1
  <2> QED BY <1>8, <2>1, <2>2, <2>3
<1> QED BY <1>9, <1>10 DEF m

\* What the same comes out of was the same.
LEMMA AppendedAlike ==
  ASSUME NEW s \in Seq(Nat), NEW t \in Seq(Nat), NEW e \in Nat, NEW f \in Nat,
         Append(s, e) = Append(t, f)
  PROVE  s = t /\ e = f
<1>1. Append(s, e) = Append(t, f) <=> s = t /\ e = f
  BY AppendInjective
<1> QED BY <1>1

\* Every combination with the next stream is that of one pair.
LEMMA PairsAreCombinations ==
  ASSUME JoinInv, NEW n \in Nat \ {0}, n + 1 \in DOMAIN Streams, NEW cs, AreCombinations(cs, n),
         NEW d, JoinsCombinations(d, cs, n)
  PROVE  IsOneToOne(AppendedPairs(d), JoinedPairs(d), WithLinesOf(cs, n + 1))
<1> DEFINE S == JoinedPairs(d)
           T == WithLinesOf(cs, n + 1)
           b == AppendedPairs(d)
<1>1. LinesIn(n + 1) \subseteq Nat \ {0}
  BY LinesInAre
<1>2. T = {Append(m[1], m[2]) : m \in S}
  BY <1>1, WithLinesOfPairs
<1>3. \A x \in S : x = <<x[1], x[2]>> /\ x[1] \in Seq(Nat) /\ x[2] \in Nat
  <2>1. NoLines(n) \in Seq(Nat)
    BY DEF NoLines
  <2>2. \A a \in cs : a \in Seq(Nat)
    BY DEF AreCombinations, IsCombination
  <2>3. \A x \in S :
          /\ x = <<x[1], x[2]>>
          /\ \/ x[1] \in cs /\ x[2] \in LinesIn(n + 1)
             \/ x[1] \in cs /\ x[2] = 0
             \/ x[1] = NoLines(n) /\ x[2] \in LinesIn(n + 1)
    BY JoinedPairsAre
  <2> QED BY <1>1, <2>1, <2>2, <2>3
<1>4. \A x \in S : b[x] = Append(x[1], x[2])
  BY DEF AppendedPairs
<1>5. b \in [S -> T]
  <2>1. b = [m \in S |-> Append(m[1], m[2])]
    BY DEF AppendedPairs
  <2> HIDE DEF S, T, b
  <2> QED BY <1>2, <2>1
<1> HIDE DEF S, T, b
<1>6. ASSUME NEW x \in S, NEW y \in S, b[x] = b[y] PROVE x = y
  <2>1. Append(x[1], x[2]) = Append(y[1], y[2])
    BY <1>4, <1>6
  <2>2. x[1] \in Seq(Nat) /\ x[2] \in Nat /\ y[1] \in Seq(Nat) /\ y[2] \in Nat
    BY <1>3
  <2>3. x[1] = y[1] /\ x[2] = y[2]
    <3> DEFINE s == x[1]
               e == x[2]
               t == y[1]
               f == y[2]
    <3>1. s \in Seq(Nat) /\ e \in Nat /\ t \in Seq(Nat) /\ f \in Nat /\ Append(s, e) = Append(t, f)
      BY <2>1, <2>2
    <3> HIDE DEF s, e, t, f
    <3>2. s = t /\ e = f
      BY <3>1, AppendedAlike
    <3> QED BY <3>2 DEF s, e, t, f
  <2> QED BY <1>3, <2>3
<1>7. \A z \in T : \E x \in S : b[x] = z
  BY <1>2, <1>4
<1> QED BY <1>5, <1>6, <1>7 DEF IsOneToOne, S, T, b

-----------------------------------------------------------------------------
\* The cell of a combination in the column p, while the streams are joined.
ValueAt(cols, a, p) ==
  IF p = KeyPlace(1) THEN FlattenSeq(KeyOfCombination(a))
  ELSE IF a[cols[p][1]] = 0 THEN <<>> ELSE Streams[cols[p][1]][a[cols[p][1]]][cols[p][2]]

\* The rows are the lines F[a] of the combinations cs, and have w cells each.
RowsAre(rows, F, cs, cols, w) ==
  /\ IsSeq(rows) /\ Lists(rows, F, cs)
  /\ \A a \in cs, p \in 1 .. w : CellAt(F[a], p) = ValueAt(cols, a, p)

\* A line of a prepared stream.
LEMMA PreparedCells ==
  ASSUME JoinInv, AreTables, KeysAgree, NEW n, HasKeys(n), NEW i \in 1 .. Len(Streams[n]),
         NEW q \in 1 .. Len(Origin(n))
  PROVE  CellAt(Prepared(n)[i], q)
           = IF q = KeyPlace(n) THEN FlattenSeq(KeyOf(n, i)) ELSE Streams[n][i][Origin(n)[q]]
<1>1. IsPrepared(n)
  BY PreparedIs
<1>2. /\ Len(Prepared(n)[i]) = Len(Origin(n))
      /\ Prepared(n)[i][KeyPlace(n)] = FlattenSeq(KeyOf(n, i))
      /\ q # KeyPlace(n) => Prepared(n)[i][q] = Streams[n][i][Origin(n)[q]]
      /\ Prepared(n) \in Seq(Cells) /\ Len(Prepared(n)) = Len(Streams[n])
  BY <1>1 DEF IsPrepared
<1>3. Prepared(n)[i] \in Cells
  BY <1>2, ElementOfSeq
<1>4. DOMAIN Prepared(n)[i] = 1 .. Len(Origin(n))
  BY <1>2, <1>3, LenProperties DEF Cells
<1> QED BY <1>2, <1>4 DEF CellAt

\* What is sorted into the file of a stream.
PreparedLines(n) == Sorted(Tail(Prepared(n)), KeyPlace(n))

\* The sorted lines of a stream, as they are in its file, list its lines.
LEMMA PreparedLinesAre ==
  ASSUME JoinInv, AreTables, KeysAgree, NEW n, HasKeys(n)
  PROVE  PreparedLines(n) \in Seq(Cells) /\ Lists(PreparedLines(n), Prepared(n), LinesIn(n))
<1>1. /\ Prepared(n) \in Seq(Cells) /\ Len(Prepared(n)) = Len(Streams[n])
      /\ Len(Streams[n]) \in Nat \ {0}
  BY PreparedHeader
<1>2. Prepared(n) # <<>>
  BY <1>1
<1>3. Tail(Prepared(n)) \in Seq(Cells) /\ Lists(Tail(Prepared(n)), Prepared(n), 2 .. Len(Prepared(n)))
  BY <1>1, <1>2, ListsTail
<1>4. LinesIn(n) = 2 .. Len(Prepared(n))
  BY <1>1 DEF LinesIn
<1> QED BY <1>3, <1>4, ListsSorted DEF PreparedLines

\* The rows before the first join are the lines of the main stream.
LEMMA RowsFirst ==
  ASSUME JoinInv, AreTables, KeysAgree, KeepsAPrefix, NEW hdr, NEW cmds, NEW cols, NEW n \in Nat,
         n >= 1, Chain(hdr, cmds, cols, n), NEW g, CombinationsAre(g)
  PROVE  \E F : RowsAre(PreparedLines(1), F, g[1], cols, Width(cmds, 0))
<1> DEFINE K == KeyPlace(1)
           M == Len(MainHeader)
           b == [i \in LinesIn(1) |-> <<i>>]
           F == [a \in g[1] |-> Prepared(1)[a[1]]]
           rows == PreparedLines(1)
<1>1. HasKeys(1) /\ \A p \in 1 .. M : p # K => cols[p] = <<1, Origin(1)[p]>>
  BY DEF Chain
<1>2. M \in 1 .. Len(Origin(1)) /\ Len(Origin(1)) \in Nat
  BY <1>1, MainHeaderIs, PreparedHeader
<1>3. rows \in Seq(Cells) /\ Lists(rows, Prepared(1), LinesIn(1))
  BY <1>1, PreparedLinesAre
<1>4. g[1] = {<<i>> : i \in LinesIn(1)}
  BY DEF CombinationsAre
<1>5. 1 \in DOMAIN Streams
  BY <1>1 DEF HasKeys
<1>6. LinesIn(1) \subseteq Nat \ {0} /\ \A i \in LinesIn(1) : i \in 1 .. Len(Streams[1])
  BY <1>5, LinesInAre
<1> HIDE DEF M, K, rows
<1>7. IsOneToOne(b, LinesIn(1), g[1])
  BY <1>4 DEF IsOneToOne
<1>8. Renames(b, Prepared(1), F, LinesIn(1))
  <2>1. \A i \in LinesIn(1) : b[i] \in g[1] /\ b[i][1] = i
    BY <1>4
  <2> HIDE DEF b
  <2> QED BY <2>1 DEF Renames
<1> HIDE DEF b
<1>9. \A a \in g[1] : F[a] = Prepared(1)[a[1]]
  OBVIOUS
<1> HIDE DEF F
<1>10. Lists(rows, F, g[1])
  BY <1>3, <1>7, <1>8, ListsMapped
<1>11. ASSUME NEW a \in g[1], NEW p \in 1 .. M PROVE CellAt(F[a], p) = ValueAt(cols, a, p)
  <2>1. PICK i \in LinesIn(1) : a = <<i>>
    BY <1>4
  <2>2. i \in Nat /\ i # 0 /\ i \in 1 .. Len(Streams[1])
    BY <1>6
  <2>3. p \in 1 .. Len(Origin(1))
    BY <1>2
  <2>4. F[a] = Prepared(1)[i]
    BY <1>9, <2>1
  <2>5. CellAt(Prepared(1)[i], p)
          = IF p = K THEN FlattenSeq(KeyOf(1, i)) ELSE Streams[1][i][Origin(1)[p]]
    BY <1>1, <2>2, <2>3, PreparedCells DEF K
  <2>6. KeyOfCombination(a) = KeyOf(1, i)
    <3>1. a \in Seq(Nat) /\ Len(a) = 1 /\ a[1] = i
      BY <2>1, <2>2
    <3>2. 1 \in 1 .. Len(a) /\ a[1] # 0 /\ \A j \in 1 .. Len(a) : a[j] # 0 => 1 <= j
      BY <2>2, <3>1
    <3>3. FirstPlace(a) = 1
      BY <3>1, <3>2, FirstOfIs
    <3> QED BY <3>1, <3>3, KeyByFirst
  <2>7. CASE p = K
    BY <2>4, <2>5, <2>6, <2>7 DEF ValueAt, K
  <2>8. CASE p # K
    <3>1. cols[p] = <<1, Origin(1)[p]>>
      BY <1>1, <2>8
    <3>2. cols[p][1] = 1 /\ cols[p][2] = Origin(1)[p] /\ a[1] = i
      BY <2>1, <3>1
    <3> QED BY <2>2, <2>4, <2>5, <2>8, <3>2 DEF ValueAt, K
  <2> QED BY <2>7, <2>8
<1>12. IsSeq(rows)
  BY <1>3, AnySeq
<1>13. Width(cmds, 0) = M
  BY DEF Width, M
<1> QED BY <1>10, <1>11, <1>12, <1>13 DEF RowsAre, rows

-----------------------------------------------------------------------------
\* The join of the rows so far with the lines of the stream n + 1.
JoinOf(cmds, F, cs, n) ==
  [lefts |-> cs, rights |-> LinesIn(n + 1), noLeft |-> NoLines(n), noRight |-> 0,
   left |-> [a \in cs \union {NoLines(n)} |-> IF a = NoLines(n) THEN <<>> ELSE F[a]],
   right |-> [i \in LinesIn(n + 1) \union {0} |-> IF i = 0 THEN <<>> ELSE Prepared(n + 1)[i]],
   i |-> KeyPlace(1), j |-> KeyPlace(n + 1), pairs |-> cmds[n].pairs, alone |-> cmds[n].alone,
   list |-> cmds[n].list]

\* No combination is without lines.
LEMMA NoLinesIsNone ==
  ASSUME NEW n, NEW a, IsCombination(a, n)
  PROVE  a # NoLines(n)
BY DEF IsCombination, NoLines

\* The join of the rows so far with the next stream, as pairs of combinations and
\* lines.
LEMMA JoinOfIs ==
  ASSUME JoinInv, AreTables, KeysAgree, NEW n \in 1 .. Len(side.joins),
         \A k \in 1 .. n + 1 : HasKeys(k), NEW cmds, NEW cols, CommandIs(cmds, cols, n),
         NEW rows, NEW F, NEW cs, AreCombinations(cs, n), RowsAre(rows, F, cs, cols, Width(cmds, n - 1)),
         NEW d, d = JoinOf(cmds, F, cs, n)
  PROVE  /\ IsJoinOf(d, rows, PreparedLines(n + 1)) /\ JoinsCombinations(d, cs, n)
         /\ \A a \in cs : d.left[a] = F[a] /\ LeftKey(d, a) = FlattenSeq(KeyOfCombination(a))
         /\ \A b \in LinesIn(n + 1) :
              d.right[b] = Prepared(n + 1)[b] /\ RightKey(d, b) = FlattenSeq(KeyOf(n + 1, b))
<1> DEFINE m == n + 1
           K == KeyPlace(1)
           kx == KeyPlace(m)
           none == NoLines(n)
<1>1. Len(side.joins) \in Nat /\ DOMAIN Streams = 1 .. Len(side.joins) + 1
  BY StreamsAre
<1>2. m \in DOMAIN Streams /\ n \in 1 .. Len(Streams) /\ HasKeys(m) /\ \A k \in 1 .. n : HasKeys(k)
  <2>1. m \in 1 .. Len(side.joins) + 1 /\ m \in 1 .. n + 1 /\ n \in 1 .. Len(side.joins) + 1
    BY <1>1
  <2>2. Len(Streams) = Len(side.joins) + 1
    BY StreamsAre
  <2>3. \A k \in 1 .. n : k \in 1 .. n + 1
    BY <1>1
  <2> QED BY <1>1, <2>1, <2>2, <2>3
<1>3. LinesIn(m) \subseteq Nat \ {0} /\ \A i \in LinesIn(m) : i \in 1 .. Len(Streams[m])
  BY <1>2, LinesInAre
<1>4. /\ Lists(rows, F, cs)
      /\ \A a \in cs, p \in 1 .. Width(cmds, n - 1) : CellAt(F[a], p) = ValueAt(cols, a, p)
  BY DEF RowsAre
<1>5. /\ cmds[n].right = kx /\ cmds[n].pairs = Pairs(side.joins[n].type)
      /\ cmds[n].alone = Alone(side.joins[n].type)
      /\ K <= Width(cmds, n - 1)
  BY DEF CommandIs
<1>6. /\ d.lefts = cs /\ d.rights = LinesIn(m) /\ d.noLeft = none /\ d.noRight = 0
      /\ d.left = [a \in cs \union {none} |-> IF a = none THEN <<>> ELSE F[a]]
      /\ d.right = [i \in LinesIn(m) \union {0} |-> IF i = 0 THEN <<>> ELSE Prepared(m)[i]]
      /\ d.i = K /\ d.j = kx /\ d.pairs = cmds[n].pairs /\ d.alone = cmds[n].alone
  BY DEF JoinOf
<1>7. K \in 1 .. Width(cmds, n - 1)
  <2>1. HasKeys(1)
    BY <1>1
  <2>2. K \in 1 .. Len(Origin(1)) /\ Len(Origin(1)) \in Nat
    BY <2>1, PreparedHeader
  <2>3. Width(cmds, n - 1) \in 1 .. Width(cmds, n)
    BY DEF CommandIs
  <2> HIDE DEF K
  <2> QED BY <1>5, <2>2, <2>3
<1>8. kx \in 1 .. Len(Origin(m))
  BY <1>2, PreparedHeader
<1> HIDE DEF m, none
<1>9. none \notin cs
  <2>1. \A a \in cs : a # NoLines(n)
    BY NoLinesIsNone DEF AreCombinations
  <2> QED BY <2>1 DEF none
<1>10. 0 \notin LinesIn(m)
  BY <1>3
<1>11. \A a \in cs : d.left[a] = F[a]
  BY <1>6, <1>9
<1>12. \A b \in LinesIn(m) : d.right[b] = Prepared(m)[b]
  BY <1>6, <1>10
<1>13. d.left[none] = <<>> /\ d.right[0] = <<>>
  BY <1>6
<1> HIDE DEF K, kx
<1>14. ASSUME NEW a \in cs PROVE LeftKey(d, a) = FlattenSeq(KeyOfCombination(a))
  <2>1. LeftKey(d, a) = CellAt(F[a], K)
    BY <1>6, <1>11 DEF LeftKey
  <2>2. CellAt(F[a], K) = ValueAt(cols, a, K)
    BY <1>4, <1>7
  <2>3. ValueAt(cols, a, K) = FlattenSeq(KeyOfCombination(a))
    BY DEF ValueAt, K
  <2> QED BY <2>1, <2>2, <2>3
<1>15. ASSUME NEW b \in LinesIn(m) PROVE RightKey(d, b) = FlattenSeq(KeyOf(m, b))
  <2>1. RightKey(d, b) = CellAt(Prepared(m)[b], kx)
    BY <1>6, <1>12 DEF RightKey
  <2>2. CellAt(Prepared(m)[b], kx) = FlattenSeq(KeyOf(m, b))
    BY <1>2, <1>3, <1>8, PreparedCells DEF kx
  <2> QED BY <2>1, <2>2
<1>16. ASSUME NEW a \in cs, NEW b \in LinesIn(m)
       PROVE  LeftKey(d, a) = RightKey(d, b) <=> KeyOfCombination(a) = KeyOf(m, b)
  <2>1. IsKeyOf(KeyOfCombination(a))
    <3>1. IsCombination(a, n)
      BY DEF AreCombinations
    <3> QED BY <1>2, <3>1, CombinationHasKey
  <2>2. IsKeyOf(KeyOf(m, b))
    BY <1>2, <1>3 DEF IsKeyOf
  <2> DEFINE x == KeyOfCombination(a)
             y == KeyOf(m, b)
  <2>3. IsKeyOf(x) /\ IsKeyOf(y)
    BY <2>1, <2>2
  <2> HIDE DEF x, y
  <2>4. FlattenSeq(x) = FlattenSeq(y) => x = y
    BY <2>3, KeysInOneCell
  <2> QED BY <1>14, <1>15, <2>4 DEF x, y
<1>17. JoinsCombinations(d, cs, n)
  BY <1>5, <1>6, <1>16 DEF JoinsCombinations, m, none
<1>18. Lists(rows, d.left, cs)
  <2>1. AgreeOn(F, d.left, cs)
    BY <1>11 DEF AgreeOn
  <2> QED BY <1>4, <2>1, ListsSame
<1>19. Lists(PreparedLines(m), d.right, LinesIn(m))
  <2>1. AgreeOn(Prepared(m), d.right, LinesIn(m))
    BY <1>12 DEF AgreeOn
  <2>2. Lists(PreparedLines(m), Prepared(m), LinesIn(m))
    BY <1>2, PreparedLinesAre
  <2> QED BY <2>1, <2>2, ListsSame
<1>20. IsJoinOf(d, rows, PreparedLines(m))
  BY <1>6, <1>9, <1>10, <1>13, <1>18, <1>19 DEF IsJoinOf
<1> QED BY <1>11, <1>12, <1>14, <1>15, <1>17, <1>20 DEF m

-----------------------------------------------------------------------------
\* What a pair that is joined knows of its combination c.
PairMakes(d, m, c, cols, n, w) ==
  /\ PairKey(d, m) = FlattenSeq(KeyOfCombination(c))
  /\ \A p \in 1 .. w : p # KeyPlace(1) => CellAt(d.left[m[1]], p) = ValueAt(cols, c, p)
  /\ \A q \in 1 .. Len(Origin(n + 1)) :
       q # KeyPlace(n + 1) =>
         CellAt(d.right[m[2]], q)
           = IF c[n + 1] = 0 THEN <<>> ELSE Streams[n + 1][c[n + 1]][Origin(n + 1)[q]]

\* The line that is printed of a pair is the row of the combination.
LEMMA PairsAre ==
  ASSUME JoinInv, AreTables, KeysAgree, NEW n \in 1 .. Len(side.joins),
         \A k \in 1 .. n + 1 : HasKeys(k), NEW cmds, NEW cols, CommandIs(cmds, cols, n),
         NEW rows, NEW F, NEW cs, AreCombinations(cs, n), RowsAre(rows, F, cs, cols, Width(cmds, n - 1)),
         NEW d, d = JoinOf(cmds, F, cs, n), NEW m \in JoinedPairs(d), NEW c, c = Append(m[1], m[2])
  PROVE  PairMakes(d, m, c, cols, n, Width(cmds, n - 1))
<1> DEFINE a == m[1]
           b == m[2]
           K == KeyPlace(1)
           w == Width(cmds, n - 1)
           none == NoLines(n)
           s == n + 1
<1>1. /\ IsJoinOf(d, rows, PreparedLines(s)) /\ JoinsCombinations(d, cs, n)
      /\ \A x \in cs : d.left[x] = F[x] /\ LeftKey(d, x) = FlattenSeq(KeyOfCombination(x))
      /\ \A y \in LinesIn(s) :
           d.right[y] = Prepared(s)[y] /\ RightKey(d, y) = FlattenSeq(KeyOf(s, y))
  BY JoinOfIs
<1>2. /\ m = <<a, b>>
      /\ \/ a \in cs /\ b \in LinesIn(s)
         \/ a \in cs /\ b = 0
         \/ a = none /\ b \in LinesIn(s)
  BY <1>1, JoinedPairsAre
<1>3. d.noLeft = none /\ d.noRight = 0 /\ d.left[none] = <<>> /\ d.right[0] = <<>>
  BY <1>1 DEF IsJoinOf, JoinsCombinations
<1>4. \A x \in cs, p \in 1 .. w : CellAt(F[x], p) = ValueAt(cols, x, p)
  BY DEF RowsAre
<1>5. \A p \in 1 .. w : p # K => cols[p][1] \in 1 .. n
  BY DEF CommandIs
<1>6. Len(side.joins) \in Nat /\ DOMAIN Streams = 1 .. Len(side.joins) + 1
  BY StreamsAre
<1>7. n \in Nat \ {0} /\ s \in Nat \ {0} /\ s - 1 = n /\ s \in DOMAIN Streams /\ HasKeys(s)
  <2>1. n \in Nat \ {0} /\ s \in 1 .. Len(side.joins) + 1 /\ s \in 1 .. n + 1
    BY <1>6
  <2> QED BY <1>6, <2>1
<1>7a. s = n + 1
  OBVIOUS
<1> HIDE DEF s, w, K
<1>8. LinesIn(s) \subseteq Nat \ {0} /\ \A i \in LinesIn(s) : i \in 1 .. Len(Streams[s])
  BY <1>7, LinesInAre
<1>9. b \in Nat
  BY <1>2, <1>8
<1>10. none \in Seq(Nat) /\ Len(none) = n /\ \A k \in 1 .. n : none[k] = 0
  BY <1>7 DEF NoLines
<1>11. \A x \in cs : IsCombination(x, n) /\ x \in Seq(Nat) /\ Len(x) = n
  BY DEF AreCombinations, IsCombination
<1> HIDE DEF none, a, b
<1>12. a \in Seq(Nat) /\ Len(a) = n
  BY <1>2, <1>10, <1>11
<1>13. c = Append(a, b)
  BY DEF a, b
<1>14. c[n + 1] = b /\ \A k \in 1 .. n : c[k] = a[k]
  BY <1>9, <1>12, <1>13, AppendProperties
<1>15. CellAt(<<>>, 0) = <<>> /\ \A q : CellAt(<<>>, q) = <<>>
  BY DEF CellAt
<1>16. PairKey(d, m) = IF a = none THEN RightKey(d, b) ELSE LeftKey(d, a)
  BY <1>3 DEF PairKey, a, b
<1>17. \A q \in 1 .. Len(Origin(s)) :
         q # KeyPlace(s) =>
           CellAt(d.right[b], q) = IF c[s] = 0 THEN <<>> ELSE Streams[s][c[s]][Origin(s)[q]]
  <2>1. CASE b = 0
    BY <1>3, <1>7a, <1>14, <1>15, <2>1
  <2>2. CASE b # 0
    <3>1. b \in LinesIn(s)
      BY <1>2, <2>2
    <3>2. b \in 1 .. Len(Streams[s]) /\ d.right[b] = Prepared(s)[b]
      BY <1>1, <1>8, <3>1
    <3>3. \A q \in 1 .. Len(Origin(s)) :
            CellAt(Prepared(s)[b], q)
              = IF q = KeyPlace(s) THEN FlattenSeq(KeyOf(s, b)) ELSE Streams[s][b][Origin(s)[q]]
      BY <1>7, <3>2, PreparedCells
    <3> QED BY <1>7a, <1>14, <2>2, <3>2, <3>3
  <2> QED BY <2>1, <2>2
<1>18. CASE a \in cs
  <2>1. a # none
    BY <1>11, <1>18, NoLinesIsNone DEF none
  <2>2. KeyOfCombination(c) = KeyOfCombination(a)
    BY <1>7, <1>9, <1>11, <1>13, <1>18, KeyOfAppended
  <2>3. PairKey(d, m) = FlattenSeq(KeyOfCombination(c))
    BY <1>1, <1>16, <1>18, <2>1, <2>2
  <2>4. ASSUME NEW p \in 1 .. w, p # K PROVE CellAt(d.left[a], p) = ValueAt(cols, c, p)
    <3>1. CellAt(d.left[a], p) = ValueAt(cols, a, p)
      BY <1>1, <1>4, <1>18
    <3>2. c[cols[p][1]] = a[cols[p][1]]
      BY <1>5, <1>14, <2>4
    <3>3. ValueAt(cols, c, p) = ValueAt(cols, a, p)
      BY <2>4, <3>2 DEF ValueAt, K
    <3> QED BY <3>1, <3>3
  <2> QED BY <1>17, <2>3, <2>4 DEF PairMakes, a, b, K, w, s
<1>19. CASE a = none
  <2>0. b \in LinesIn(s) /\ b # 0
    <3>1. a \notin cs
      BY <1>11, <1>19, NoLinesIsNone DEF none
    <3> QED BY <1>2, <1>8, <3>1
  <2>1. c = OnlyLine(s, b)
    <3>1. OnlyLine(s, b) = Append(NoLines(s - 1), b)
      BY <1>7, <1>9, <2>0, KeyOfOnlyLine
    <3> QED BY <1>7, <1>13, <1>19, <3>1 DEF none
  <2>2. KeyOfCombination(c) = KeyOf(s, b)
    BY <1>7, <1>9, <2>0, <2>1, KeyOfOnlyLine
  <2>3. PairKey(d, m) = FlattenSeq(KeyOfCombination(c))
    BY <1>1, <1>16, <1>19, <2>0, <2>2
  <2>4. ASSUME NEW p \in 1 .. w, p # K PROVE CellAt(d.left[a], p) = ValueAt(cols, c, p)
    <3>1. CellAt(d.left[a], p) = <<>>
      BY <1>3, <1>15, <1>19
    <3>2. c[cols[p][1]] = 0
      BY <1>5, <1>10, <1>14, <1>19, <2>4
    <3> QED BY <2>4, <3>1, <3>2 DEF ValueAt, K
  <2> QED BY <1>17, <2>3, <2>4 DEF PairMakes, a, b, K, w, s
<1> QED BY <1>2, <1>18, <1>19

\* A line of w cells.
HasWidth(line, w) == line = [p \in 1 .. w |-> line[p]]

\* The line that is printed for a pair.
LEMMA PairCells ==
  ASSUME JoinInv, NEW n \in 1 .. Len(side.joins), HasKeys(n + 1), NEW cmds, NEW cols,
         CommandIs(cmds, cols, n), NEW d, d.list = cmds[n].list, NEW m \in JoinedPairs(d), NEW c,
         PairMakes(d, m, c, cols, n, Width(cmds, n - 1)), NEW p \in 1 .. Width(cmds, n)
  PROVE  /\ HasWidth(JoinedLines(d)[m], Width(cmds, n))
         /\ JoinedLines(d)[m][p] = ValueAt(cols, c, p)
<1> DEFINE list == cmds[n].list
           w == Width(cmds, n - 1)
           v == Width(cmds, n)
           l == d.left[m[1]]
           r == d.right[m[2]]
           key == PairKey(d, m)
           line == JoinedLines(d)[m]
           K == KeyPlace(1)
           s == n + 1
<1>1. n \in Nat \ {0} /\ s # 0
  <2>1. Len(side.joins) \in Nat
    BY StreamsAre
  <2> QED BY <2>1
<1>2. list \in Seq(Nat \X Nat) /\ v = Len(list)
  BY <1>1 DEF CommandIs, Width
<1>3. DOMAIN list = 1 .. v /\ v \in Nat
  <2> DEFINE Y == Nat \X Nat
  <2>1. list \in Seq(Y)
    BY <1>2
  <2> HIDE DEF Y
  <2> QED BY <1>2, <2>1, LenProperties
<1>4. line = PrintedLine(list, key, l, r)
  BY DEF JoinedLines
<1>5. /\ w \in 1 .. v /\ K <= w /\ list[K] = <<0, 0>>
      /\ \A i \in 1 .. w : i # K => list[i] = <<1, i>>
      /\ \A i \in 1 .. v :
           i > w =>
             \E q \in 1 .. Len(Origin(s)) :
               q # KeyPlace(s) /\ list[i] = <<2, q>> /\ cols[i] = <<s, Origin(s)[q]>>
  BY DEF CommandIs
<1>6. /\ key = FlattenSeq(KeyOfCombination(c))
      /\ \A i \in 1 .. w : i # K => CellAt(l, i) = ValueAt(cols, c, i)
      /\ \A q \in 1 .. Len(Origin(s)) :
           q # KeyPlace(s) =>
             CellAt(r, q) = IF c[s] = 0 THEN <<>> ELSE Streams[s][c[s]][Origin(s)[q]]
  BY DEF PairMakes
<1> HIDE DEF list, w, v, l, r, key, line, s
<1>7. HasWidth(line, v)
  <2>1. line = [i \in DOMAIN line |-> line[i]] /\ DOMAIN line = 1 .. v
    BY <1>3, <1>4 DEF PrintedLine
  <2> QED BY <2>1 DEF HasWidth
<1>8. p \in 1 .. v
  BY DEF v
<1>9. line[p] = IF list[p] = <<0, 0>> THEN key
                ELSE CellAt(IF list[p][1] = 1 THEN l ELSE r, list[p][2])
  BY <1>3, <1>4, <1>8 DEF PrintedLine
<1>10. ASSUME p = K PROVE line[p] = ValueAt(cols, c, p)
  <2>1. line[p] = key
    BY <1>5, <1>9, <1>10
  <2>2. ValueAt(cols, c, p) = FlattenSeq(KeyOfCombination(c))
    BY <1>10 DEF ValueAt
  <2> QED BY <1>6, <2>1, <2>2
<1>11. ASSUME p # K, p <= w PROVE line[p] = ValueAt(cols, c, p)
  <2>1. p \in 1 .. w
    BY <1>3, <1>5, <1>8, <1>11
  <2>2. list[p] = <<1, p>>
    BY <1>5, <1>11, <2>1
  <2>3. list[p] # <<0, 0>> /\ list[p][1] = 1 /\ list[p][2] = p
    BY <2>2
  <2> QED BY <1>6, <1>9, <1>11, <2>1, <2>3
<1>12. ASSUME p # K, p > w PROVE line[p] = ValueAt(cols, c, p)
  <2>1. PICK q \in 1 .. Len(Origin(s)) :
          q # KeyPlace(s) /\ list[p] = <<2, q>> /\ cols[p] = <<s, Origin(s)[q]>>
    BY <1>5, <1>8, <1>12
  <2>2. list[p] # <<0, 0>> /\ list[p][1] # 1 /\ list[p][2] = q
    BY <2>1
  <2>3. line[p] = CellAt(r, q)
    BY <1>9, <2>2
  <2>4. cols[p][1] = s /\ cols[p][2] = Origin(s)[q]
    BY <2>1
  <2>5. ValueAt(cols, c, p) = IF c[s] = 0 THEN <<>> ELSE Streams[s][c[s]][Origin(s)[q]]
    BY <1>12, <2>4 DEF ValueAt
  <2> QED BY <1>6, <2>1, <2>3, <2>5
<1>13. p = K \/ (p # K /\ (p <= w \/ p > w))
  BY <1>3, <1>5, <1>8
<1>14. line[p] = ValueAt(cols, c, p)
  BY <1>10, <1>11, <1>12, <1>13
<1> QED BY <1>7, <1>14 DEF line, v

-----------------------------------------------------------------------------
\* The lines after a join, which have w cells and no more.
FullRows(rows, F, cs, cols, w) ==
  RowsAre(rows, F, cs, cols, w) /\ \A a \in cs : HasWidth(F[a], w)

\* What the n-th command makes of the rows.
RowsAfter(cmds, rows, n) ==
  Joined(rows, KeyPlace(1), PreparedLines(n + 1), cmds[n].right, cmds[n].pairs, cmds[n].alone,
         cmds[n].list)

\* With one join more the rows are those of the combinations with the next stream.
LEMMA RowsNext ==
  ASSUME JoinInv, AreTables, KeysAgree, NEW n \in 1 .. Len(side.joins),
         \A k \in 1 .. n + 1 : HasKeys(k), NEW cmds, NEW cols, CommandIs(cmds, cols, n),
         NEW rows, NEW F, NEW cs, AreCombinations(cs, n), RowsAre(rows, F, cs, cols, Width(cmds, n - 1))
  PROVE  \E G : FullRows(RowsAfter(cmds, rows, n), G, WithLinesOf(cs, n + 1), cols, Width(cmds, n))
<1> DEFINE d == JoinOf(cmds, F, cs, n)
           s == RowsAfter(cmds, rows, n)
           S == JoinedPairs(d)
           T == WithLinesOf(cs, n + 1)
           b == AppendedPairs(d)
           L == JoinedLines(d)
           w == Width(cmds, n)
           G == [c \in T |-> L[CHOOSE m \in S : b[m] = c]]
<1>1. n \in Nat \ {0} /\ n + 1 \in DOMAIN Streams /\ HasKeys(n + 1)
  <2>1. Len(side.joins) \in Nat /\ DOMAIN Streams = 1 .. Len(side.joins) + 1
    BY StreamsAre
  <2>2. n \in Nat \ {0} /\ n + 1 \in 1 .. Len(side.joins) + 1 /\ n + 1 \in 1 .. n + 1
    BY <2>1
  <2> QED BY <2>1, <2>2
<1>2. IsJoinOf(d, rows, PreparedLines(n + 1)) /\ JoinsCombinations(d, cs, n)
  BY JoinOfIs
<1>3. IsOneToOne(b, S, T)
  BY <1>1, <1>2, PairsAreCombinations
<1>4. \A m \in S : b[m] = Append(m[1], m[2])
  BY DEF AppendedPairs
<1>5. s = Joined(rows, d.i, PreparedLines(n + 1), d.j, d.pairs, d.alone, d.list) /\ d.list = cmds[n].list
  <2>1. /\ d.i = KeyPlace(1) /\ d.j = KeyPlace(n + 1) /\ d.pairs = cmds[n].pairs
        /\ d.alone = cmds[n].alone /\ d.list = cmds[n].list
    BY DEF JoinOf
  <2>2. cmds[n].right = KeyPlace(n + 1)
    BY DEF CommandIs
  <2> HIDE DEF d
  <2> QED BY <2>1, <2>2 DEF RowsAfter
<1>6. rows \in Seq(Range(rows)) /\ PreparedLines(n + 1) \in Seq(Cells)
  BY <1>1, PreparedLinesAre DEF RowsAre, IsSeq
<1> HIDE DEF d, s
<1>7. s \in Seq(Range(L)) /\ Lists(s, L, S)
  BY <1>2, <1>5, <1>6, ListsJoined
<1>8. ASSUME NEW m \in S, NEW p \in 1 .. w
      PROVE  HasWidth(L[m], w) /\ L[m][p] = ValueAt(cols, b[m], p)
  <2> DEFINE c == Append(m[1], m[2])
  <2>1. d = JoinOf(cmds, F, cs, n) /\ c = Append(m[1], m[2])
    BY DEF d
  <2> HIDE DEF c
  <2>2. PairMakes(d, m, c, cols, n, Width(cmds, n - 1))
    BY <2>1, PairsAre
  <2>3. /\ HasKeys(n + 1) /\ d.list = cmds[n].list /\ m \in JoinedPairs(d)
        /\ p \in 1 .. Width(cmds, n)
    BY <1>1, <1>5, <1>8
  <2>4. /\ HasWidth(JoinedLines(d)[m], Width(cmds, n))
        /\ JoinedLines(d)[m][p] = ValueAt(cols, c, p)
    <3> HIDE DEF S, T, b, L, w, G
    <3> QED BY <2>2, <2>3, PairCells
  <2> QED BY <1>4, <2>1, <2>4
<1>9. w \in Nat \ {0}
  <2>1. w = Len(cmds[n].list) /\ cmds[n].list \in Seq(Nat \X Nat)
    BY <1>1 DEF CommandIs, Width
  <2>2. Width(cmds, n - 1) \in 1 .. w
    BY DEF CommandIs
  <2>3. w \in Nat
    <3> DEFINE Y == Nat \X Nat
    <3>1. cmds[n].list \in Seq(Y)
      BY <2>1
    <3> HIDE DEF Y
    <3> QED BY <2>1, <3>1, LenProperties
  <2> HIDE DEF w
  <2> QED BY <2>2, <2>3
<1> HIDE DEF S, T, b, L, w
<1>10. /\ b \in [S -> T] /\ \A x, y \in S : b[x] = b[y] => x = y
       /\ \A z \in T : \E x \in S : b[x] = z
  BY <1>3 DEF IsOneToOne
<1>11. ASSUME NEW m \in S PROVE G[b[m]] = L[m]
  <2>1. b[m] \in T
    BY <1>10
  <2>2. (CHOOSE x \in S : b[x] = b[m]) = m
    BY <1>10
  <2> QED BY <2>1, <2>2
<1>12. Renames(b, L, G, S)
  BY <1>11 DEF Renames
<1> HIDE DEF G
<1>13. Lists(s, G, T)
  BY <1>3, <1>7, <1>12, ListsMapped
<1>14. ASSUME NEW c \in T
       PROVE  HasWidth(G[c], w) /\ \A p \in 1 .. w : CellAt(G[c], p) = ValueAt(cols, c, p)
  <2>1. PICK m \in S : b[m] = c
    BY <1>10
  <2>2. G[c] = L[m]
    BY <1>11, <2>1
  <2>3. 1 \in 1 .. w
    BY <1>9
  <2>4. HasWidth(G[c], w)
    BY <1>8, <2>2, <2>3
  <2>5. \A p \in 1 .. w : G[c][p] = ValueAt(cols, c, p)
    BY <1>8, <2>1, <2>2
  <2>6. DOMAIN G[c] = 1 .. w
    BY <2>4 DEF HasWidth
  <2> QED BY <2>4, <2>5, <2>6 DEF CellAt
<1>15. IsSeq(s)
  BY <1>7, AnySeq
<1>16. FullRows(s, G, T, cols, w)
  BY <1>13, <1>14, <1>15 DEF FullRows, RowsAre
<1> QED BY <1>16 DEF s, T, w

-----------------------------------------------------------------------------
\* What a request knows that has met the streams before c.next.
StreamsMet(r, c) ==
  /\ c.main = Tail(Prepared(1)) /\ c.keyIndex = KeyPlace(1)
  /\ \A n \in 1 .. c.next - 1 : LinesOf(r, n) = PreparedLines(n + 1)

\* The rows after all joins are the lines of all combinations.
LEMMA JoinedRows ==
  ASSUME JoinInv, AreTables, KeysAgree, KeepsAPrefix, side.joins # <<>>,
         NEW r, NEW c, StreamsMet(r, c), c.next = Len(side.joins) + 1,
         NEW cols, Chain(c.outHeader, c.joinCommand, cols, c.next),
         NEW f, PipedSteps(f, r, c)
  PROVE  /\ AreCombinations(Combinations, Len(Streams))
         /\ \E F : FullRows(f[Len(c.joinCommand)], F, Combinations, cols, Len(c.outHeader))
<1> DEFINE cmds == c.joinCommand
           N == Len(side.joins)
<1>1. N \in Nat /\ N # 0 /\ Len(Streams) = N + 1 /\ DOMAIN Streams = 1 .. N + 1
  BY StreamsAre, JoinsAre, EmptySeq
<1>2. PICK g : CombinationsAre(g) /\ Combinations = g[Len(Streams)]
  BY CombinationSteps
<1>3. g[1] = {<<i>> : i \in LinesIn(1)} /\ \A n \in 2 .. N + 1 : g[n] = WithLinesOf(g[n - 1], n)
  BY <1>1, <1>2 DEF CombinationsAre
<1>4. Chain(c.outHeader, cmds, cols, N + 1)
  OBVIOUS
<1>5. /\ \A m \in 1 .. N + 1 : HasKeys(m)
      /\ Len(cmds) = (N + 1) - 1 /\ Width(cmds, (N + 1) - 1) = Len(c.outHeader)
      /\ \A m \in 1 .. (N + 1) - 1 : CommandIs(cmds, cols, m)
  BY <1>4 DEF Chain
<1>6. Len(cmds) = N /\ Width(cmds, N) = Len(c.outHeader) /\ (N + 1) - 1 = N
  BY <1>1, <1>5
<1>7. f[0] = PreparedLines(1) /\ \A n \in 1 .. N : f[n] = RowsAfter(cmds, f[n - 1], n)
  <2>1. /\ f[0] = Sorted(c.main, c.keyIndex)
        /\ \A n \in 1 .. N :
             f[n] = Joined(f[n - 1], c.keyIndex, LinesOf(r, n), cmds[n].right,
                           cmds[n].pairs, cmds[n].alone, cmds[n].list)
    BY <1>6 DEF PipedSteps
  <2>2. /\ c.main = Tail(Prepared(1)) /\ c.keyIndex = KeyPlace(1)
        /\ \A n \in 1 .. N : LinesOf(r, n) = PreparedLines(n + 1)
    BY <1>1, <1>6 DEF StreamsMet
  <2> HIDE DEF cmds
  <2> QED BY <2>1, <2>2 DEF PreparedLines, RowsAfter
<1> HIDE DEF cmds, N
<1>8. AreCombinations(g[1], 1)
  <2>1. ASSUME NEW i \in LinesIn(1) PROVE IsCombination(<<i>>, 1)
    <3>1. i \in Nat /\ i # 0
      <4>1. 1 \in DOMAIN Streams
        BY <1>1
      <4> QED BY <4>1, LinesInAre
    <3> QED BY <2>1, <3>1 DEF IsCombination
  <2> QED BY <1>3, <2>1 DEF AreCombinations
<1> DEFINE P(n) == /\ AreCombinations(g[n + 1], n + 1)
                   /\ \E F : /\ RowsAre(f[n], F, g[n + 1], cols, Width(cmds, n))
                             /\ n # 0 => FullRows(f[n], F, g[n + 1], cols, Width(cmds, n))
           S == {n \in Nat : n <= N => P(n)}
<1>9. 0 \in S
  <2>1. N + 1 \in Nat /\ N + 1 >= 1 /\ 0 + 1 = 1
    BY <1>1
  <2>2. Chain(c.outHeader, cmds, cols, N + 1)
    BY <1>4 DEF cmds, N
  <2>3. \E F : RowsAre(PreparedLines(1), F, g[1], cols, Width(cmds, 0))
    <3> DEFINE k == N + 1
    <3>1. k \in Nat /\ k >= 1 /\ Chain(c.outHeader, cmds, cols, k)
      BY <2>1, <2>2
    <3> HIDE DEF k
    <3> QED BY <1>2, <3>1, RowsFirst
  <2> QED BY <1>7, <1>8, <2>1, <2>3
<1>10. ASSUME NEW n \in Nat, n \in S PROVE n + 1 \in S
  <2> DEFINE m == n + 1
  <2>0. m = n + 1
    OBVIOUS
  <2> HIDE DEF m
  <2>1. SUFFICES ASSUME m <= N PROVE P(m)
    BY <2>0
  <2>2. m \in 1 .. N /\ m - 1 = n /\ m \in Nat \ {0} /\ m # 0 /\ m + 1 \in 2 .. N + 1
        /\ (m + 1) - 1 = m /\ m + 1 \in DOMAIN Streams /\ n <= N
    BY <1>1, <2>0, <2>1
  <2>3. AreCombinations(g[m], m) /\ \E F : RowsAre(f[m - 1], F, g[m], cols, Width(cmds, m - 1))
    BY <1>10, <2>0, <2>2
  <2>4. PICK F : RowsAre(f[m - 1], F, g[m], cols, Width(cmds, m - 1))
    BY <2>3
  <2>5. g[m + 1] = WithLinesOf(g[m], m + 1) /\ f[m] = RowsAfter(cmds, f[m - 1], m)
    BY <1>3, <1>7, <2>2
  <2>6. AreCombinations(g[m + 1], m + 1)
    BY <2>2, <2>3, <2>5, WithLinesAreCombinations
  <2>7. \A k \in 1 .. m + 1 : HasKeys(k)
    <3>1. \A k \in 1 .. m + 1 : k \in 1 .. N + 1
      BY <1>1, <2>2
    <3> QED BY <1>5, <3>1
  <2>8. CommandIs(cmds, cols, m) /\ m \in 1 .. Len(side.joins)
    BY <1>5, <1>6, <2>2 DEF N
  <2> DEFINE x == f[m - 1]
             cs == g[m]
  <2>9. RowsAre(x, F, cs, cols, Width(cmds, m - 1)) /\ AreCombinations(cs, m)
    BY <2>3, <2>4
  <2> HIDE DEF x, cs
  <2>10. \E G : FullRows(RowsAfter(cmds, x, m), G, WithLinesOf(cs, m + 1), cols, Width(cmds, m))
    BY <2>7, <2>8, <2>9, RowsNext
  <2>11. PICK G : FullRows(f[m], G, g[m + 1], cols, Width(cmds, m))
    BY <2>5, <2>10 DEF x, cs
  <2> QED BY <2>6, <2>11 DEF FullRows
<1>11. N \in S
  <2>1. Nat \subseteq S
    <3> HIDE DEF S
    <3> QED BY <1>9, <1>10, Induction
  <2> QED BY <1>1, <2>1
<1> QED BY <1>1, <1>2, <1>6, <1>11 DEF cmds

-----------------------------------------------------------------------------
\* The header of a result names every column of it once.
FinalColumns(hdr, cols) ==
  /\ hdr \in Seq(Seq(STRING))
  /\ \A p \in 1 .. Len(hdr) : cols[p] \in ResultColumns /\ NamedRightly(hdr[p], cols[p])
  /\ \A p, q \in 1 .. Len(hdr) : cols[p] = cols[q] => p = q
  /\ \A c \in ResultColumns : \E p \in 1 .. Len(hdr) : cols[p] = c

\* Columns of one stream have different names.
LEMMA SameColumn ==
  ASSUME JoinInv, AreTables, NEW c \in ResultColumns, NEW d \in ResultColumns,
         c[1] = d[1], ColumnName(c) = ColumnName(d)
  PROVE  c = d
<1>1. /\ c[1] \in 1 .. Len(side.joins) + 1 /\ c = <<c[1], c[2]>> /\ d = <<d[1], d[2]>>
      /\ c[2] \in DOMAIN Head(Streams[c[1]]) /\ d[2] \in DOMAIN Head(Streams[d[1]])
  BY ResultColumnIs
<1>2. c[1] \in DOMAIN Streams
  BY <1>1, StreamsAre
<1>3. c[2] = d[2]
  BY <1>1, <1>2 DEF AreTables, ColumnName
<1> QED BY <1>1, <1>3

\* A name that stands for a column is taken for it.
LEMMA ColumnNamedIs ==
  ASSUME JoinInv, AreTables, NamesApart, NEW c \in ResultColumns, NEW name, NamedRightly(name, c)
  PROVE  ColumnNamed(name) = c
<1> DEFINE plain == {d \in ResultColumns : ColumnName(d) = name}
           prefixed == {d \in ResultColumns : d[1] > 1 /\ PrefixedName(d) = name}
<1>1. ColumnNamed(name) = IF plain # {} THEN CHOOSE d \in plain : \A e \in plain : d[1] <= e[1]
                          ELSE CHOOSE d \in prefixed : TRUE
  BY DEF ColumnNamed
<1>2. \A d \in ResultColumns : d[1] \in Nat
  <2>1. Len(side.joins) \in Nat
    BY StreamsAre
  <2> QED BY <2>1, ResultColumnIs
<1>3. CASE name = ColumnName(c) /\ \A d \in ResultColumns : ColumnName(d) = name => c[1] <= d[1]
  <2>1. c \in plain /\ \A e \in plain : c[1] <= e[1]
    BY <1>3
  <2>2. ASSUME NEW d \in plain, \A e \in plain : d[1] <= e[1] PROVE d = c
    <3>1. d[1] <= c[1] /\ c[1] <= d[1] /\ d \in ResultColumns
      BY <2>1, <2>2
    <3>2. d[1] = c[1]
      BY <1>2, <3>1
    <3>3. ColumnName(d) = ColumnName(c)
      BY <1>3
    <3> QED BY <3>1, <3>2, <3>3, SameColumn
  <2> HIDE DEF plain
  <2>3. (CHOOSE d \in plain : \A e \in plain : d[1] <= e[1]) = c
    BY <2>1, <2>2
  <2> QED BY <1>1, <2>1, <2>3
<1>4. CASE c[1] > 1 /\ name = PrefixedName(c)
  <2>1. \A d \in ResultColumns : ColumnName(d) # name
    BY <1>4 DEF NamesApart
  <2>2. plain = {}
    BY <2>1
  <2>3. \A d \in ResultColumns : d[1] > 1 /\ PrefixedName(d) = name => c = d
    BY <1>4 DEF NamesApart
  <2>4. prefixed = {c}
    BY <1>4, <2>3
  <2> HIDE DEF plain, prefixed
  <2>5. (CHOOSE d \in {c} : TRUE) = c
    OBVIOUS
  <2> QED BY <1>1, <2>2, <2>4, <2>5
<1> QED BY <1>3, <1>4 DEF NamedRightly

\* There are as many columns as names.
LEMMA HeaderCounts ==
  ASSUME JoinInv, AreTables, NamesApart, NEW hdr, NEW cols, FinalColumns(hdr, cols)
  PROVE  /\ \A p \in 1 .. Len(hdr) : ColumnNamed(hdr[p]) = cols[p]
         /\ Len(hdr) = Cardinality(ResultColumns) /\ Cardinality(Range(hdr)) = Len(hdr)
<1> DEFINE N == 1 .. Len(hdr)
           k == [p \in N |-> cols[p]]
           h == [p \in N |-> hdr[p]]
<1>1. Len(hdr) \in Nat /\ DOMAIN hdr = N
  BY LenProperties DEF FinalColumns
<1>2. /\ \A p \in N : cols[p] \in ResultColumns /\ NamedRightly(hdr[p], cols[p])
      /\ \A p, q \in N : cols[p] = cols[q] => p = q
      /\ \A c \in ResultColumns : \E p \in N : cols[p] = c
  BY DEF FinalColumns
<1>3. \A p \in N : ColumnNamed(hdr[p]) = cols[p]
  <2> SUFFICES ASSUME NEW p \in N PROVE ColumnNamed(hdr[p]) = cols[p]
    OBVIOUS
  <2> QED BY <1>2, ColumnNamedIs
<1>4. IsFiniteSet(N) /\ Cardinality(N) = Len(hdr)
  <2> DEFINE L == Len(hdr)
  <2>1. L \in Nat
    BY <1>1
  <2> HIDE DEF L
  <2>2. IsFiniteSet(1 .. L) /\ Cardinality(1 .. L) = IF 1 > L THEN 0 ELSE L - 1 + 1
    BY <2>1, FS_Interval
  <2>3. Cardinality(1 .. L) = L
    BY <2>1, <2>2
  <2> QED BY <2>2, <2>3 DEF L
<1> HIDE DEF N
<1>5. k \in Bijection(N, ResultColumns)
  <2>1. k \in [N -> ResultColumns] /\ \A p \in N : k[p] = cols[p]
    BY <1>2
  <2> HIDE DEF k
  <2> QED BY <1>2, <2>1, Fun_IsBij
<1>6. h \in Bijection(N, Range(hdr))
  <2>1. h \in [N -> Range(hdr)] /\ \A p \in N : h[p] = hdr[p]
    BY <1>1 DEF Range
  <2>2. \A p, q \in N : hdr[p] = hdr[q] => p = q
    BY <1>2, <1>3
  <2>3. \A x \in Range(hdr) : \E p \in N : hdr[p] = x
    BY <1>1 DEF Range
  <2> HIDE DEF h
  <2> QED BY <2>1, <2>2, <2>3, Fun_IsBij
<1>7. Cardinality(ResultColumns) = Cardinality(N) /\ Cardinality(Range(hdr)) = Cardinality(N)
  <2>1. ExistsBijection(N, ResultColumns) /\ ExistsBijection(N, Range(hdr))
    BY <1>5, <1>6 DEF ExistsBijection
  <2> QED BY <1>4, <2>1, FS_Bijection, FS_SameCardinalityBij
<1> QED BY <1>3, <1>4, <1>7 DEF N

\* The words of IsTheJoin for a header and rows.
HoldsTheJoin(header, rows) ==
  LET columns == [n \in DOMAIN header |-> ColumnNamed(header[n])]
      expected == [comb \in Combinations |->
                     [n \in DOMAIN header |-> ValueOf(comb, columns[n])]]
  IN  /\ Len(header) = Cardinality(ResultColumns)
      /\ Cardinality(Range(header)) = Len(header)
      /\ \A line \in Range(rows) \union Range(expected) :
           Cardinality({n \in DOMAIN rows : rows[n] = line})
             = Cardinality({comb \in DOMAIN expected : expected[comb] = line})

\* The rows have the value of each column under its name.
FinalRows(rows, hdr, cols) ==
  IsSeq(rows) /\ Lists(rows, [a \in Combinations |-> [p \in 1 .. Len(hdr) |-> ValueOf(a, cols[p])]],
                       Combinations)

\* A header that names the columns of the result and rows that list the combinations
\* are the join.
LEMMA FinalIsTheJoin ==
  ASSUME JoinInv, AreTables, NamesApart, NEW hdr, NEW cols, FinalColumns(hdr, cols),
         NEW rows, FinalRows(rows, hdr, cols), NEW out, out = <<hdr>> \o rows
  PROVE  IsTheJoin(out)
<1> DEFINE F == [a \in Combinations |-> [p \in 1 .. Len(hdr) |-> ValueOf(a, cols[p])]]
           columns == [n \in DOMAIN hdr |-> ColumnNamed(hdr[n])]
           expected == [comb \in Combinations |-> [n \in DOMAIN hdr |-> ValueOf(comb, columns[n])]]
<1>1. Head(out) = hdr /\ Tail(out) = rows
  <2> DEFINE X == {hdr} \union Range(rows)
  <2>1. rows \in Seq(X) /\ hdr \in X
    <3>1. rows \in Seq(Range(rows)) /\ Range(rows) \subseteq X
      BY DEF FinalRows, IsSeq
    <3> HIDE DEF X
    <3> QED BY <3>1, SeqMonotonic DEF X
  <2> HIDE DEF X
  <2>2. out \in Seq(X) /\ Len(out) = Len(rows) + 1 /\ out[1] = hdr /\ Tail(out) = rows
    BY <2>1, ConsIs
  <2>3. Len(rows) \in Nat
    BY <2>1, LenProperties
  <2>4. out # <<>>
    BY <2>2, <2>3
  <2> QED BY <2>2, <2>4, HeadTailProperties
<1>2. DOMAIN hdr = 1 .. Len(hdr)
  BY LenProperties DEF FinalColumns
<1>3. expected = F
  BY <1>2, HeaderCounts
<1>4. Len(hdr) = Cardinality(ResultColumns) /\ Cardinality(Range(hdr)) = Len(hdr)
  BY HeaderCounts
<1>5. rows \in Seq(Range(rows)) /\ Lists(rows, F, Combinations)
  BY DEF FinalRows, IsSeq
<1>6. DOMAIN F = Combinations
  OBVIOUS
<1> HIDE DEF F
<1>7. \A line : Cardinality(PlacesOf(rows, line)) = Cardinality(ElementsLike(F, DOMAIN F, line))
  <2> SUFFICES ASSUME NEW line
               PROVE  Cardinality(PlacesOf(rows, line)) = Cardinality(ElementsLike(F, Combinations, line))
    BY <1>6
  <2> QED BY <1>5, ListsCount
<1>8. HoldsTheJoin(hdr, rows)
  <2>1. HoldsTheJoin(hdr, rows) <=>
          /\ Len(hdr) = Cardinality(ResultColumns)
          /\ Cardinality(Range(hdr)) = Len(hdr)
          /\ \A line \in Range(rows) \union Range(expected) :
               Cardinality(PlacesOf(rows, line))
                 = Cardinality(ElementsLike(expected, DOMAIN expected, line))
    BY DEF HoldsTheJoin, PlacesOf, ElementsLike
  <2> HIDE DEF expected
  <2> QED BY <1>3, <1>4, <1>7, <2>1
<1>9. IsTheJoin(out) <=> HoldsTheJoin(Head(out), Tail(out))
  BY DEF IsTheJoin, HoldsTheJoin
<1> QED BY <1>1, <1>8, <1>9

-----------------------------------------------------------------------------
\* The k-th key of the main stream is a column of the result, by its own name.
LEMMA KeyColumnIs ==
  ASSUME JoinInv, AreTables, KeysAgree, HasKeys(1), NEW k \in 1 .. Len(side.key),
         NEW c, c = <<1, Places(1)[k]>>
  PROVE  /\ c \in ResultColumns /\ ColumnName(c) = side.key[k] /\ NamedRightly(side.key[k], c)
         /\ \A a : ValueOf(a, c) = KeyOfCombination(a)[k]
<1>1. /\ Len(side.key) \in Nat \ {0} /\ StreamKeys(1) \in Cells /\ Len(StreamKeys(1)) = Len(side.key)
      /\ Places(1)[k] \in 1 .. Len(Head(Streams[1]))
      /\ Head(Streams[1])[Places(1)[k]] = StreamKeys(1)[k]
      /\ KeyColumns(1) = {Places(1)[j] : j \in 1 .. Len(side.key)}
  BY PlacesAre
<1>2. StreamKeys(1) = side.key
  BY KeysAre
<1>3. 1 \in DOMAIN Streams /\ Streams[1] # <<>>
  BY DEF HasKeys
<1>4. Head(Streams[1]) \in Cells
  BY <1>3, TableIs
<1>5. DOMAIN Head(Streams[1]) = 1 .. Len(Head(Streams[1])) /\ DOMAIN side.key = 1 .. Len(side.key)
  BY <1>1, <1>2, <1>4, LenProperties DEF Cells
<1>6. Places(1)[k] \in KeyColumns(1)
  BY <1>1
<1>7. c \in ResultColumns
  BY <1>1, <1>3, <1>5, <1>6, IsResultColumn
<1>8. c[1] = 1 /\ c[2] = Places(1)[k]
  OBVIOUS
<1>9. ColumnName(c) = side.key[k]
  BY <1>1, <1>2, <1>8 DEF ColumnName
<1>10. NamedRightly(side.key[k], c)
  <2>1. Len(side.joins) \in Nat
    BY StreamsAre
  <2>2. \A d \in ResultColumns : 1 <= d[1]
    BY <2>1, ResultColumnIs
  <2> QED BY <1>8, <1>9, <2>2 DEF NamedRightly
<1>11. (CHOOSE j \in DOMAIN side.key : side.key[j] = Head(Streams[1])[c[2]]) = k
  <2>1. \A j \in DOMAIN side.key : side.key[j] = Head(Streams[1])[c[2]] <=> j = k
    BY <1>1, <1>2, <1>5, <1>8 DEF KeysAgree
  <2> QED BY <1>5, <2>1
<1>12. ASSUME NEW a PROVE ValueOf(a, c) = KeyOfCombination(a)[k]
  <2>1. c[2] \in KeyColumns(c[1])
    BY <1>6, <1>8
  <2>2. ValueOf(a, c) = KeyOfCombination(a)[
           CHOOSE j \in DOMAIN side.key : side.key[j] = Head(Streams[1])[c[2]]]
    BY <2>1, Zenon DEF ValueOf
  <2> QED BY <1>11, <2>2
<1> QED BY <1>7, <1>9, <1>10, <1>12

\* The value of a combination in a column that is no key.
LEMMA PlainValueIs ==
  ASSUME NEW c, c[2] \notin KeyColumns(c[1]), NEW a
  PROVE  ValueOf(a, c) = IF a[c[1]] = 0 THEN <<>> ELSE Streams[c[1]][a[c[1]]][c[2]]
BY DEF ValueOf

\* The columns of a result: the keys first, when there are several.
FinalCols(cols, w) ==
  IF MultiKey
    THEN [p \in 1 .. Len(side.key) + w - 1 |->
            IF p <= Len(side.key) THEN <<1, Places(1)[p]>> ELSE cols[p - Len(side.key) + 1]]
    ELSE [p \in 1 .. w |-> IF p = KeyPlace(1) THEN <<1, Places(1)[1]>> ELSE cols[p]]

\* The plain columns of all streams are the columns of the result that are no keys.
LEMMA PlainColumnsAre ==
  ASSUME JoinInv, NEW N, N = Len(side.joins) + 1
  PROVE  /\ \A c \in PlainColumns(N) : c \in ResultColumns /\ c[2] \notin KeyColumns(c[1])
         /\ \A c \in ResultColumns : c \notin PlainColumns(N) => c[2] \in KeyColumns(1) /\ c[1] = 1
<1>1. \A c \in ResultColumns : c[1] <= N
  <2>1. Len(side.joins) \in Nat
    BY StreamsAre
  <2> QED BY <2>1, ResultColumnIs
<1>2. \A c \in ResultColumns : c[2] \in KeyColumns(c[1]) => c[1] = 1
  BY ResultColumnIs
<1> QED BY <1>1, <1>2 DEF PlainColumns

\* One key: its column has its place in the header already.
LEMMA OneKeyColumns ==
  ASSUME JoinInv, AreTables, KeysAgree, ~ MultiKey, NEW N, N = Len(side.joins) + 1, HasKeys(1),
         NEW hdr, NEW cols, ChainColumns(hdr, cols, N), NEW fcols, fcols = FinalCols(cols, Len(hdr))
  PROVE  FinalColumns(hdr, fcols)
<1> DEFINE K == KeyPlace(1)
           W == Len(hdr)
           kc == <<1, Places(1)[1]>>
<1>1. fcols = [p \in 1 .. W |-> IF p = K THEN kc ELSE cols[p]]
  BY DEF FinalCols
<1>2. /\ hdr \in Seq(Seq(STRING)) /\ K \in 1 .. W /\ hdr[K] = KeyName(1)
      /\ \A p \in 1 .. W : p # K => cols[p] \in PlainColumns(N) /\ NamedRightly(hdr[p], cols[p])
      /\ \A p, q \in 1 .. W : p # K /\ q # K /\ cols[p] = cols[q] => p = q
      /\ \A c \in PlainColumns(N) : \E p \in 1 .. W : p # K /\ cols[p] = c
  BY DEF ChainColumns
<1>3. Len(side.key) = 1
  <2>1. Len(side.key) \in Nat \ {0}
    BY PlacesAre
  <2>2. \A x \in Nat \ {0} : ~ (x > 1) => x = 1
    OBVIOUS
  <2> QED BY <2>1, <2>2 DEF MultiKey
<1>4. kc \in ResultColumns /\ NamedRightly(side.key[1], kc)
  <2>1. 1 \in 1 .. Len(side.key)
    BY <1>3
  <2> QED BY <2>1, KeyColumnIs
<1>5. side.key[1] = KeyName(1)
  <2>1. StreamKeys(1) = side.key /\ side.key \in Cells
    BY KeysAre, PlacesAre
  <2>2. side.key = <<side.key[1]>> /\ side.key[1] \in Seq(STRING)
    BY <1>3, <2>1, SingleIs DEF Cells
  <2>3. FlattenSeq(<<side.key[1]>>) = side.key[1]
    BY <2>2, FlattenSeqOne
  <2> QED BY <2>1, <2>2, <2>3 DEF KeyName
<1>6. KeyColumns(1) = {Places(1)[1]}
  <2>1. KeyColumns(1) = {Places(1)[j] : j \in 1 .. Len(side.key)}
    BY PlacesAre
  <2> QED BY <1>3, <2>1
<1>7. kc \notin PlainColumns(N) /\ \A c \in ResultColumns : c \notin PlainColumns(N) => c = kc
  <2>1. kc[1] = 1 /\ kc[2] = Places(1)[1]
    OBVIOUS
  <2>2. ASSUME NEW c \in ResultColumns, c \notin PlainColumns(N) PROVE c = kc
    <3>1. c = <<c[1], c[2]>>
      BY ResultColumnIs
    <3>2. c[1] = 1 /\ c[2] \in KeyColumns(1)
      BY <2>2, PlainColumnsAre
    <3> QED BY <1>6, <3>1, <3>2
  <2> HIDE DEF kc
  <2> QED BY <1>6, <2>1, <2>2 DEF PlainColumns
<1>8. \A c \in PlainColumns(N) : c \in ResultColumns
  BY PlainColumnsAre
<1> HIDE DEF K, W, kc
<1>9. \A p \in 1 .. W : fcols[p] = IF p = K THEN kc ELSE cols[p]
  BY <1>1
<1>10. \A p \in 1 .. W : fcols[p] \in ResultColumns /\ NamedRightly(hdr[p], fcols[p])
  <2> SUFFICES ASSUME NEW p \in 1 .. W
               PROVE  fcols[p] \in ResultColumns /\ NamedRightly(hdr[p], fcols[p])
    OBVIOUS
  <2>1. CASE p = K
    <3>1. fcols[p] = kc /\ hdr[p] = side.key[1]
      BY <1>2, <1>5, <1>9, <2>1
    <3> QED BY <1>4, <3>1
  <2>2. CASE p # K
    <3>1. fcols[p] = cols[p]
      BY <1>9, <2>2
    <3> QED BY <1>2, <1>8, <2>2, <3>1
  <2> QED BY <2>1, <2>2
<1>11. \A p, q \in 1 .. W : fcols[p] = fcols[q] => p = q
  BY <1>2, <1>7, <1>9
<1>12. ASSUME NEW c \in ResultColumns PROVE \E p \in 1 .. W : fcols[p] = c
  <2>1. CASE c \in PlainColumns(N)
    BY <1>2, <1>9, <2>1
  <2>2. CASE c \notin PlainColumns(N)
    BY <1>2, <1>7, <1>9, <2>2
  <2> QED BY <2>1, <2>2
<1> QED BY <1>2, <1>10, <1>11, <1>12 DEF FinalColumns, W

-----------------------------------------------------------------------------
\* One key: the rows have the values of those columns.
LEMMA OneKeyRows ==
  ASSUME JoinInv, AreTables, KeysAgree, ~ MultiKey, NEW N, N = Len(side.joins) + 1, HasKeys(1),
         NEW hdr, NEW cols, ChainColumns(hdr, cols, N), NEW fcols, fcols = FinalCols(cols, Len(hdr)),
         NEW rows, NEW F, FullRows(rows, F, Combinations, cols, Len(hdr)),
         \A a \in Combinations : IsKeyOf(KeyOfCombination(a))
  PROVE  FinalRows(rows, hdr, fcols)
<1> DEFINE K == KeyPlace(1)
           W == Len(hdr)
           kc == <<1, Places(1)[1]>>
           C == Combinations
           G == [a \in C |-> [p \in 1 .. W |-> ValueOf(a, fcols[p])]]
<1>1. fcols = [p \in 1 .. W |-> IF p = K THEN kc ELSE cols[p]]
  BY DEF FinalCols
<1>2. \A p \in 1 .. W : p # K => cols[p] \in PlainColumns(N)
  BY DEF ChainColumns
<1>3. /\ IsSeq(rows) /\ Lists(rows, F, C)
      /\ \A a \in C, p \in 1 .. W : CellAt(F[a], p) = ValueAt(cols, a, p)
      /\ \A a \in C : HasWidth(F[a], W)
  BY DEF FullRows, RowsAre
<1>4. \A a : ValueOf(a, kc) = KeyOfCombination(a)[1]
  <2>1. 1 \in 1 .. Len(side.key)
    <3>1. Len(side.key) \in Nat \ {0}
      BY PlacesAre
    <3> QED BY <3>1
  <2> QED BY <2>1, KeyColumnIs
<1> HIDE DEF K, W, kc, C
<1>5. ASSUME NEW a \in C, NEW p \in 1 .. W PROVE F[a][p] = ValueOf(a, fcols[p])
  <2>1. F[a][p] = ValueAt(cols, a, p)
    <3>1. p \in DOMAIN F[a]
      BY <1>3 DEF HasWidth
    <3>2. CellAt(F[a], p) = ValueAt(cols, a, p)
      BY <1>3
    <3> QED BY <3>1, <3>2 DEF CellAt
  <2>2. CASE p = K
    <3> DEFINE key == KeyOfCombination(a)
    <3>1. IsKeyOf(key)
      BY DEF C
    <3> HIDE DEF key
    <3>2. key = <<FlattenSeq(key)>>
      BY <3>1, KeyIsCells
    <3>3. key[1] = FlattenSeq(key)
      BY <3>2
    <3>4. fcols[p] = kc
      BY <1>1, <2>2
    <3>5. ValueAt(cols, a, p) = FlattenSeq(key)
      BY <2>2 DEF ValueAt, K, key
    <3>6. ValueOf(a, kc) = key[1]
      BY <1>4 DEF key
    <3> QED BY <2>1, <3>3, <3>4, <3>5, <3>6
  <2>3. CASE p # K
    <3> DEFINE c == cols[p]
    <3>1. fcols[p] = c /\ c[2] \notin KeyColumns(c[1])
      <4>1. c \in PlainColumns(N)
        BY <1>2, <2>3
      <4> QED BY <1>1, <2>3, <4>1 DEF PlainColumns
    <3>2. ValueAt(cols, a, p) = IF a[c[1]] = 0 THEN <<>> ELSE Streams[c[1]][a[c[1]]][c[2]]
      BY <2>3 DEF ValueAt, K
    <3> HIDE DEF c
    <3>3. ValueOf(a, c) = IF a[c[1]] = 0 THEN <<>> ELSE Streams[c[1]][a[c[1]]][c[2]]
      BY <3>1, PlainValueIs
    <3> QED BY <2>1, <3>1, <3>2, <3>3
  <2> QED BY <2>2, <2>3
<1>6. AgreeOn(F, G, C)
  <2> SUFFICES ASSUME NEW a \in C PROVE F[a] = G[a]
    BY DEF AgreeOn
  <2>1. F[a] = [p \in 1 .. W |-> F[a][p]]
    BY <1>3 DEF HasWidth
  <2>2. G[a] = [p \in 1 .. W |-> ValueOf(a, fcols[p])]
    OBVIOUS
  <2>3. \A p \in 1 .. W : F[a][p] = ValueOf(a, fcols[p])
    BY <1>5
  <2> QED BY <2>1, <2>2, <2>3
<1> HIDE DEF G
<1>7. Lists(rows, G, C)
  BY <1>3, <1>6, ListsSame
<1> QED BY <1>3, <1>7 DEF FinalRows, G, C, W

\* gawk: several keys, each a word, are the first cells of the line.
Widened(key, line, w) ==
  [p \in 1 .. Len(key) + w - 1 |-> IF p <= Len(key) THEN key[p] ELSE line[p - Len(key) + 1]]

\* A line of which the keys are several cells again.
LEMMA ExpandedIs ==
  ASSUME NEW key \in Seq(Seq(STRING)), \A k \in 1 .. Len(key) : Len(key[k]) = 1,
         NEW w \in Nat \ {0}, NEW line, HasWidth(line, w), line[1] = FlattenSeq(key)
  PROVE  Expanded(line) = Widened(key, line, w)
<1> DEFINE e == [n \in DOMAIN line[1] |-> <<line[1][n]>>]
           X == {line[p] : p \in 1 .. w}
           Y == Seq(STRING) \union X
           L == Len(key)
<1>1. L \in Nat /\ DOMAIN key = 1 .. L
  BY LenProperties
<1>2. FlattenSeq(key) \in Seq(STRING) /\ Len(FlattenSeq(key)) = L
      /\ \A n \in 1 .. L : <<FlattenSeq(key)[n]>> = key[n]
  BY FlattenSingles
<1>3. e = key
  <2>1. DOMAIN FlattenSeq(key) = 1 .. L
    BY <1>2, LenProperties
  <2>2. e = [n \in 1 .. L |-> <<FlattenSeq(key)[n]>>]
    BY <2>1
  <2>3. key = [n \in 1 .. L |-> key[n]]
    BY <1>1
  <2> QED BY <1>2, <2>2, <2>3
<1>4. line \in Seq(X) /\ Len(line) = w
  <2>1. line \in [1 .. w -> X]
    BY DEF HasWidth
  <2> HIDE DEF X
  <2> QED BY <2>1, SeqOfFunction
<1>5. key \in Seq(Y) /\ line \in Seq(Y)
  <2>1. Seq(STRING) \subseteq Y /\ X \subseteq Y
    OBVIOUS
  <2> DEFINE Z == Seq(STRING)
  <2>2. key \in Seq(Z) /\ Z \subseteq Y
    BY <2>1
  <2> HIDE DEF X, Y, Z
  <2> QED BY <1>4, <2>1, <2>2, SeqMonotonic
<1> HIDE DEF e, X, Y
<1>6. line # <<>>
  BY <1>4
<1>7. Tail(line) \in Seq(Y) /\ Len(Tail(line)) = w - 1
      /\ \A i \in 1 .. w - 1 : Tail(line)[i] = line[i + 1]
  BY <1>4, <1>5, <1>6, HeadTailProperties
<1>8. Expanded(line) = key \o Tail(line)
  BY <1>3 DEF Expanded, e
<1> DEFINE t == Tail(line)
           u == key \o t
<1>9. t \in Seq(Y) /\ Len(t) = w - 1
  BY <1>7
<1> HIDE DEF t
<1>10. u \in Seq(Y) /\ Len(u) = L + (w - 1)
       /\ \A p \in 1 .. L + (w - 1) : u[p] = IF p <= L THEN key[p] ELSE t[p - L]
  <2>1. u \in Seq(Y) /\ Len(u) = Len(key) + Len(t)
        /\ \A p \in 1 .. Len(key) + Len(t) : u[p] = IF p <= Len(key) THEN key[p] ELSE t[p - Len(key)]
    BY <1>5, <1>9, ConcatProperties
  <2> HIDE DEF u
  <2> QED BY <1>9, <2>1
<1> HIDE DEF u
<1>11. L + (w - 1) = L + w - 1
  BY <1>1
<1>12. DOMAIN u = 1 .. L + w - 1 /\ u = [p \in DOMAIN u |-> u[p]]
  BY <1>10, <1>11, LenProperties
<1>13. ASSUME NEW p \in 1 .. L + w - 1 PROVE u[p] = IF p <= L THEN key[p] ELSE line[p - L + 1]
  <2>1. CASE p <= L
    BY <1>10, <1>11, <2>1
  <2>2. CASE ~ (p <= L)
    <3>1. p - L \in 1 .. w - 1
      BY <1>1, <2>2
    <3> QED BY <1>7, <1>10, <1>11, <2>2, <3>1 DEF t
  <2> QED BY <2>1, <2>2
<1> QED BY <1>8, <1>12, <1>13 DEF Widened, u, t

-----------------------------------------------------------------------------
\* Several keys: each of them is a word.
LEMMA KeysAreWords ==
  ASSUME JoinInv, AreTables, KeysAgree, MultiKey, HasKeys(1)
  PROVE  /\ side.key \in Seq(Seq(STRING)) /\ \A k \in 1 .. Len(side.key) : Len(side.key[k]) = 1
         /\ Len(side.key) \in Nat \ {0} /\ KeyPlace(1) = 1 /\ KeyName(1) = FlattenSeq(side.key)
<1>1. StreamKeys(1) = side.key
  BY KeysAre
<1>2. KeyOf(1, 1) = StreamKeys(1) /\ 1 \in DOMAIN Streams
  BY PlacesAre DEF HasKeys
<1>3. 1 \in 1 .. Len(Streams[1])
  <2>1. Len(Streams[1]) \in Nat \ {0}
    BY PreparedHeader
  <2> QED BY <2>1
<1>4. IsKeyOf(side.key)
  BY <1>1, <1>2, <1>3 DEF IsKeyOf
<1> DEFINE key == side.key
<1>5. IsKeyOf(key)
  BY <1>4
<1> HIDE DEF key
<1>6. key \in Seq(Seq(STRING)) /\ Len(side.key) \in Nat \ {0} /\ \A k \in 1 .. Len(key) : Len(key[k]) = 1
  BY <1>5, KeyIsCells
<1>7. IsPrepared(1)
  BY PreparedIs
<1>8. KeyPlace(1) = 1
  BY <1>7 DEF IsPrepared
<1>9. KeyName(1) = FlattenSeq(side.key)
  BY <1>1 DEF KeyName
<1> QED BY <1>6, <1>8, <1>9 DEF key

\* In the same way where there are several keys.
LEMMA SeveralKeysColumns ==
  ASSUME JoinInv, AreTables, KeysAgree, MultiKey, NEW N, N = Len(side.joins) + 1, HasKeys(1),
         NEW hdr, NEW cols, ChainColumns(hdr, cols, N), NEW fcols, fcols = FinalCols(cols, Len(hdr)),
         NEW hdr2, hdr2 = Expanded(hdr)
  PROVE  FinalColumns(hdr2, fcols) /\ Len(hdr2) = Len(side.key) + Len(hdr) - 1
<1> DEFINE L == Len(side.key)
           W == Len(hdr)
           V == L + W - 1
           kc(p) == <<1, Places(1)[p]>>
<1>1. /\ side.key \in Seq(Seq(STRING)) /\ L \in Nat \ {0} /\ KeyPlace(1) = 1
      /\ KeyName(1) = FlattenSeq(side.key) /\ \A k \in 1 .. Len(side.key) : Len(side.key[k]) = 1
  BY KeysAreWords
<1>2. fcols = [p \in 1 .. V |-> IF p <= L THEN kc(p) ELSE cols[p - L + 1]]
  BY DEF FinalCols
<1>3. /\ hdr \in Seq(Seq(STRING)) /\ 1 \in 1 .. W /\ hdr[1] = KeyName(1)
      /\ \A p \in 1 .. W : p # 1 => cols[p] \in PlainColumns(N) /\ NamedRightly(hdr[p], cols[p])
      /\ \A p, q \in 1 .. W : p # 1 /\ q # 1 /\ cols[p] = cols[q] => p = q
      /\ \A c \in PlainColumns(N) : \E p \in 1 .. W : p # 1 /\ cols[p] = c
  BY <1>1 DEF ChainColumns
<1>4. W \in Nat \ {0} /\ HasWidth(hdr, W)
  <2>1. W \in Nat /\ DOMAIN hdr = 1 .. W /\ hdr = [p \in DOMAIN hdr |-> hdr[p]]
    BY <1>3, LenProperties
  <2>2. W # 0
    <3> HIDE DEF W
    <3> QED BY <1>3
  <2> QED BY <2>1, <2>2 DEF HasWidth
<1>5. hdr2 = Widened(side.key, hdr, W)
  <2> DEFINE key == side.key
  <2>1. /\ key \in Seq(Seq(STRING)) /\ \A k \in 1 .. Len(key) : Len(key[k]) = 1
        /\ hdr[1] = FlattenSeq(key) /\ W \in Nat \ {0} /\ HasWidth(hdr, W)
    BY <1>1, <1>3, <1>4
  <2> HIDE DEF key, W
  <2>2. Expanded(hdr) = Widened(key, hdr, W)
    BY <2>1, ExpandedIs
  <2> QED BY <2>2 DEF key
<1>6. \A p \in 1 .. L :
        /\ kc(p) \in ResultColumns /\ NamedRightly(side.key[p], kc(p))
        /\ side.key[p] \in Seq(STRING)
  <2> SUFFICES ASSUME NEW p \in 1 .. L
               PROVE  /\ kc(p) \in ResultColumns /\ NamedRightly(side.key[p], kc(p))
                      /\ side.key[p] \in Seq(STRING)
    OBVIOUS
  <2>1. kc(p) \in ResultColumns /\ NamedRightly(side.key[p], kc(p))
    BY KeyColumnIs
  <2>2. side.key[p] \in Seq(STRING)
    <3> DEFINE Z == Seq(STRING)
    <3>1. side.key \in Seq(Z)
      BY <1>1
    <3> HIDE DEF Z
    <3>2. side.key[p] \in Z
      BY <3>1, ElementOfSeq
    <3> QED BY <3>2 DEF Z
  <2> QED BY <2>1, <2>2
<1>7. \A p \in 1 .. L : Places(1)[p] \in KeyColumns(1)
  <2>1. KeyColumns(1) = {Places(1)[k] : k \in 1 .. Len(side.key)}
    BY PlacesAre
  <2> QED BY <2>1
<1>8. \A p, q \in 1 .. L : kc(p) = kc(q) => p = q
  <2> SUFFICES ASSUME NEW p \in 1 .. L, NEW q \in 1 .. L, kc(p) = kc(q) PROVE p = q
    OBVIOUS
  <2>1. Places(1)[p] = Places(1)[q]
    OBVIOUS
  <2>2. \A k \in 1 .. L : Head(Streams[1])[Places(1)[k]] = StreamKeys(1)[k]
    BY PlacesAre
  <2>3. StreamKeys(1) = side.key
    BY KeysAre
  <2>4. side.key[p] = side.key[q]
    BY <2>1, <2>2, <2>3
  <2>5. DOMAIN side.key = 1 .. L
    BY <1>1, LenProperties
  <2> QED BY <2>4, <2>5 DEF KeysAgree
<1>9. \A p \in 1 .. L : kc(p) \notin PlainColumns(N)
  BY <1>7 DEF PlainColumns
<1>10. ASSUME NEW c \in ResultColumns, c \notin PlainColumns(N) PROVE \E p \in 1 .. L : kc(p) = c
  <2>1. c = <<c[1], c[2]>>
    BY ResultColumnIs
  <2>2. c[1] = 1 /\ c[2] \in KeyColumns(1)
    BY <1>10, PlainColumnsAre
  <2>3. KeyColumns(1) = {Places(1)[k] : k \in 1 .. Len(side.key)}
    BY PlacesAre
  <2>4. PICK p \in 1 .. L : c[2] = Places(1)[p]
    BY <2>2, <2>3
  <2> QED BY <2>1, <2>2, <2>4
<1>11. \A c \in PlainColumns(N) : c \in ResultColumns
  BY PlainColumnsAre
<1> HIDE DEF L, W, kc
<1>12. ASSUME NEW p \in 1 .. V
       PROVE  /\ p <= L => p \in 1 .. L /\ fcols[p] = kc(p) /\ hdr2[p] = side.key[p]
              /\ ~ (p <= L) => /\ p - L + 1 \in 1 .. W /\ p - L + 1 # 1
                              /\ fcols[p] = cols[p - L + 1] /\ hdr2[p] = hdr[p - L + 1]
  <2>1. hdr2[p] = IF p <= L THEN side.key[p] ELSE hdr[p - L + 1]
    BY <1>5 DEF Widened, L
  <2>2. fcols[p] = IF p <= L THEN kc(p) ELSE cols[p - L + 1]
    BY <1>2
  <2>3. (p <= L => p \in 1 .. L) /\ (~ (p <= L) => p - L + 1 \in 1 .. W /\ p - L + 1 # 1)
    BY <1>1, <1>4
  <2> QED BY <2>1, <2>2, <2>3
<1>13. hdr2 \in Seq(Seq(STRING)) /\ Len(hdr2) = V
  <2> DEFINE Z == Seq(STRING)
  <2>1. hdr2 = [p \in 1 .. V |-> hdr2[p]]
    BY <1>5 DEF Widened, L
  <2>2. \A q \in 1 .. W : hdr[q] \in Z
    <3>1. hdr \in Seq(Z)
      BY <1>3
    <3> HIDE DEF Z
    <3> QED BY <3>1, ElementOfSeq DEF W
  <2>3. \A p \in 1 .. V : hdr2[p] \in Z
    BY <1>6, <1>12, <2>2
  <2>4. V \in Nat
    BY <1>1, <1>4
  <2> HIDE DEF V, Z
  <2>5. hdr2 \in [1 .. V -> Z]
    BY <2>1, <2>3
  <2>6. hdr2 \in Seq(Z) /\ Len(hdr2) = V
    BY <2>4, <2>5, SeqOfFunction
  <2> QED BY <2>6 DEF Z
<1>14. ASSUME NEW p \in 1 .. V PROVE fcols[p] \in ResultColumns /\ NamedRightly(hdr2[p], fcols[p])
  <2>1. CASE p <= L
    <3>1. p \in 1 .. L /\ fcols[p] = kc(p) /\ hdr2[p] = side.key[p]
      BY <1>12, <2>1
    <3>2. kc(p) \in ResultColumns /\ NamedRightly(side.key[p], kc(p))
      BY <1>6, <3>1
    <3> QED BY <3>1, <3>2
  <2>2. CASE ~ (p <= L)
    <3> DEFINE q == p - L + 1
    <3>1. q \in 1 .. W /\ q # 1 /\ fcols[p] = cols[q] /\ hdr2[p] = hdr[q]
      BY <1>12, <2>2
    <3> HIDE DEF q
    <3>2. cols[q] \in ResultColumns /\ NamedRightly(hdr[q], cols[q])
      BY <1>3, <1>11, <3>1
    <3> QED BY <3>1, <3>2
  <2> QED BY <2>1, <2>2
<1>15. ASSUME NEW p \in 1 .. V, NEW q \in 1 .. V, fcols[p] = fcols[q] PROVE p = q
  <2>1. CASE p <= L /\ q <= L
    BY <1>8, <1>12, <1>15, <2>1
  <2>2. CASE p <= L /\ ~ (q <= L)
    <3> DEFINE y == q - L + 1
    <3>1. p \in 1 .. L /\ fcols[p] = kc(p) /\ y \in 1 .. W /\ y # 1 /\ fcols[q] = cols[y]
      BY <1>12, <2>2
    <3> HIDE DEF y
    <3>2. fcols[p] \notin PlainColumns(N) /\ fcols[q] \in PlainColumns(N)
      BY <1>3, <1>9, <3>1
    <3> QED BY <1>15, <3>2
  <2>3. CASE ~ (p <= L) /\ q <= L
    <3> DEFINE y == p - L + 1
    <3>1. q \in 1 .. L /\ fcols[q] = kc(q) /\ y \in 1 .. W /\ y # 1 /\ fcols[p] = cols[y]
      BY <1>12, <2>3
    <3> HIDE DEF y
    <3>2. fcols[q] \notin PlainColumns(N) /\ fcols[p] \in PlainColumns(N)
      BY <1>3, <1>9, <3>1
    <3> QED BY <1>15, <3>2
  <2>4. CASE ~ (p <= L) /\ ~ (q <= L)
    <3> DEFINE x == p - L + 1
               y == q - L + 1
    <3>1. x \in 1 .. W /\ x # 1 /\ fcols[p] = cols[x] /\ y \in 1 .. W /\ y # 1 /\ fcols[q] = cols[y]
      BY <1>12, <2>4
    <3>2. x = y => p = q
      BY <1>1, <1>4
    <3> HIDE DEF x, y
    <3>3. cols[x] = cols[y]
      BY <1>15, <3>1
    <3>4. \A i, j \in 1 .. W : i # 1 /\ j # 1 /\ cols[i] = cols[j] => i = j
      BY <1>3
    <3>5. x = y
      BY <3>1, <3>3, <3>4
    <3> QED BY <3>2, <3>5
  <2> QED BY <2>1, <2>2, <2>3, <2>4
<1>16. ASSUME NEW c \in ResultColumns PROVE \E p \in 1 .. V : fcols[p] = c
  <2>1. CASE c \in PlainColumns(N)
    <3>1. PICK q \in 1 .. W : q # 1 /\ cols[q] = c
      BY <1>3, <2>1
    <3> DEFINE p == q + L - 1
    <3>2. p \in 1 .. V /\ ~ (p <= L) /\ p - L + 1 = q
      BY <1>1, <1>4, <3>1
    <3> HIDE DEF p
    <3>3. fcols[p] = cols[q]
      BY <1>12, <3>2
    <3> QED BY <3>1, <3>2, <3>3
  <2>2. CASE c \notin PlainColumns(N)
    <3>1. PICK p \in 1 .. L : kc(p) = c
      BY <1>10, <2>2
    <3>2. p \in 1 .. V /\ p <= L
      BY <1>1, <1>4
    <3>3. fcols[p] = kc(p)
      BY <1>12, <3>2
    <3> QED BY <3>1, <3>2, <3>3
  <2> QED BY <2>1, <2>2
<1> QED BY <1>13, <1>14, <1>15, <1>16 DEF FinalColumns, L, W

-----------------------------------------------------------------------------
\* Several keys: the rows have them first, and then the values of the other columns.
LEMMA SeveralKeysRows ==
  ASSUME JoinInv, AreTables, KeysAgree, MultiKey, NEW N, N = Len(side.joins) + 1, HasKeys(1),
         NEW hdr, NEW cols, ChainColumns(hdr, cols, N), NEW fcols, fcols = FinalCols(cols, Len(hdr)),
         NEW rows, NEW F, FullRows(rows, F, Combinations, cols, Len(hdr)),
         \A a \in Combinations : IsKeyOf(KeyOfCombination(a)),
         NEW rows2, rows2 = [n \in DOMAIN rows |-> Expanded(rows[n])],
         NEW hdr2, Len(hdr2) = Len(side.key) + Len(hdr) - 1
  PROVE  FinalRows(rows2, hdr2, fcols)
<1> DEFINE L == Len(side.key)
           W == Len(hdr)
           V == L + W - 1
           C == Combinations
           G == [a \in C |-> [p \in 1 .. V |-> ValueOf(a, fcols[p])]]
           kc(p) == <<1, Places(1)[p]>>
<1>1. L \in Nat \ {0} /\ KeyPlace(1) = 1
  BY KeysAreWords
<1>2. fcols = [p \in 1 .. V |-> IF p <= L THEN kc(p) ELSE cols[p - L + 1]]
  BY DEF FinalCols
<1>3. W \in Nat \ {0} /\ \A p \in 1 .. W : p # 1 => cols[p] \in PlainColumns(N)
  <2>1. hdr \in Seq(Seq(STRING)) /\ 1 \in 1 .. W /\ \A p \in 1 .. W : p # 1 => cols[p] \in PlainColumns(N)
    BY <1>1 DEF ChainColumns
  <2>2. W \in Nat
    BY <2>1, LenProperties
  <2> HIDE DEF W
  <2> QED BY <2>1, <2>2
<1>4. /\ IsSeq(rows) /\ Lists(rows, F, C)
      /\ \A a \in C, p \in 1 .. W : CellAt(F[a], p) = ValueAt(cols, a, p)
      /\ \A a \in C : HasWidth(F[a], W)
  BY DEF FullRows, RowsAre
<1>5. \A p \in 1 .. L, a \in C : ValueOf(a, kc(p)) = KeyOfCombination(a)[p]
  <2> SUFFICES ASSUME NEW p \in 1 .. L, NEW a \in C PROVE ValueOf(a, kc(p)) = KeyOfCombination(a)[p]
    OBVIOUS
  <2> QED BY KeyColumnIs
<1>6. \A a \in C : IsKeyOf(KeyOfCombination(a))
  OBVIOUS
<1> HIDE DEF L, W, kc, C
<1>7. ASSUME NEW a \in C, NEW q \in 1 .. W PROVE F[a][q] = ValueAt(cols, a, q)
  <2>1. q \in DOMAIN F[a]
    BY <1>4 DEF HasWidth
  <2>2. CellAt(F[a], q) = ValueAt(cols, a, q)
    BY <1>4
  <2> QED BY <2>1, <2>2 DEF CellAt
<1>8. ASSUME NEW a \in C PROVE Expanded(F[a]) = G[a]
  <2> DEFINE key == KeyOfCombination(a)
             line == F[a]
  <2>1. IsKeyOf(key)
    BY <1>6
  <2>2. HasWidth(line, W)
    BY <1>4
  <2>3. line[1] = FlattenSeq(key)
    <3>1. 1 \in 1 .. W
      BY <1>3
    <3>2. line[1] = ValueAt(cols, a, 1)
      BY <1>7, <3>1
    <3>3. ValueAt(cols, a, 1) = FlattenSeq(key)
      BY <1>1 DEF ValueAt
    <3> QED BY <3>2, <3>3
  <2>4. \A p \in 1 .. L : ValueOf(a, kc(p)) = key[p]
    BY <1>5
  <2> HIDE DEF key, line
  <2>5. key \in Seq(Seq(STRING)) /\ Len(key) = L /\ \A k \in 1 .. Len(key) : Len(key[k]) = 1
    BY <2>1, KeyIsCells DEF L
  <2>6. Expanded(line) = Widened(key, line, W)
    BY <1>3, <2>2, <2>3, <2>5, ExpandedIs
  <2>7. Widened(key, line, W) = [p \in 1 .. V |-> IF p <= L THEN key[p] ELSE line[p - L + 1]]
    BY <2>5 DEF Widened
  <2>8. ASSUME NEW p \in 1 .. V
        PROVE  (IF p <= L THEN key[p] ELSE line[p - L + 1]) = ValueOf(a, fcols[p])
    <3>1. CASE p <= L
      <4>1. p \in 1 .. L
        BY <1>1, <3>1
      <4>2. fcols[p] = kc(p)
        BY <1>2, <3>1
      <4> QED BY <2>4, <3>1, <4>1, <4>2
    <3>2. CASE ~ (p <= L)
      <4> DEFINE q == p - L + 1
                 c == cols[q]
      <4>1. q \in 1 .. W /\ q # 1
        BY <1>1, <1>3, <3>2
      <4>2. fcols[p] = c
        BY <1>2, <3>2
      <4> HIDE DEF q
      <4>3. line[q] = ValueAt(cols, a, q)
        BY <1>7, <4>1 DEF line
      <4>4. ValueAt(cols, a, q) = IF a[c[1]] = 0 THEN <<>> ELSE Streams[c[1]][a[c[1]]][c[2]]
        BY <1>1, <4>1 DEF ValueAt
      <4>5. c[2] \notin KeyColumns(c[1])
        BY <1>3, <4>1 DEF PlainColumns
      <4> HIDE DEF c
      <4>6. ValueOf(a, c) = IF a[c[1]] = 0 THEN <<>> ELSE Streams[c[1]][a[c[1]]][c[2]]
        BY <4>5, PlainValueIs
      <4>7. line[q] = ValueOf(a, fcols[p])
        BY <4>2, <4>3, <4>4, <4>6
      <4> QED BY <3>2, <4>7 DEF q
    <3> QED BY <3>1, <3>2
  <2>9. G[a] = [p \in 1 .. V |-> ValueOf(a, fcols[p])]
    OBVIOUS
  <2> HIDE DEF V, G
  <2> QED BY <2>6, <2>7, <2>8, <2>9 DEF line
<1> DEFINE X == Range(rows)
           n0 == Len(rows)
<1>9. rows \in Seq(X) /\ n0 \in Nat /\ DOMAIN rows = 1 .. n0
  <2>1. rows \in Seq(X)
    BY <1>4 DEF IsSeq
  <2> HIDE DEF X
  <2> QED BY <2>1, LenProperties
<1>10. rows2 \in Seq({Expanded(rows[n]) : n \in DOMAIN rows}) /\ Len(rows2) = n0
  <2> DEFINE Y == {Expanded(rows[n]) : n \in DOMAIN rows}
  <2>1. rows2 \in [1 .. n0 -> Y]
    BY <1>9
  <2> HIDE DEF Y, n0
  <2>2. rows2 \in Seq(Y) /\ Len(rows2) = n0
    BY <1>9, <2>1, SeqOfFunction
  <2> QED BY <2>2 DEF Y
<1> HIDE DEF G
<1>11. Becomes(rows, rows2, F, G, C)
  <2>1. \A n \in 1 .. Len(rows) : rows2[n] = Expanded(rows[n])
    BY <1>9
  <2>2. \A n \in 1 .. Len(rows) : \A x \in C : rows[n] = F[x] => rows2[n] = G[x]
    BY <1>8, <2>1
  <2> QED BY <1>10, <2>2 DEF Becomes
<1>12. Lists(rows2, G, C)
  BY <1>4, <1>11, ListsBecomes
<1>13. IsSeq(rows2)
  BY <1>10, AnySeq
<1>14. Len(hdr2) = V
  BY DEF L, W
<1> QED BY <1>12, <1>13, <1>14 DEF FinalRows, G, C

-----------------------------------------------------------------------------
\* Every line with its keys in several cells.
EachExpanded(s) == [n \in DOMAIN s |-> Expanded(s[n])]

\* The lines of a stream with one line in front, one by one.
LEMMA ExpandedStream ==
  ASSUME NEW hdr, NEW rows, IsSeq(rows), NEW stream, stream = <<hdr>> \o rows
  PROVE  EachExpanded(stream) = <<Expanded(hdr)>> \o EachExpanded(rows)
<1> DEFINE X == {hdr} \union Range(rows)
           Y == {Expanded(x) : x \in X}
           e == [n \in DOMAIN stream |-> Expanded(stream[n])]
           rows2 == [n \in DOMAIN rows |-> Expanded(rows[n])]
           x == Expanded(hdr)
           u == <<x>> \o rows2
           L == Len(rows)
<1>1. rows \in Seq(X) /\ hdr \in X
  <2>1. rows \in Seq(Range(rows)) /\ Range(rows) \subseteq X
    BY DEF IsSeq
  <2> HIDE DEF X
  <2> QED BY <2>1, SeqMonotonic DEF X
<1> HIDE DEF X
<1>2. L \in Nat /\ DOMAIN rows = 1 .. L /\ \A n \in 1 .. L : rows[n] \in X
  BY <1>1, LenProperties, ElementOfSeq
<1>3. /\ stream \in Seq(X) /\ Len(stream) = L + 1 /\ stream[1] = hdr
      /\ \A q \in 1 .. L + 1 : q # 1 => q - 1 \in 1 .. L /\ stream[q] = rows[q - 1]
  BY <1>1, ConsIs
<1>4. DOMAIN stream = 1 .. L + 1
  BY <1>2, <1>3, LenProperties
<1>5. rows2 \in Seq(Y) /\ Len(rows2) = L /\ x \in Y
  <2>1. rows2 \in [1 .. L -> Y] /\ x \in Y
    BY <1>1, <1>2
  <2> HIDE DEF Y, rows2, x, L
  <2> QED BY <1>2, <2>1, SeqOfFunction
<1>6. \A n \in 1 .. L : rows2[n] = Expanded(rows[n])
  BY <1>2
<1> HIDE DEF rows2, x, L, Y
<1>7. /\ u \in Seq(Y) /\ Len(u) = L + 1 /\ u[1] = x
      /\ \A q \in 1 .. L + 1 : q # 1 => q - 1 \in 1 .. L /\ u[q] = rows2[q - 1]
  BY <1>5, ConsIs
<1>8. DOMAIN u = 1 .. L + 1
  BY <1>2, <1>7, LenProperties
<1>9. u = [q \in DOMAIN u |-> u[q]]
  BY <1>7
<1> HIDE DEF u
<1>10. \A q \in 1 .. L + 1 : Expanded(stream[q]) = u[q]
  BY <1>3, <1>6, <1>7 DEF x
<1>11. EachExpanded(stream) = [q \in 1 .. L + 1 |-> Expanded(stream[q])]
  BY <1>4 DEF EachExpanded
<1>12. EachExpanded(stream) = u
  BY <1>8, <1>9, <1>10, <1>11
<1> QED BY <1>12 DEF u, x, rows2, EachExpanded

\* What the command prints is the join of the streams.
LEMMA JoinIsMade ==
  ASSUME JoinInv, Joinable, side.joins # <<>>, NEW r, NEW c, StreamsMet(r, c),
         c.next = Len(side.joins) + 1, IsSeq(c.main), IsSeq(c.joinCommand),
         \A n \in 1 .. Len(c.joinCommand) : IsSeq(LinesOf(r, n)),
         NEW cols, Chain(c.outHeader, c.joinCommand, cols, c.next),
         NEW cuts, DOMAIN cuts = {},
         NEW stream, stream = <<c.outHeader>> \o PipedOf(r, c, cuts),
         NEW out, out = IF MultiKey THEN [n \in DOMAIN stream |-> Expanded(stream[n])] ELSE stream
  PROVE  IsTheJoin(out)
<1> DEFINE N == Len(side.joins) + 1
           hdr == c.outHeader
           rows == PipedOf(r, c, cuts)
           W == Len(hdr)
           fcols == FinalCols(cols, W)
<1>1. AreTables /\ KeysAgree /\ NamesApart /\ KeepsAPrefix
  BY DEF Joinable
<1>12. AreCuts(cuts)
  BY DEF AreCuts
<1>2. PICK f : /\ PipedSteps(f, r, c) /\ rows = f[Len(c.joinCommand)]
               /\ IsSeq(f[Len(c.joinCommand)])
  BY <1>12, PipedInSteps
<1>3. /\ AreCombinations(Combinations, Len(Streams))
      /\ \E F : FullRows(f[Len(c.joinCommand)], F, Combinations, cols, W)
  BY <1>1, <1>2, JoinedRows
<1>4. PICK F : FullRows(rows, F, Combinations, cols, W)
  BY <1>2, <1>3
<1>5. ChainColumns(hdr, cols, N) /\ \A m \in 1 .. N : HasKeys(m)
  BY DEF Chain
<1>6. Len(Streams) = N /\ N \in Nat /\ N >= 1
  BY StreamsAre
<1>7. HasKeys(1)
  <2> HIDE DEF N
  <2> QED BY <1>5, <1>6
<1>8. \A a \in Combinations : IsKeyOf(KeyOfCombination(a))
  <2> SUFFICES ASSUME NEW a \in Combinations PROVE IsKeyOf(KeyOfCombination(a))
    OBVIOUS
  <2>1. IsCombination(a, N)
    BY <1>3, <1>6 DEF AreCombinations
  <2> HIDE DEF N
  <2>2. N \in 1 .. Len(Streams)
    BY <1>6
  <2> QED BY <1>5, <2>1, <2>2, CombinationHasKey
<1>9. N = Len(side.joins) + 1 /\ IsSeq(rows) /\ stream = <<hdr>> \o rows
  BY <1>2
<1> HIDE DEF N, hdr, rows
<1>10. CASE ~ MultiKey
  <2>1. FinalColumns(hdr, fcols)
    BY <1>1, <1>5, <1>7, <1>9, <1>10, OneKeyColumns
  <2>2. FinalRows(rows, hdr, fcols)
    BY <1>1, <1>4, <1>5, <1>7, <1>8, <1>9, <1>10, OneKeyRows
  <2>3. out = <<hdr>> \o rows
    BY <1>9, <1>10
  <2> HIDE DEF fcols
  <2> QED BY <1>1, <2>1, <2>2, <2>3, FinalIsTheJoin
<1>11. CASE MultiKey
  <2> DEFINE hdr2 == Expanded(hdr)
             rows2 == [n \in DOMAIN rows |-> Expanded(rows[n])]
  <2>1. FinalColumns(hdr2, fcols) /\ Len(hdr2) = Len(side.key) + W - 1
    BY <1>1, <1>5, <1>7, <1>9, <1>11, SeveralKeysColumns
  <2>2. rows2 = [n \in DOMAIN rows |-> Expanded(rows[n])]
    OBVIOUS
  <2>3. out = <<hdr2>> \o rows2
    <3>1. EachExpanded(stream) = <<Expanded(hdr)>> \o EachExpanded(rows)
      BY <1>9, ExpandedStream
    <3>2. out = EachExpanded(stream)
      BY <1>11 DEF EachExpanded
    <3>3. rows2 = EachExpanded(rows)
      BY DEF EachExpanded
    <3> QED BY <3>1, <3>2, <3>3
  <2> HIDE DEF hdr2, rows2
  <2>4. FinalRows(rows2, hdr2, fcols)
    BY <1>1, <1>4, <1>5, <1>7, <1>8, <1>9, <1>11, <2>1, <2>2, SeveralKeysRows
  <2> HIDE DEF fcols
  <2> QED BY <1>1, <2>1, <2>3, <2>4, FinalIsTheJoin
<1> QED BY <1>10, <1>11

-----------------------------------------------------------------------------
\* The streams and the settings stay, and with them all that is said of them.
LEMMA SameNames ==
  ASSUME UNCHANGED <<side, content>>
  PROVE  /\ Streams' = Streams /\ (MultiKey' <=> MultiKey)
         /\ \A n : StreamKeys(n)' = StreamKeys(n)
         /\ \A n : KeyColumns(n)' = KeyColumns(n)
         /\ \A n, i : KeyOf(n, i)' = KeyOf(n, i)
         /\ \A n, i : Wanted(n, i)' <=> Wanted(n, i)
         /\ \A c : ColumnName(c)' = ColumnName(c)
         /\ \A c : PrefixedName(c)' = PrefixedName(c)
<1>0. side' = side /\ content' = content
  OBVIOUS
<1>1. MainStream' = MainStream
  BY <1>0 DEF MainStream
<1>2. Streams' = Streams
  BY <1>0, <1>1 DEF Streams
<1>3. MultiKey' <=> MultiKey
  BY <1>0 DEF MultiKey
<1>4. \A n : StreamKeys(n)' = StreamKeys(n)
  BY <1>0 DEF StreamKeys, ConfiguredKeys
<1>5. \A n : KeyColumns(n) = {KeyIndex(Head(Streams[n]), StreamKeys(n)[k]) : k \in DOMAIN StreamKeys(n)}
  BY DEF KeyColumns, StreamKeys
<1>6. \A n : KeyColumns(n)' = {KeyIndex(Head(Streams'[n]), StreamKeys(n)'[k]) : k \in DOMAIN StreamKeys(n)'}
  BY DEF KeyColumns, StreamKeys
<1>7. \A n : KeyColumns(n)' = KeyColumns(n)
  BY <1>2, <1>4, <1>5, <1>6
<1>8. \A n, i : KeyOf(n, i) = [k \in DOMAIN StreamKeys(n) |->
                 Streams[n][i][KeyIndex(Head(Streams[n]), StreamKeys(n)[k])]]
  BY DEF KeyOf, StreamKeys
<1>9. \A n, i : KeyOf(n, i)' = [k \in DOMAIN StreamKeys(n)' |->
                 Streams'[n][i][KeyIndex(Head(Streams'[n]), StreamKeys(n)'[k])]]
  BY DEF KeyOf, StreamKeys
<1>10. \A n, i : KeyOf(n, i)' = KeyOf(n, i)
  BY <1>2, <1>4, <1>8, <1>9
<1>11. \A n, i : Wanted(n, i)' <=> Wanted(n, i)
  BY <1>0, <1>2 DEF Wanted, ColumnsOf
<1>12. \A c : ColumnName(c)' = ColumnName(c)
  BY <1>2 DEF ColumnName
<1>13. \A c : PrefixedName(c)' = PrefixedName(c)
  BY <1>0, <1>12 DEF PrefixedName
<1> QED BY <1>2, <1>3, <1>4, <1>7, <1>10, <1>11, <1>12, <1>13

\* The columns of the result depend on the side and the streams alone.
LEMMA SameColumns ==
  ASSUME UNCHANGED <<side, content>>
  PROVE  /\ ResultColumns' = ResultColumns
         /\ \A name : ColumnNamed(name)' = ColumnNamed(name)
         /\ \A name, c : NamedRightly(name, c)' <=> NamedRightly(name, c)
         /\ \A n : PlainColumns(n)' = PlainColumns(n)
         /\ Joinable' <=> Joinable
<1>0. side' = side /\ content' = content
  OBVIOUS
<1>1. /\ Streams' = Streams /\ (MultiKey' <=> MultiKey)
      /\ \A n : StreamKeys(n)' = StreamKeys(n)
      /\ \A n : KeyColumns(n)' = KeyColumns(n)
      /\ \A n, i : KeyOf(n, i)' = KeyOf(n, i)
      /\ \A n, i : Wanted(n, i)' <=> Wanted(n, i)
      /\ \A c : ColumnName(c)' = ColumnName(c)
      /\ \A c : PrefixedName(c)' = PrefixedName(c)
  BY SameNames
<1>2. ResultColumns' = ResultColumns
  BY <1>1 DEF ResultColumns
<1>3. \A name : ColumnNamed(name)' = ColumnNamed(name)
  <2> SUFFICES ASSUME NEW name PROVE ColumnNamed(name)' = ColumnNamed(name)
    OBVIOUS
  <2> DEFINE plain == {c \in ResultColumns : ColumnName(c) = name}
             prefixed == {c \in ResultColumns : c[1] > 1 /\ PrefixedName(c) = name}
  <2>1. ColumnNamed(name) = IF plain # {} THEN CHOOSE c \in plain : \A d \in plain : c[1] <= d[1]
                            ELSE CHOOSE c \in prefixed : TRUE
    BY DEF ColumnNamed
  <2>2. ColumnNamed(name)' = IF plain' # {} THEN CHOOSE c \in plain' : \A d \in plain' : c[1] <= d[1]
                             ELSE CHOOSE c \in prefixed' : TRUE
    BY DEF ColumnNamed
  <2>3. plain' = plain /\ prefixed' = prefixed
    BY <1>1, <1>2
  <2> HIDE DEF plain, prefixed
  <2> QED BY <2>1, <2>2, <2>3
<1>4. \A name, c : NamedRightly(name, c)' <=> NamedRightly(name, c)
  BY <1>1, <1>2 DEF NamedRightly
<1>5. \A n : PlainColumns(n)' = PlainColumns(n)
  BY <1>1, <1>2 DEF PlainColumns
<1>6. AreTables' <=> AreTables
  BY <1>1 DEF AreTables
<1>7. NamesApart' <=> NamesApart
  BY <1>0, <1>1, <1>2 DEF NamesApart
<1>8. KeepsAPrefix' <=> KeepsAPrefix
  BY <1>0, <1>1 DEF KeepsAPrefix
<1>9. KeysAgree' <=> KeysAgree
  BY <1>0, <1>1 DEF KeysAgree, StreamKeys
<1> QED BY <1>2, <1>3, <1>4, <1>5, <1>6, <1>7, <1>8, <1>9 DEF Joinable

-----------------------------------------------------------------------------
\* What the function of Combinations is.
UptoIs(h) ==
  h = [n \in 1 .. Len(Streams) |->
         IF n = 1 THEN {<<i>> : i \in LinesIn(1)} ELSE WithLinesOf(h[n - 1], n)]

\* In the same way the combinations and the join.
LEMMA SameCombinations ==
  ASSUME UNCHANGED <<side, content>>
  PROVE  /\ Combinations' = Combinations
         /\ \A a, c : ValueOf(a, c)' = ValueOf(a, c)
         /\ \A out : IsTheJoin(out)' <=> IsTheJoin(out)
<1>0. side' = side /\ content' = content
  OBVIOUS
<1>1. /\ Streams' = Streams
      /\ \A n : KeyColumns(n)' = KeyColumns(n)
      /\ \A n, i : KeyOf(n, i)' = KeyOf(n, i)
  BY SameNames
<1>2. ResultColumns' = ResultColumns /\ \A name : ColumnNamed(name)' = ColumnNamed(name)
  BY SameColumns
<1>3. \A n : LinesIn(n)' = LinesIn(n)
  BY <1>1 DEF LinesIn
<1>4. \A a : KeyOfCombination(a)' = KeyOfCombination(a)
  <2> SUFFICES ASSUME NEW a PROVE KeyOfCombination(a)' = KeyOfCombination(a)
    OBVIOUS
  <2> DEFINE f == FirstPlace(a)
  <2>1. KeyOfCombination(a) = KeyOf(f, a[f])
    BY KeyByFirst
  <2>2. KeyOfCombination(a)' = KeyOf(f, a[f])'
    BY Zenon DEF KeyOfCombination, FirstPlace
  <2> HIDE DEF f
  <2>3. KeyOf(f, a[f])' = KeyOf(f, a[f])
    BY <1>1 DEF f
  <2> QED BY <2>1, <2>2, <2>3
<1>5. \A cs, n : WithLinesOf(cs, n)' = WithLinesOf(cs, n)
  BY <1>0, <1>1, <1>3, <1>4 DEF WithLinesOf
<1>6. \A h : UptoIs(h)' <=> UptoIs(h)
  BY <1>1, <1>3, <1>5 DEF UptoIs
<1>7. Combinations = (CHOOSE h : UptoIs(h))[Len(Streams)]
  BY Zenon DEF Combinations, UptoIs
<1>8. Combinations' = (CHOOSE h : UptoIs(h)')[Len(Streams')]
  BY Zenon DEF Combinations, UptoIs
<1>9. (CHOOSE h : UptoIs(h)') = (CHOOSE h : UptoIs(h))
  BY <1>6, Zenon
<1>10. Combinations' = Combinations
  BY <1>1, <1>7, <1>8, <1>9
<1>11. \A a, c : ValueOf(a, c)' = ValueOf(a, c)
  BY <1>0, <1>1, <1>4 DEF ValueOf
<1>12. \A header, rows : HoldsTheJoin(header, rows)' <=> HoldsTheJoin(header, rows)
  <2> SUFFICES ASSUME NEW header, NEW rows
               PROVE  HoldsTheJoin(header, rows)' <=> HoldsTheJoin(header, rows)
    OBVIOUS
  <2> DEFINE columns == [n \in DOMAIN header |-> ColumnNamed(header[n])]
             expected == [comb \in Combinations |-> [n \in DOMAIN header |-> ValueOf(comb, columns[n])]]
             Says(r, e) == /\ Len(header) = Cardinality(r)
                           /\ Cardinality(Range(header)) = Len(header)
                           /\ \A line \in Range(rows) \union Range(e) :
                                Cardinality({n \in DOMAIN rows : rows[n] = line})
                                  = Cardinality({comb \in DOMAIN e : e[comb] = line})
  <2>1. HoldsTheJoin(header, rows) <=> Says(ResultColumns, expected)
    BY Zenon DEF HoldsTheJoin
  <2>2. HoldsTheJoin(header, rows)' <=> Says(ResultColumns', expected')
    BY Zenon DEF HoldsTheJoin
  <2>3. columns' = columns
    BY <1>2
  <2>4. expected' = expected
    <3> HIDE DEF columns
    <3> QED BY <1>10, <1>11, <2>3
  <2> HIDE DEF columns, expected, Says
  <2> QED BY <1>2, <2>1, <2>2, <2>4
<1>13. \A out : IsTheJoin(out) <=> HoldsTheJoin(Head(out), Tail(out))
  BY DEF IsTheJoin, HoldsTheJoin
<1>14. \A out : IsTheJoin(out)' <=> HoldsTheJoin(Head(out), Tail(out))'
  BY DEF IsTheJoin, HoldsTheJoin
<1>15. \A out : IsTheJoin(out)' <=> IsTheJoin(out)
  BY <1>12, <1>13, <1>14
<1> QED BY <1>10, <1>11, <1>15

\* In the same way what is prepared of the streams.
LEMMA SameChains ==
  ASSUME UNCHANGED <<side, content>>
  PROVE  /\ Prepared(1)' = Prepared(1) /\ KeyPlace(1)' = KeyPlace(1)
         /\ \A n : PreparedLines(n)' = PreparedLines(n)
         /\ \A hdr, cmds, cols, n : Chain(hdr, cmds, cols, n)' <=> Chain(hdr, cmds, cols, n)
<1>0. side' = side /\ content' = content
  OBVIOUS
<1>1. /\ Streams' = Streams /\ (MultiKey' <=> MultiKey)
      /\ \A n : StreamKeys(n)' = StreamKeys(n)
      /\ \A n : KeyColumns(n)' = KeyColumns(n)
      /\ \A c : ColumnName(c)' = ColumnName(c)
  BY SameNames
<1>2. /\ ResultColumns' = ResultColumns
      /\ \A name, c : NamedRightly(name, c)' <=> NamedRightly(name, c)
      /\ \A n : PlainColumns(n)' = PlainColumns(n)
  BY SameColumns
<1>3. \A n : Prepared(n)' = Prepared(n)
  BY <1>1 DEF Prepared
<1>4. \A n : KeyName(n)' = KeyName(n)
  BY <1>1 DEF KeyName
<1>5. \A n : KeyPlace(n)' = KeyPlace(n)
  BY <1>3, <1>4 DEF KeyPlace
<1>6. \A n : Others(n)' = Others(n)
  BY <1>1 DEF Others
<1>7. \A n : Origin(n)' = Origin(n)
  BY <1>1, <1>6 DEF Origin
<1>8. MainHeader' = MainHeader
  BY <1>0, <1>3, <1>5 DEF MainHeader
<1>9. \A n : PreparedLines(n)' = PreparedLines(n)
  BY <1>3, <1>5 DEF PreparedLines
<1>10. \A n : HasKeys(n)' <=> HasKeys(n)
  BY <1>0, <1>1 DEF HasKeys
<1>11. \A cmds, m : Width(cmds, m)' = Width(cmds, m)
  BY <1>8 DEF Width
<1>12. \A hdr, cols, n : ChainColumns(hdr, cols, n)' <=> ChainColumns(hdr, cols, n)
  BY <1>1, <1>2, <1>4, <1>5 DEF ChainColumns
<1>13. \A cmds, cols, m : CommandIs(cmds, cols, m)' <=> CommandIs(cmds, cols, m)
  <2> SUFFICES ASSUME NEW cmds, NEW cols, NEW m
               PROVE  CommandIs(cmds, cols, m)' <=> CommandIs(cmds, cols, m)
    OBVIOUS
  <2> DEFINE c == cmds[m]
             w == Width(cmds, m - 1)
             v == Width(cmds, m)
             K == KeyPlace(1)
             J == KeyPlace(m + 1)
             o == Origin(m + 1)
             type == side.joins[m].type
             Says(a, b, i, j, s, t) ==
               /\ c.right = j /\ c.pairs = Pairs(t) /\ c.alone = Alone(t)
               /\ c.list \in Seq(Nat \X Nat)
               /\ a \in 1 .. b /\ b <= Len(cols) /\ i <= a /\ c.list[i] = <<0, 0>>
               /\ \A p \in 1 .. a : p # i => c.list[p] = <<1, p>> /\ cols[p][1] \in 1 .. m
               /\ \A p \in 1 .. b :
                    p > a => \E q \in 1 .. Len(s) :
                               /\ q # j /\ c.list[p] = <<2, q>> /\ cols[p] = <<m + 1, s[q]>>
  <2>1. CommandIs(cmds, cols, m) <=> Says(w, v, K, J, o, type)
    BY DEF CommandIs
  <2>2. CommandIs(cmds, cols, m)' <=> Says(w', v', K', J', o', type')
    BY DEF CommandIs
  <2>3. w' = w /\ v' = v /\ K' = K /\ J' = J /\ o' = o /\ type' = type
    BY <1>0, <1>5, <1>7, <1>11
  <2> HIDE DEF w, v, K, J, o, type, Says
  <2> QED BY <2>1, <2>2, <2>3
<1>14. \A hdr, cmds, cols, n : Chain(hdr, cmds, cols, n)' <=> Chain(hdr, cmds, cols, n)
  BY <1>5, <1>7, <1>8, <1>10, <1>11, <1>12, <1>13 DEF Chain
<1> QED BY <1>3, <1>5, <1>9, <1>14
=============================================================================
