------------------------ MODULE LocalFileProxyProofs ------------------------
(***************************************************************************)
(* What LocalFileProxy keeps for any files, threads and number of Stores,  *)
(* whatever throws and whenever the process stops: the shape of the lists  *)
(* of m_PendingOps, that no data is written twice, one header, and that a  *)
(* commit file that is moved into place is complete.                       *)
(***************************************************************************)
EXTENDS LocalFileProxy, SequencesExt, SequenceTheorems, TLAPS

-----------------------------------------------------------------------------
\* Facts about the lists of pending operations.

\* The empty vector.
LEMMA EmptyToSet == ToSet(<<>>) = {} /\ IsInjective(<<>>)
  BY DEF ToSet, IsInjective

\* What push_back does to the set of a vector's elements.
LEMMA AppendToSet ==
  ASSUME NEW S, NEW s \in Seq(S), NEW e \in S
  PROVE  /\ Append(s, e) \in Seq(S)
         /\ ToSet(Append(s, e)) = ToSet(s) \cup {e}
<1> DEFINE t == Append(s, e)
<1>1. /\ t \in Seq(S) /\ DOMAIN t = 1 .. Len(s) + 1
      /\ t[Len(s) + 1] = e /\ \A i \in 1 .. Len(s) : t[i] = s[i]
      /\ DOMAIN s = 1 .. Len(s) /\ Len(s) \in Nat
  OBVIOUS
<1>2. ASSUME NEW v \in ToSet(t) PROVE v \in ToSet(s) \cup {e}
  <2>1. PICK i \in DOMAIN t : v = t[i]
    BY <1>2 DEF ToSet
  <2>2. i = Len(s) + 1 \/ i \in 1 .. Len(s)
    BY <1>1, <2>1
  <2> QED BY <1>1, <2>1, <2>2 DEF ToSet
<1>3. ASSUME NEW v \in ToSet(s) PROVE v \in ToSet(t)
  <2>1. PICK i \in DOMAIN s : v = s[i]
    BY <1>3 DEF ToSet
  <2>2. i \in DOMAIN t /\ t[i] = v
    BY <1>1, <2>1
  <2> QED BY <2>2 DEF ToSet
<1>4. e \in ToSet(t)
  <2>1. Len(s) + 1 \in DOMAIN t
    BY <1>1
  <2> QED BY <1>1, <2>1 DEF ToSet
<1> QED BY <1>1, <1>2, <1>3, <1>4

\* What erase( begin() ) does to it.
LEMMA TailToSet ==
  ASSUME NEW S, NEW s \in Seq(S), s # <<>>
  PROVE  /\ Head(s) \in S
         /\ Tail(s) \in Seq(S)
         /\ ToSet(s) = {Head(s)} \cup ToSet(Tail(s))
<1> DEFINE t == Tail(s)
<1>1. /\ t \in Seq(S) /\ Head(s) = s[1] /\ DOMAIN s = 1 .. Len(s)
      /\ Len(s) \in Nat \ {0} /\ DOMAIN t = 1 .. Len(s) - 1
      /\ \A i \in 1 .. Len(s) - 1 : t[i] = s[i + 1]
  OBVIOUS
<1>2. ASSUME NEW v \in ToSet(s) PROVE v \in {Head(s)} \cup ToSet(t)
  <2>1. PICK i \in DOMAIN s : v = s[i]
    BY <1>2 DEF ToSet
  <2>2. CASE i = 1
    BY <1>1, <2>1, <2>2
  <2>3. CASE i # 1
    <3>1. i - 1 \in DOMAIN t /\ t[i - 1] = v
      BY <1>1, <2>1, <2>3
    <3> QED BY <3>1 DEF ToSet
  <2> QED BY <2>2, <2>3
<1>3. ASSUME NEW v \in ToSet(t) PROVE v \in ToSet(s)
  <2>1. PICK i \in DOMAIN t : v = t[i]
    BY <1>3 DEF ToSet
  <2>2. i + 1 \in DOMAIN s /\ s[i + 1] = v
    BY <1>1, <2>1
  <2> QED BY <2>2 DEF ToSet
<1>4. Head(s) \in ToSet(s) /\ Head(s) \in S
  BY <1>1 DEF ToSet
<1> QED BY <1>1, <1>2, <1>3, <1>4

\* push_back of a new element keeps a vector free of duplicates.
LEMMA PushBackInjective ==
  ASSUME NEW S, NEW s \in Seq(S), NEW e \in S \ ToSet(s), IsInjective(s)
  PROVE  IsInjective(Append(s, e))
<1>1. DOMAIN s = 1 .. Len(s) /\ Len(s) \in Nat
  OBVIOUS
<1>2. \A i \in 1 .. Len(s) : s[i] # e
  BY <1>1 DEF ToSet
<1>3. \A i, j \in DOMAIN s : s[i] = s[j] => i = j
  BY DEF IsInjective
<1>4. \A i, j \in DOMAIN Append(s, e) :
        Append(s, e)[i] = Append(s, e)[j] => i = j
  BY <1>1, <1>2, <1>3
<1> QED BY <1>4 DEF IsInjective

\* erase( begin() ) keeps it so, and the erased element is gone.
LEMMA TailInjective ==
  ASSUME NEW S, NEW s \in Seq(S), s # <<>>, IsInjective(s)
  PROVE  IsInjective(Tail(s)) /\ Head(s) \notin ToSet(Tail(s))
<1>1. /\ Head(s) = s[1] /\ DOMAIN s = 1 .. Len(s) /\ Len(s) \in Nat \ {0}
      /\ DOMAIN Tail(s) = 1 .. Len(s) - 1
      /\ \A i \in 1 .. Len(s) - 1 : Tail(s)[i] = s[i + 1]
  OBVIOUS
<1>2. ASSUME NEW i \in DOMAIN Tail(s), NEW j \in DOMAIN Tail(s),
             Tail(s)[i] = Tail(s)[j]
      PROVE  i = j
  <2>1. i + 1 \in DOMAIN s /\ j + 1 \in DOMAIN s /\ s[i + 1] = s[j + 1]
    BY <1>1, <1>2
  <2>2. i + 1 = j + 1
    BY <2>1 DEF IsInjective
  <2> QED BY <1>1, <2>2
<1>3. ASSUME NEW i \in DOMAIN Tail(s) PROVE Tail(s)[i] # Head(s)
  <2>1. i + 1 \in DOMAIN s /\ 1 \in DOMAIN s /\ i + 1 # 1
    BY <1>1
  <2>2. s[i + 1] # s[1]
    BY <2>1 DEF IsInjective
  <2> QED BY <1>1, <2>2
<1> QED BY <1>2, <1>3 DEF IsInjective, ToSet

\* A call stack after a call.
LEMMA AppendNotEmpty ==
  ASSUME NEW S, NEW s \in Seq(S), NEW e \in S
  PROVE  Append(s, e) \in Seq(S) /\ Append(s, e) # <<>>
<1>1. /\ Append(s, e) \in Seq(S)
      /\ Len(Append(s, e)) = Len(s) + 1 /\ Len(s) \in Nat
  OBVIOUS
<1>2. Len(Append(s, e)) # 0 /\ Len(<<>>) = 0
  BY <1>1
<1> QED BY <1>1, <1>2

\* What a call leaves as it was.
LEMMA AppendFacts ==
  ASSUME NEW S, NEW s \in Seq(S), NEW e \in S
  PROVE  /\ Append(s, e) \in Seq(S) /\ Len(Append(s, e)) = Len(s) + 1
         /\ Append(s, e)[Len(s) + 1] = e
         /\ \A i \in 1 .. Len(s) : Append(s, e)[i] = s[i]
  OBVIOUS

-----------------------------------------------------------------------------

\* The mutex is held by the one thread inside Commit or Rollback, and a pending
\* file about to be listed has been written.
Control ==
  \A t \in Thread :
    /\ call[t].at \in {"commit", "open", "append", "rollback"} <=> holder = t
    /\ At(t, "store") => call[t].store \in 1 .. stores
    /\ At(t, "open") \/ At(t, "append") => ~Overwrite

\* The commit file and the rest of a list hold nothing that was not to be written.
Within(goal, content, ops) ==
  ToSet(Ids(content)) \subseteq ToSet(goal) /\ ToSet(ops) \subseteq ToSet(goal)

\* The commit file and the rest of the list make up what was to be written, or
\* data has been lost on the way to it.
MergeGoal ==
  \A t \in Thread :
    LET d == call[t].dest IN
      /\ At(t, "open") => merge.goal = Ids(files[d]) \o pendingOps[d]
      /\ At(t, "append") =>
           /\ Within(merge.goal, merge.content, pendingOps[d])
           /\ merge.cut \/ merge.goal = Ids(merge.content) \o pendingOps[d]

\* Data is in a pending file, or in a destination, or in the commit file.
InOnePlace ==
  /\ onDisk \subseteq 1 .. stores
  /\ \A d \in Dest : \A i \in DOMAIN files[d] :
       files[d][i].store \in (0 .. stores) \ onDisk
  /\ \A t \in Thread : At(t, "append") =>
       \A i \in DOMAIN merge.content :
         merge.content[i].store \in (0 .. stores) \ onDisk

\* The commit file repeats neither itself nor another destination.
MergeOnce ==
  \A t \in Thread : At(t, "append") =>
    \A i \in DOMAIN merge.content :
      merge.content[i].store # 0 =>
        /\ \A j \in DOMAIN merge.content :
             merge.content[i].store = merge.content[j].store => i = j
        /\ \A e \in Dest \ {call[t].dest} : \A j \in DOMAIN files[e] :
             merge.content[i].store # files[e][j].store

\* A commit file with data in it is appended to, without a header.
MergeHeader ==
  /\ \A d \in Dest : files[d] # <<>> => d \in existing
  /\ \A t \in Thread : At(t, "append") =>
       /\ merge.content # <<>> => merge.appending
       /\ SkipLines => \A i \in DOMAIN merge.content :
                         merge.content[i].header => i = 1

IInv ==
  /\ TypeOK
  /\ Control
  /\ DeletesLead
  /\ SingleOverwrite
  /\ MergeGoal
  /\ InOnePlace
  /\ WrittenOnce
  /\ MergeOnce
  /\ MergeHeader
  /\ HeaderOnce
-----------------------------------------------------------------------------
\* The ids of a file's data, and of what erase( begin() ) and push_back leave.
LEMMA IdsOfSeq ==
  ASSUME NEW c \in Seq(Written)
  PROVE  /\ Ids(c) \in Seq(Op)
         /\ Len(Ids(c)) = Len(c)
         /\ \A i \in 1 .. Len(c) : Ids(c)[i] = c[i].store
<1>1. Len(c) \in Nat /\ DOMAIN c = 1 .. Len(c)
  OBVIOUS
<1>2. \A i \in 1 .. Len(c) : c[i] \in Written
  OBVIOUS
<1>3. \A i \in 1 .. Len(c) : c[i].store \in Op
  BY <1>2 DEF Written, Op
<1>4. Ids(c) = [i \in 1 .. Len(c) |-> c[i].store]
  BY <1>1 DEF Ids
<1> QED BY <1>1, <1>3, <1>4

\* Moving the first pending file to the end of the commit file keeps the goal.
LEMMA MoveKeepsGoal ==
  ASSUME NEW c \in Seq(Written), NEW ops \in Seq(Op), ops # <<>>,
         NEW w \in Written, w.store = Head(ops)
  PROVE  Ids(Append(c, w)) \o Tail(ops) = Ids(c) \o ops
<1> DEFINE h == Head(ops)
<1>1. Ids(Append(c, w)) = Append(Ids(c), h)
  <2>1. /\ Append(c, w) \in Seq(Written)
        /\ Len(Append(c, w)) = Len(c) + 1 /\ Len(c) \in Nat
        /\ \A i \in 1 .. Len(c) : Append(c, w)[i] = c[i]
        /\ Append(c, w)[Len(c) + 1] = w
    BY AppendProperties
  <2>2. /\ Ids(c) \in Seq(Op) /\ Len(Ids(c)) = Len(c)
        /\ \A i \in 1 .. Len(c) : Ids(c)[i] = c[i].store
    BY IdsOfSeq
  <2>3. /\ Ids(Append(c, w)) \in Seq(Op)
        /\ Len(Ids(Append(c, w))) = Len(c) + 1
        /\ \A i \in 1 .. Len(c) + 1 :
             Ids(Append(c, w))[i] = Append(c, w)[i].store
    BY <2>1, IdsOfSeq
  <2>4. h \in Op
    BY HeadTailProperties
  <2>5. /\ Append(Ids(c), h) \in Seq(Op)
        /\ Len(Append(Ids(c), h)) = Len(c) + 1
        /\ \A i \in 1 .. Len(c) : Append(Ids(c), h)[i] = Ids(c)[i]
        /\ Append(Ids(c), h)[Len(c) + 1] = h
    BY <2>2, <2>4, AppendProperties
  <2>6. \A i \in 1 .. Len(c) + 1 : Ids(Append(c, w))[i] = Append(Ids(c), h)[i]
    BY <2>1, <2>2, <2>3, <2>5
  <2> HIDE DEF h
  <2> QED BY <2>3, <2>5, <2>6, SeqEqual
<1>2. /\ h \in Op /\ Tail(ops) \in Seq(Op)
      /\ Ids(c) \in Seq(Op)
  BY HeadTailProperties, IdsOfSeq
<1>6. <<h>> \in Seq(Op)
  BY <1>2
<1>3. ops = <<h>> \o Tail(ops)
  OBVIOUS
<1>4. Append(Ids(c), h) = Ids(c) \o <<h>>
  BY <1>2, AppendIsConcat
<1>5. (Ids(c) \o <<h>>) \o Tail(ops) = Ids(c) \o (<<h>> \o Tail(ops))
  BY <1>2, <1>6, ConcatAssociative
<1> QED BY <1>1, <1>3, <1>4, <1>5

\* The lists that Commit and Rollback leave behind when they throw.
LEMMA ListsOfStores ==
  ASSUME NEW ops \in Seq(Op)
  PROVE  /\ StoresOf(ops) \in Seq(Op)
         /\ \A n \in 0 .. Len(StoresOf(ops)) :
              SubSeq(StoresOf(ops), n + 1, Len(StoresOf(ops)))
                \in Seq(Op)
<1>1. StoresOf(ops) \in Seq(Op)
  BY HeadTailProperties DEF StoresOf, DeletesFirst
<1>2. ASSUME NEW q \in Seq(Op), NEW n \in 0 .. Len(q)
      PROVE  SubSeq(q, n + 1, Len(q)) \in Seq(Op)
  <2>1. Len(q) \in Nat /\ \A i \in 1 .. Len(q) : q[i] \in Op
    BY <1>2
  <2>2. n \in Nat /\ \A i \in n + 1 .. Len(q) : i \in 1 .. Len(q)
    BY <2>1
  <2> QED BY <2>1, <2>2, SubSeqProperties
<1> QED BY <1>1, <1>2
-----------------------------------------------------------------------------
\* The front of a file.
LEMMA FrontOf ==
  ASSUME NEW c \in Seq(Written), NEW n \in 0 .. Len(c)
  PROVE  /\ SubSeq(c, 1, n) \in Seq(Written)
         /\ DOMAIN SubSeq(c, 1, n) = 1 .. n /\ 1 .. n \subseteq DOMAIN c
         /\ \A i \in 1 .. n : SubSeq(c, 1, n)[i] = c[i]
         /\ n = Len(c) => SubSeq(c, 1, n) = c
<1> DEFINE f == SubSeq(c, 1, n)
<1>1. Len(c) \in Nat /\ DOMAIN c = 1 .. Len(c) /\ \A i \in 1 .. Len(c) : c[i] \in Written
  OBVIOUS
<1>2. n \in Nat /\ \A i \in 1 .. n : i \in 1 .. Len(c) /\ c[i] \in Written
  BY <1>1
<1>3. /\ f \in Seq(Written) /\ Len(f) = n
      /\ \A i \in 1 .. n : f[i] = c[i]
  BY <1>2, SubSeqProperties
<1>4. n = Len(c) => f = c
  BY <1>1, <1>3, SeqEqual
<1> HIDE DEF f
<1>5. DOMAIN f = 1 .. n
  BY <1>3
<1> QED BY <1>1, <1>2, <1>3, <1>4, <1>5 DEF f

\* What opening the commit file does, whatever becomes of the copy.
LEMMA OpenedFacts ==
  ASSUME TypeOK, NEW t \in Thread, NEW d \in Dest, OpenCommitFile(t, d)
  PROVE  /\ At(t, "open") /\ call[t].dest = d /\ Goto(t, "append")
         /\ UNCHANGED <<keys, pendingOps, disk, stores, holder, damaged>>
         /\ merge' \in Merge /\ merge'.goal = merge.goal
         /\ merge'.appending = (d \in existing)
         /\ \E n \in 0 .. Len(files[d]) :
              /\ merge'.content = SubSeq(files[d], 1, n)
              /\ n = Len(files[d]) \/ merge'.cut
<1>1. merge \in Merge /\ files[d] \in Seq(Written)
  BY DEF TypeOK
<1>2. PICK n \in 0 .. Len(files[d]), broken \in BOOLEAN, cut \in BOOLEAN :
        /\ n = Len(files[d]) \/ cut
        /\ Opened(t, d, SubSeq(files[d], 1, n), broken, cut)
  <2>1. CASE Opened(t, d, files[d], FALSE, FALSE)
    <3>1. Len(files[d]) \in 0 .. Len(files[d])
      BY <1>1
    <3>2. SubSeq(files[d], 1, Len(files[d])) = files[d]
      BY <1>1, <3>1, FrontOf
    <3> QED BY <2>1, <3>1, <3>2, Zenon
  <2>2. CASE \E n \in 0 .. Len(files[d]), broken \in BOOLEAN :
               Opened(t, d, SubSeq(files[d], 1, n), broken, TRUE)
    BY <2>2, Zenon
  <2> QED BY <2>1, <2>2, Zenon DEF OpenCommitFile
<1>3. SubSeq(files[d], 1, n) \in Seq(Written) /\ (d \in existing) \in BOOLEAN
  BY <1>1, <1>2, FrontOf
<1>4. merge' = [merge EXCEPT !.content = SubSeq(files[d], 1, n),
                             !.appending = d \in existing,
                             !.broken = broken, !.cut = cut]
  BY <1>2, Zenon DEF Opened
<1>5. /\ merge' \in Merge /\ merge'.goal = merge.goal /\ merge'.cut = cut
      /\ merge'.appending = (d \in existing)
      /\ merge'.content = SubSeq(files[d], 1, n)
  <2> DEFINE c == SubSeq(files[d], 1, n)
  <2> HIDE DEF c
  <2>1. /\ merge' = [merge EXCEPT !.content = c, !.appending = d \in existing,
                                  !.broken = broken, !.cut = cut]
        /\ c \in Seq(Written)
    BY <1>3, <1>4, Zenon DEF c
  <2>2. /\ merge' \in Merge /\ merge'.goal = merge.goal /\ merge'.cut = cut
        /\ merge'.appending = (d \in existing) /\ merge'.content = c
    BY <1>1, <1>3, <2>1 DEF Merge
  <2> QED BY <2>2, Zenon DEF c
<1> QED BY <1>2, <1>5, Zenon DEF Opened

\* What appending a pending file does.
LEMMA AppendedFacts ==
  ASSUME TypeOK, NEW t \in Thread, NEW d \in Dest, AppendPending(t, d)
  PROVE  /\ At(t, "append") /\ call[t].dest = d /\ pendingOps[d] # <<>>
         /\ Head(pendingOps[d]) \in onDisk
         /\ onDisk' = onDisk \ {Head(pendingOps[d])}
         /\ pendingOps' = [pendingOps EXCEPT ![d] = Tail(@)]
         /\ UNCHANGED <<keys, existing, files, stores, call, holder, damaged>>
         /\ merge' \in Merge /\ merge'.goal = merge.goal /\ merge'.appending = TRUE
         /\ merge.content \in Seq(Written) /\ WithFirst(d) \in Seq(Written)
         /\ \/ merge'.content = WithFirst(d) /\ (merge.cut => merge'.cut)
            \/ merge'.content = merge.content /\ merge'.cut
<1>1. merge \in Merge /\ merge.content \in Seq(Written) /\ pendingOps[d] \in Seq(Op)
  BY DEF TypeOK, Merge
<1>2. PICK c \in {WithFirst(d), merge.content}, broken \in BOOLEAN, cut \in BOOLEAN :
        /\ Appended(t, d, c, TRUE, broken, cut)
        /\ \/ c = WithFirst(d) /\ (merge.cut => cut)
           \/ c = merge.content /\ cut
  BY <1>1, Zenon DEF AppendPending, Merge
<1>3. WithFirst(d) \in Seq(Written)
  <2> DEFINE h == ~(SkipLines /\ merge.appending)
             w == [store |-> Head(pendingOps[d]), header |-> h]
  <2>1. Head(pendingOps[d]) \in 0 .. MaxStore
    BY <1>2, FileAssumption DEF Appended, TypeOK, Store
  <2>2. h \in BOOLEAN
    OBVIOUS
  <2>3. w \in Written
    BY <2>1, <2>2 DEF Written
  <2> HIDE DEF w
  <2>4. Append(merge.content, w) \in Seq(Written)
    BY <1>1, <2>3, AppendProperties
  <2> QED BY <2>4, Zenon DEF WithFirst, w, h
<1>4. c \in Seq(Written)
  BY <1>1, <1>2, <1>3
<1>5. merge' = [merge EXCEPT !.content = c, !.appending = TRUE, !.broken = broken,
                             !.cut = cut]
  BY <1>2, Zenon DEF Appended
<1>6. /\ merge' \in Merge /\ merge'.goal = merge.goal /\ merge'.cut = cut
      /\ merge'.appending = TRUE /\ merge'.content = c
  BY <1>1, <1>4, <1>5 DEF Merge
<1> QED BY <1>1, <1>2, <1>3, <1>6, Zenon DEF Appended

\* What closing and moving the commit file does.
LEMMA MovedFacts ==
  ASSUME TypeOK, NEW t \in Thread, NEW d \in Dest, MoveCommitFile(t, d)
  PROVE  /\ merge' \in Merge /\ merge'.goal = merge.goal
         /\ \E n \in 0 .. Len(merge.content) :
              /\ files' = [files EXCEPT ![d] = SubSeq(merge.content, 1, n)]
              /\ existing' = existing \cup {d}
              /\ (n = Len(merge.content) /\ ~merge.cut) \/ merge'.cut
<1>1. merge \in Merge /\ Len(merge.content) \in Nat
  BY DEF TypeOK, Merge
<1>2. PICK n \in 0 .. Len(merge.content), cut \in BOOLEAN :
        /\ n < Len(merge.content) => cut
        /\ MoveTo(d, SubSeq(merge.content, 1, n))
        /\ merge' = [merge EXCEPT !.content = <<>>, !.cut = @ \/ cut]
  BY Zenon DEF MoveCommitFile
<1>3. /\ merge' \in Merge /\ merge'.goal = merge.goal
      /\ merge'.cut = (merge.cut \/ cut)
  <2> DEFINE lost == merge.cut \/ cut
  <2>1. lost \in BOOLEAN /\ merge' = [merge EXCEPT !.content = <<>>, !.cut = lost]
    BY <1>1, <1>2
  <2>2. <<>> \in Seq(Written)
    OBVIOUS
  <2> HIDE DEF lost
  <2>3. merge' \in Merge /\ merge'.goal = merge.goal /\ merge'.cut = lost
    BY <1>1, <2>1, <2>2 DEF Merge
  <2> QED BY <2>3 DEF lost
<1>4. n = Len(merge.content) \/ n < Len(merge.content)
  BY <1>1, <1>2
<1> QED BY <1>2, <1>3, <1>4, Zenon DEF MoveTo

\* Assignments of one element of a map.
LEMMA UpdateTyped ==
  ASSUME TypeOK, NEW d \in Dest, NEW t \in Thread
  PROVE  /\ \A q \in Seq(Op) :
              [pendingOps EXCEPT ![d] = q] \in [Dest -> Seq(Op)]
         /\ \A c \in Seq(Written) :
              [files EXCEPT ![d] = c] \in [Dest -> Seq(Written)]
         /\ \A c \in Call : [call EXCEPT ![t] = c] \in [Thread -> Call]
         /\ \A p \in Place :
              [call EXCEPT ![t].at = p] \in [Thread -> Call]
         /\ \A p \in Place :
              [call EXCEPT ![t].at = p, ![t].dest = d] \in [Thread -> Call]
         /\ Idle \in Call
         /\ <<>> \in Seq(Op) /\ <<>> \in Seq(Written)
<1> USE DEF TypeOK
<1>1. \A p \in Place :
        /\ [call[t] EXCEPT !.at = p] \in Call
        /\ [[call[t] EXCEPT !.at = p] EXCEPT !.dest = d] \in Call
  BY DEF Call
<1>2. \A p \in Place :
        [call EXCEPT ![t].at = p] = [call EXCEPT ![t] = [call[t] EXCEPT !.at = p]]
  OBVIOUS
<1>3. \A p \in Place :
        [call EXCEPT ![t].at = p, ![t].dest = d] =
          [call EXCEPT ![t] = [[call[t] EXCEPT !.at = p] EXCEPT !.dest = d]]
  OBVIOUS
<1>4. \A c \in Call : [call EXCEPT ![t] = c] \in [Thread -> Call]
  OBVIOUS
<1>5. \A p \in Place :
        /\ [call EXCEPT ![t].at = p] \in [Thread -> Call]
        /\ [call EXCEPT ![t].at = p, ![t].dest = d] \in [Thread -> Call]
  BY <1>1, <1>2, <1>3, <1>4
<1>6. Idle \in Call
  BY FileAssumption DEF Idle, Call, Place
<1>7. \A q \in Seq(Op) : [pendingOps EXCEPT ![d] = q] \in [Dest -> Seq(Op)]
  OBVIOUS
<1>8. \A c \in Seq(Written) :
        [files EXCEPT ![d] = c] \in [Dest -> Seq(Written)]
  OBVIOUS
<1>9. <<>> \in Seq(Op) /\ <<>> \in Seq(Written)
  OBVIOUS
<1> QED BY <1>4, <1>5, <1>6, <1>7, <1>8, <1>9

\* Every step keeps the types.
LEMMA TypeStep == TypeOK /\ [Next]_vars => TypeOK'
<1> SUFFICES ASSUME TypeOK, [Next]_vars PROVE TypeOK'
  OBVIOUS
<1>1. ASSUME NEW t \in Thread, NEW d \in Dest,
             \/ WritePending(t, d) \/ RegisterStore(t, d) \/ CancelFails(t, d)
             \/ LookUp(t, d) \/ RegisterDelete(t, d) \/ CommitStep(t, d)
             \/ CommitPastEnd(t, d) \/ RollbackFile(t, d)
             \/ RollbackThrows(t, d)
      PROVE  TypeOK'
  <2> USE UpdateTyped, FileAssumption
      DEF disk, Goto, Return, Leave, EraseKey, RemoveFile, MoveTo, At
  <2>1. /\ pendingOps[d] \in Seq(Op) /\ files[d] \in Seq(Written)
        /\ call[t] \in Call /\ merge \in Merge
    BY DEF TypeOK
  <2>16. call[t].store \in Op /\ call[t].dest \in Dest
    BY <2>1 DEF Call, Op
  <2>17. /\ Delete \in Op /\ Store \subseteq Op
         /\ {"idle", "open", "append", "commit"} \subseteq Place
    BY DEF Op, Delete, Store, Place
  <2>2. CASE WritePending(t, d)
    <3>1. stores' \in Store /\ stores' \in 0 .. MaxStore
      <4>1. stores < MaxStore /\ stores' = stores + 1 /\ stores \in 0 .. MaxStore
        BY <2>2 DEF WritePending, TypeOK
      <4> QED BY <4>1 DEF Store
    <3>2. [at |-> "store", dest |-> d, store |-> stores'] \in Call
      BY <3>1 DEF Call, Place
    <3> QED BY <2>2, <3>1, <3>2 DEF WritePending, TypeOK
  <2>3. CASE RegisterStore(t, d)
    <3>1. <<call[t].store>> \in Seq(Op)
          /\ Append(pendingOps[d], call[t].store) \in Seq(Op)
      BY <2>1, <2>16
    <3>2. pendingOps' \in [Dest -> Seq(Op)]
      <4>1. \/ pendingOps' = [pendingOps EXCEPT ![d] = <<call[t].store>>]
            \/ pendingOps' =
                 [pendingOps EXCEPT ![d] = Append(pendingOps[d], call[t].store)]
        BY <2>3 DEF RegisterStore
      <4>2. PICK q \in Seq(Op) : pendingOps' = [pendingOps EXCEPT ![d] = q]
        BY <3>1, <4>1
      <4> QED BY <4>2
    <3>3. onDisk' \subseteq Store
      <4>1. onDisk' = onDisk \/ RemoveAll(StoresOf(pendingOps[d]))
        BY <2>3 DEF RegisterStore
      <4>2. onDisk' \subseteq onDisk
        BY <4>1, Zenon DEF RemoveAll
      <4> QED BY <4>2, Zenon DEF TypeOK
    <3>4. call' \in [Thread -> Call] /\ keys' \subseteq Dest
      BY <2>3 DEF RegisterStore, TypeOK
    <3> QED BY <2>3, <3>2, <3>3, <3>4 DEF RegisterStore, TypeOK
  <2>4. CASE CancelFails(t, d)
    BY <2>4 DEF CancelFails, RemoveSome, TypeOK
  <2>5. CASE LookUp(t, d)
    <3>1. \A p \in Place : [Idle EXCEPT !.at = p, !.dest = d] \in Call
      BY DEF Call
    <3>2. (IF d \in existing THEN "delete" ELSE "isPending") \in Place
      BY DEF Place
    <3> QED BY <2>5, <3>1, <3>2 DEF LookUp, TypeOK
  <2>6. CASE RegisterDelete(t, d)
    <3>1. <<Delete>> \in Seq(Op)
      BY <2>17
    <3> QED BY <2>6, <3>1 DEF RegisterDelete, RemoveAll, TypeOK
  <2>7. CASE CommitOverwrite(t, d)
    <3>1. pendingOps' \in [Dest -> Seq(Op)]
      BY <2>7 DEF CommitOverwrite
    <3>2. files' \in [Dest -> Seq(Written)]
      <4>1. ASSUME Head(pendingOps[d]) \in onDisk
            PROVE  <<[store |-> Head(pendingOps[d]), header |-> TRUE]>>
                     \in Seq(Written)
        <5>1. [store |-> Head(pendingOps[d]), header |-> TRUE] \in Written
          BY <2>17, <4>1 DEF Written, Op, TypeOK
        <5> QED BY <5>1
      <4>2. \/ files' = [files EXCEPT ![d] = <<>>]
            \/ /\ Head(pendingOps[d]) \in onDisk
               /\ files' = [files EXCEPT ![d] =
                    <<[store |-> Head(pendingOps[d]), header |-> TRUE]>>]
        BY <2>7 DEF CommitOverwrite
      <4>3. PICK c \in Seq(Written) : files' = [files EXCEPT ![d] = c]
        BY <4>1, <4>2
      <4> QED BY <4>3
    <3> QED BY <2>7, <3>1, <3>2 DEF CommitOverwrite, TypeOK
  <2>8. CASE CommitDelete(t, d)
    <3>1. Tail(pendingOps[d]) \in Seq(Op)
      BY <2>1, <2>8, HeadTailProperties DEF CommitDelete, DeletesFirst
    <3>2. pendingOps' \in [Dest -> Seq(Op)]
      <4>1. \/ pendingOps' = [pendingOps EXCEPT ![d] = Tail(pendingOps[d])]
            \/ pendingOps' = [pendingOps EXCEPT ![d] = <<>>]
        BY <2>8 DEF CommitDelete
      <4>2. PICK q \in Seq(Op) : pendingOps' = [pendingOps EXCEPT ![d] = q]
        BY <3>1, <4>1
      <4> QED BY <4>2
    <3>3. files' \in [Dest -> Seq(Written)]
      BY <2>8 DEF CommitDelete
    <3>4. call' \in [Thread -> Call]
      <4>1. \/ call' = [call EXCEPT ![t].at = "open", ![t].dest = d]
            \/ call' = call
            \/ call' = [call EXCEPT ![t] = Idle]
        BY <2>8 DEF CommitDelete
      <4>2. CASE call' = [call EXCEPT ![t].at = "open", ![t].dest = d]
        BY <2>17, <4>2
      <4>3. CASE call' = call
        BY <4>3 DEF TypeOK
      <4>4. CASE call' = [call EXCEPT ![t] = Idle]
        BY <4>4
      <4> QED BY <4>1, <4>2, <4>3, <4>4
    <3>5. merge' \in Merge
      <4>1. GoalOf(d) \in Seq(Op)
        BY <2>8, <3>1 DEF CommitDelete, GoalOf, StoresOf
      <4> QED BY <2>1, <2>8, <4>1 DEF CommitDelete, Merge
    <3> QED BY <2>8, <3>2, <3>3, <3>4, <3>5 DEF CommitDelete, TypeOK
  <2>9. CASE CommitStores(t, d)
    <3>1. GoalOf(d) \in Seq(Op)
      BY <2>1, <2>9, IdsOfSeq, ConcatProperties DEF CommitStores, GoalOf, StoresOf
    <3>2. merge' \in Merge
      BY <2>1, <2>9, <3>1 DEF CommitStores, Merge
    <3> QED BY <2>9, <2>17, <3>2 DEF CommitStores, TypeOK
  <2>10. CASE OpenCommitFile(t, d)
    <3>1. /\ merge' \in Merge /\ call' = [call EXCEPT ![t].at = "append"]
          /\ UNCHANGED <<keys, pendingOps, disk, stores, holder, damaged>>
      BY <2>10, OpenedFacts, Zenon DEF Goto
    <3> QED BY <2>17, <3>1 DEF TypeOK
  <2>11. CASE AppendPending(t, d)
    <3>1. Tail(pendingOps[d]) \in Seq(Op)
      <4>1. pendingOps[d] # <<>>
        BY <2>11, AppendedFacts, Zenon
      <4> QED BY <2>1, <4>1, HeadTailProperties
    <3>2. /\ merge' \in Merge /\ onDisk' = onDisk \ {Head(pendingOps[d])}
          /\ pendingOps' = [pendingOps EXCEPT ![d] = Tail(@)]
          /\ UNCHANGED <<keys, existing, files, stores, call, holder, damaged>>
      BY <2>11, AppendedFacts, Zenon
    <3> QED BY <3>1, <3>2 DEF TypeOK
  <2>12. CASE MoveCommitFile(t, d)
    <3>1. merge' \in Merge
      BY <2>12, MovedFacts, Zenon
    <3>2. pendingOps' \in [Dest -> Seq(Op)]
      BY <2>12 DEF MoveCommitFile, TypeOK
    <3>4. files' \in [Dest -> Seq(Written)] /\ existing' \subseteq Dest
      <4>1. PICK n \in 0 .. Len(merge.content) :
              /\ files' = [files EXCEPT ![d] = SubSeq(merge.content, 1, n)]
              /\ existing' = existing \cup {d}
        BY <2>12, MovedFacts, Zenon
      <4>2. SubSeq(merge.content, 1, n) \in Seq(Written)
        BY <2>1, FrontOf DEF Merge
      <4> QED BY <4>1, <4>2 DEF TypeOK
    <3>3. call' \in [Thread -> Call]
      <4>1. \/ call' = [call EXCEPT ![t].at = "commit"]
            \/ call' = [call EXCEPT ![t] = Idle]
        BY <2>12 DEF MoveCommitFile
      <4> QED BY <2>17, <4>1
    <3> QED BY <2>12, <3>1, <3>2, <3>3, <3>4 DEF MoveCommitFile, TypeOK
  <2>13. CASE CommitPastEnd(t, d)
    BY <2>13 DEF CommitPastEnd, Restart, TypeOK
  <2>14. CASE RollbackFile(t, d)
    BY <2>14 DEF RollbackFile, RemoveAll, TypeOK
  <2>15. CASE RollbackThrows(t, d)
    <3>1. pendingOps' \in [Dest -> Seq(Op)]
      <4>1. PICK n \in 0 .. Len(StoresOf(pendingOps[d])) :
              pendingOps' = [pendingOps EXCEPT ![d] =
                SubSeq(StoresOf(pendingOps[d]), n + 1, Len(StoresOf(pendingOps[d])))]
        BY <2>15 DEF RollbackThrows
      <4> QED BY <2>1, <4>1, ListsOfStores
    <3> QED BY <2>15, <3>1 DEF RollbackThrows, RemoveSome, TypeOK
  <2> QED BY <1>1, <2>2, <2>3, <2>4, <2>5, <2>6, <2>7, <2>8, <2>9, <2>10,
             <2>11, <2>12, <2>13, <2>14, <2>15 DEF CommitStep
<1>2. ASSUME NEW t \in Thread,
             \/ WriteFails(t) \/ SkipDelete(t) \/ FindPending(t)
             \/ Enter(t, "commit") \/ Enter(t, "rollback")
             \/ CommitThrows(t) \/ Finish(t)
      PROVE  TypeOK'
  <2>1. {"idle", "commit", "rollback", "delete"} \subseteq Place
    BY DEF Place
  <2>2. CASE WriteFails(t)
    <3>1. stores' \in Store /\ stores' \in 0 .. MaxStore
      <4>1. stores < MaxStore /\ stores' = stores + 1 /\ stores \in 0 .. MaxStore
        BY <2>2 DEF WriteFails, TypeOK
      <4> QED BY <4>1, FileAssumption DEF Store
    <3> QED BY <2>2, <3>1 DEF WriteFails, TypeOK
  <2>3. PICK d \in Dest : d = call[t].dest
    BY DEF TypeOK, Call
  <2>4. CASE \/ SkipDelete(t) \/ FindPending(t)
             \/ Enter(t, "commit") \/ Enter(t, "rollback")
             \/ CommitThrows(t) \/ Finish(t)
    <3>1. call' \in [Thread -> Call]
      <4>1. \/ call' = [call EXCEPT ![t] = Idle]
            \/ call' = [call EXCEPT ![t].at = "delete"]
            \/ call' = [call EXCEPT ![t].at = "commit"]
            \/ call' = [call EXCEPT ![t].at = "rollback"]
        BY <2>4 DEF SkipDelete, FindPending, Enter, CommitThrows, Finish, Goto,
                    Return, Leave
      <4> QED BY <2>1, <2>3, <4>1, UpdateTyped
    <3>2. holder' \in Thread \cup {NoThread}
      BY <2>4 DEF SkipDelete, FindPending, Enter, CommitThrows, Finish, Leave,
                  TypeOK
    <3> QED BY <2>4, <3>1, <3>2
            DEF SkipDelete, FindPending, Enter, CommitThrows, Finish, disk,
                TypeOK
  <2> QED BY <1>2, <2>2, <2>4
<1>3. CASE Stop
  <2>1. <<>> \in Seq(Op)
    OBVIOUS
  <2>2. ASSUME NEW t \in Thread PROVE Idle \in Call
    <3>1. PICK d \in Dest : d = call[t].dest
      BY DEF TypeOK, Call
    <3> QED BY <3>1, UpdateTyped
  <2> QED BY <1>3, <2>1, <2>2 DEF Stop, Restart, disk, TypeOK
<1>4. CASE UNCHANGED vars
  BY <1>4 DEF vars, disk, TypeOK
<1> QED BY <1>1, <1>2, <1>3, <1>4 DEF Next
-----------------------------------------------------------------------------
\* Every step keeps to the mutex.
LEMMA ControlStep == TypeOK /\ Control /\ [Next]_vars => Control'
<1> SUFFICES ASSUME TypeOK, Control, [Next]_vars PROVE Control'
  OBVIOUS
<1> USE FileAssumption
<1>1. /\ call \in [Thread -> Call] /\ stores \in Nat
      /\ \A t \in Thread : DOMAIN call[t] = {"at", "dest", "store"}
  BY DEF TypeOK, Call
<1>2. ASSUME NEW t \in Thread, Return(t), stores' = stores,
              \/ holder' = holder /\ holder # t
              \/ holder = t /\ holder' = NoThread
       PROVE  Control'
  <2>1. Idle.at = "idle"
    BY DEF Idle
  <2> QED BY <1>1, <1>2, <2>1 DEF Return, Control, At
<1>3. ASSUME NEW t \in Thread, call[t].at \in {"commit", "open", "append"},
             holder' = holder, stores' = stores,
             \/ call' = call
             \/ call' = [call EXCEPT ![t].at = "commit"]
             \/ \E d \in Dest, p \in {"open", "append"} :
                  /\ ~Overwrite
                  /\ \/ call' = [call EXCEPT ![t].at = p, ![t].dest = d]
                     \/ call' = [call EXCEPT ![t].at = p]
      PROVE  Control'
  BY <1>1, <1>3 DEF Control, At
<1>4. ASSUME NEW t \in Thread, NEW d \in Dest, WritePending(t, d)
      PROVE  Control'
  BY <1>1, <1>4 DEF WritePending, Control, At
<1>5. ASSUME NEW t \in Thread, WriteFails(t)
      PROVE  Control'
  BY <1>1, <1>5 DEF WriteFails, Control, At
<1>6. ASSUME NEW t \in Thread, NEW d \in Dest,
             \/ RegisterStore(t, d) \/ CancelFails(t, d) \/ LookUp(t, d)
             \/ RegisterDelete(t, d)
      PROVE  Control'
  <2>1. holder' = holder /\ stores' = stores /\ holder # t
    BY <1>6 DEF RegisterStore, CancelFails, LookUp, RegisterDelete, Control, At
  <2>2. CASE RegisterStore(t, d) \/ CancelFails(t, d) \/ RegisterDelete(t, d)
    <3>1. Return(t)
      BY <2>2 DEF RegisterStore, CancelFails, RegisterDelete
    <3> QED BY <1>2, <2>1, <3>1
  <2>3. CASE LookUp(t, d)
    BY <1>1, <2>1, <2>3 DEF LookUp, Idle, Control, At
  <2> QED BY <1>6, <2>2, <2>3
<1>7. ASSUME NEW t \in Thread, NEW d \in Dest, CommitStep(t, d)
      PROVE  Control'
  <2> USE <1>7 DEF Control, At, Goto, Leave, EraseKey
  <2>1. CASE CommitOverwrite(t, d)
    BY <1>3, <2>1 DEF CommitOverwrite
  <2>2. CASE CommitDelete(t, d)
    <3>1. CASE holder' = holder
      BY <1>3, <2>2, <3>1 DEF CommitDelete
    <3>2. CASE holder' # holder
      BY <1>2, <2>2, <3>2 DEF CommitDelete
    <3> QED BY <3>1, <3>2
  <2>3. CASE CommitStores(t, d)
    BY <1>3, <2>3 DEF CommitStores
  <2>4. CASE OpenCommitFile(t, d)
    <3>1. /\ At(t, "open") /\ call' = [call EXCEPT ![t].at = "append"]
          /\ UNCHANGED <<stores, holder>>
      BY <2>4, OpenedFacts, Zenon DEF Goto
    <3> QED BY <1>3, <3>1
  <2>5. CASE AppendPending(t, d)
    <3>1. At(t, "append") /\ UNCHANGED <<stores, call, holder>>
      BY <2>5, AppendedFacts, Zenon
    <3> QED BY <1>3, <3>1
  <2>6. CASE MoveCommitFile(t, d)
    <3>1. CASE holder' = holder
      BY <1>3, <2>6, <3>1 DEF MoveCommitFile
    <3>2. CASE holder' # holder
      BY <1>2, <2>6, <3>2 DEF MoveCommitFile
    <3> QED BY <3>1, <3>2
  <2> QED BY <2>1, <2>2, <2>3, <2>4, <2>5, <2>6 DEF CommitStep
<1>8. ASSUME NEW t \in Thread, NEW d \in Dest,
             RollbackFile(t, d) \/ RollbackThrows(t, d)
      PROVE  Control'
  <2>1. CASE RollbackFile(t, d)
    BY <2>1 DEF RollbackFile, Control, At
  <2>2. CASE RollbackThrows(t, d)
    BY <1>2, <2>2 DEF RollbackThrows, Leave, Control, At
  <2> QED BY <1>8, <2>1, <2>2
<1>9. ASSUME NEW t \in Thread,
             SkipDelete(t) \/ FindPending(t) \/ CommitThrows(t) \/ Finish(t)
      PROVE  Control'
  <2>1. CASE SkipDelete(t)
    BY <1>2, <2>1 DEF SkipDelete, Control, At
  <2>2. CASE FindPending(t)
    BY <1>1, <2>2 DEF FindPending, Goto, Control, At
  <2>3. CASE CommitThrows(t) \/ Finish(t)
    BY <1>2, <2>3 DEF CommitThrows, Finish, Leave, Control, At
  <2> QED BY <1>9, <2>1, <2>2, <2>3
<1>10. ASSUME NEW t \in Thread, Enter(t, "commit") \/ Enter(t, "rollback")
       PROVE  Control'
  BY <1>1, <1>10 DEF Enter, Goto, Control, At
<1>11. CASE Stop \/ \E t \in Thread, d \in Dest : CommitPastEnd(t, d)
  <2>1. call' = [t \in Thread |-> Idle] /\ holder' = NoThread
    BY <1>11 DEF Stop, CommitPastEnd, Restart
  <2> QED BY <2>1 DEF Control, At, Idle
<1>12. CASE UNCHANGED vars
  BY <1>12 DEF vars, Control, At
<1> QED BY <1>4, <1>5, <1>6, <1>7, <1>8, <1>9, <1>10, <1>11, <1>12 DEF Next
-----------------------------------------------------------------------------
Leads(ops) == \A i \in DOMAIN ops : ops[i] = Delete => i = 1

\* A list keeps its form when its front, or some of its stores, are erased.
LEMMA LeadsKept ==
  ASSUME NEW ops \in Seq(Op), Leads(ops)
  PROVE  /\ ops # <<>> => Leads(Tail(ops))
         /\ \A s \in Op \ {Delete} : Leads(Append(ops, s))
         /\ \A n \in 0 .. Len(StoresOf(ops)) :
              Leads(SubSeq(StoresOf(ops), n + 1, Len(StoresOf(ops))))
<1> USE DEF Leads
<1>1. Len(ops) \in Nat /\ DOMAIN ops = 1 .. Len(ops)
  OBVIOUS
<1>2. ASSUME ops # <<>>
      PROVE  \A i \in DOMAIN Tail(ops) : Tail(ops)[i] # Delete
  <2>1. /\ Tail(ops) \in Seq(Op) /\ Len(Tail(ops)) = Len(ops) - 1
        /\ \A i \in 1 .. Len(Tail(ops)) : Tail(ops)[i] = ops[i + 1]
    BY <1>2, HeadTailProperties
  <2>2. DOMAIN Tail(ops) = 1 .. Len(ops) - 1
    BY <2>1
  <2>3. \A i \in 1 .. Len(ops) - 1 : i + 1 \in DOMAIN ops /\ i + 1 # 1
    BY <1>1
  <2> QED BY <2>1, <2>2, <2>3
<1>3. ASSUME NEW s \in Op \ {Delete} PROVE Leads(Append(ops, s))
  <2>1. /\ Append(ops, s) \in Seq(Op) /\ Len(Append(ops, s)) = Len(ops) + 1
        /\ \A i \in 1 .. Len(ops) : Append(ops, s)[i] = ops[i]
        /\ Append(ops, s)[Len(ops) + 1] = s
    BY AppendProperties
  <2>2. DOMAIN Append(ops, s) = 1 .. Len(ops) + 1
    BY <2>1
  <2> QED BY <1>1, <2>1, <2>2
<1>4. /\ StoresOf(ops) \in Seq(Op)
      /\ \A i \in DOMAIN StoresOf(ops) : StoresOf(ops)[i] # Delete
  <2>1. CASE DeletesFirst(ops)
    BY <1>2, <2>1, HeadTailProperties DEF StoresOf, DeletesFirst
  <2>2. CASE ~DeletesFirst(ops)
    <3>1. ops # <<>> => ops[1] # Delete
      BY <2>2 DEF DeletesFirst
    <3>2. StoresOf(ops) = ops
      BY <2>2 DEF StoresOf
    <3> QED BY <1>1, <3>1, <3>2
  <2> QED BY <2>1, <2>2
<1>5. ASSUME NEW q \in Seq(Op), \A i \in DOMAIN q : q[i] # Delete,
             NEW n \in 0 .. Len(q)
      PROVE  Leads(SubSeq(q, n + 1, Len(q)))
  <2>1. Len(q) \in Nat /\ n \in Nat /\ \A i \in 1 .. Len(q) : q[i] \in Op
    BY <1>5
  <2> DEFINE r == SubSeq(q, n + 1, Len(q))
  <2>2. /\ r \in Seq(Op) /\ Len(r) = IF n + 1 <= Len(q) THEN Len(q) - n ELSE 0
        /\ \A i \in 1 .. Len(q) - n : r[i] = q[n + i]
    <3>1. \A i \in n + 1 .. Len(q) : q[i] \in Op
      BY <2>1
    <3> QED BY <2>1, <3>1, SubSeqProperties
  <2>3. DOMAIN r = 1 .. Len(r)
    BY <2>2
  <2>4. \A i \in 1 .. Len(r) : i \in 1 .. Len(q) - n /\ n + i \in DOMAIN q
    BY <2>1, <2>2
  <2> HIDE DEF r
  <2> QED BY <1>5, <2>2, <2>3, <2>4 DEF r
<1> QED BY <1>2, <1>3, <1>4, <1>5

\* Deletions stay in front.
LEMMA LeadStep ==
  ASSUME TypeOK, Control, DeletesLead, [Next]_vars
  PROVE  DeletesLead'
<1>1. /\ DeletesLead <=> \A d \in Dest : Leads(pendingOps[d])
      /\ DeletesLead' <=> \A d \in Dest : Leads(pendingOps'[d])
  BY DEF DeletesLead, Leads
<1>2. ASSUME NEW d \in Dest, NEW q, Leads(q),
             pendingOps' = [pendingOps EXCEPT ![d] = q]
      PROVE  DeletesLead'
  BY <1>1, <1>2 DEF TypeOK
<1>3. Leads(<<>>) /\ \A o : Leads(<<o>>)
  BY DEF Leads
<1>4. ASSUME UNCHANGED pendingOps PROVE DeletesLead'
  BY <1>4 DEF DeletesLead
<1>5. ASSUME NEW t \in Thread, NEW d \in Dest,
             \/ RegisterStore(t, d) \/ RegisterDelete(t, d) \/ CommitStep(t, d)
             \/ RollbackFile(t, d) \/ RollbackThrows(t, d)
      PROVE  DeletesLead'
  <2> USE DEF EraseKey
  <2>1. pendingOps[d] \in Seq(Op) /\ Leads(pendingOps[d])
    BY <1>1 DEF TypeOK
  <2>2. CASE RegisterStore(t, d)
    <3>1. call[t].store \in Op \ {Delete}
      BY <2>2, FileAssumption DEF RegisterStore, Control, TypeOK, Op, Delete
    <3>2. Leads(Append(pendingOps[d], call[t].store))
      BY <2>1, <3>1, LeadsKept
    <3>3. \/ pendingOps' = [pendingOps EXCEPT ![d] = <<call[t].store>>]
          \/ pendingOps' =
               [pendingOps EXCEPT ![d] = Append(pendingOps[d], call[t].store)]
      BY <2>2 DEF RegisterStore
    <3> QED BY <1>2, <1>3, <3>2, <3>3
  <2>3. CASE RegisterDelete(t, d)
    BY <1>2, <1>3, <2>3 DEF RegisterDelete
  <2>4. CASE CommitOverwrite(t, d) \/ RollbackFile(t, d)
    BY <1>2, <1>3, <2>4 DEF CommitOverwrite, RollbackFile
  <2>5. CASE CommitDelete(t, d) \/ AppendPending(t, d) \/ MoveCommitFile(t, d)
    <3>1. pendingOps[d] # <<>> => Leads(Tail(pendingOps[d]))
      BY <2>1, LeadsKept
    <3>2. \/ /\ pendingOps[d] # <<>>
             /\ pendingOps' = [pendingOps EXCEPT ![d] = Tail(pendingOps[d])]
          \/ pendingOps' = [pendingOps EXCEPT ![d] = <<>>]
          \/ pendingOps' = pendingOps
      BY <2>5 DEF CommitDelete, AppendPending, Appended, MoveCommitFile, DeletesFirst
    <3> QED BY <1>2, <1>3, <1>4, <3>1, <3>2
  <2>6. CASE CommitStores(t, d) \/ OpenCommitFile(t, d)
    BY <1>4, <2>6 DEF CommitStores, OpenCommitFile, Opened
  <2>7. CASE RollbackThrows(t, d)
    <3> DEFINE ops == StoresOf(pendingOps[d])
    <3>1. PICK n \in 0 .. Len(ops) :
            pendingOps' = [pendingOps EXCEPT ![d] = SubSeq(ops, n + 1, Len(ops))]
      BY <2>7 DEF RollbackThrows
    <3>2. Leads(SubSeq(ops, n + 1, Len(ops)))
      BY <2>1, LeadsKept
    <3> QED BY <1>2, <3>1, <3>2
  <2> QED BY <1>5, <2>2, <2>3, <2>4, <2>5, <2>6, <2>7 DEF CommitStep
<1>6. CASE Stop \/ \E t \in Thread, d \in Dest : CommitPastEnd(t, d)
  <2>1. pendingOps' = [d \in Dest |-> <<>>]
    BY <1>6 DEF Stop, CommitPastEnd, Restart
  <2> QED BY <1>1, <1>3, <2>1
<1>7. CASE \/ \E t \in Thread, d \in Dest :
               WritePending(t, d) \/ CancelFails(t, d) \/ LookUp(t, d)
           \/ \E t \in Thread :
               \/ WriteFails(t) \/ SkipDelete(t) \/ FindPending(t)
               \/ Enter(t, "commit") \/ Enter(t, "rollback")
               \/ CommitThrows(t) \/ Finish(t)
           \/ UNCHANGED vars
  BY <1>4, <1>7 DEF WritePending, CancelFails, LookUp, WriteFails, SkipDelete,
                    FindPending, Enter, CommitThrows, Finish, vars
<1> QED BY <1>5, <1>6, <1>7 DEF Next

\* To overwrite, a file has one operation.
LEMMA SingleStep ==
  ASSUME TypeOK, Control, SingleOverwrite, [Next]_vars
  PROVE  SingleOverwrite'
<1> SUFFICES ASSUME Overwrite PROVE \A e \in keys' : Len(pendingOps'[e]) = 1
  BY DEF SingleOverwrite
<1>1. /\ pendingOps \in [Dest -> Seq(Op)] /\ keys \subseteq Dest
      /\ \A e \in keys : Len(pendingOps[e]) = 1
      /\ \A t \in Thread : ~At(t, "open") /\ ~At(t, "append")
  BY DEF TypeOK, SingleOverwrite, Control
<1>2. ASSUME NEW t \in Thread, NEW d \in Dest,
             RegisterStore(t, d) \/ RegisterDelete(t, d)
      PROVE  \A e \in keys' : Len(pendingOps'[e]) = 1
  <2>1. /\ keys' = keys \cup {d}
        /\ \/ pendingOps' = [pendingOps EXCEPT ![d] = <<call[t].store>>]
           \/ pendingOps' = [pendingOps EXCEPT ![d] = <<Delete>>]
    BY <1>2 DEF RegisterStore, RegisterDelete
  <2> QED BY <1>1, <2>1
<1>3. ASSUME NEW t \in Thread, NEW d \in Dest,
             CommitOverwrite(t, d) \/ RollbackFile(t, d)
      PROVE  \A e \in keys' : Len(pendingOps'[e]) = 1
  BY <1>1, <1>3 DEF CommitOverwrite, RollbackFile, EraseKey
<1>4. ASSUME NEW t \in Thread, NEW d \in Dest, RollbackThrows(t, d)
      PROVE  \A e \in keys' : Len(pendingOps'[e]) = 1
  <2> DEFINE ops == StoresOf(pendingOps[d])
  <2>1. PICK n \in 0 .. Len(ops) :
          /\ n < Len(ops)
          /\ pendingOps' = [pendingOps EXCEPT ![d] = SubSeq(ops, n + 1, Len(ops))]
    BY <1>4 DEF RollbackThrows, RemoveSome
  <2>2. pendingOps[d] \in Seq(Op) /\ Len(pendingOps[d]) = 1 /\ keys' = keys
    BY <1>1, <1>4 DEF RollbackThrows
  <2>3. ops \in Seq(Op) /\ (Len(ops) = 0 \/ Len(ops) = 1)
    BY <2>2, HeadTailProperties DEF StoresOf, DeletesFirst
  <2>4. n = 0 /\ Len(ops) = 1
    <3>1. \A k \in {0, 1} : \A m \in 0 .. k : m < k => m = 0 /\ k = 1
      OBVIOUS
    <3>2. Len(ops) \in {0, 1} /\ n \in 0 .. Len(ops) /\ n < Len(ops)
      BY <2>1, <2>3
    <3> QED BY <3>1, <3>2
  <2>5. Len(SubSeq(ops, n + 1, Len(ops))) = 1
    BY <2>3, <2>4
  <2> QED BY <1>1, <2>1, <2>2, <2>5
<1>5. CASE Stop \/ \E t \in Thread, d \in Dest : CommitPastEnd(t, d)
  BY <1>5 DEF Stop, CommitPastEnd, Restart
<1>6. CASE \/ \E t \in Thread, d \in Dest :
               \/ WritePending(t, d) \/ CancelFails(t, d) \/ LookUp(t, d)
               \/ CommitDelete(t, d) \/ CommitStores(t, d)
               \/ OpenCommitFile(t, d) \/ AppendPending(t, d)
               \/ MoveCommitFile(t, d)
           \/ \E t \in Thread :
               \/ WriteFails(t) \/ SkipDelete(t) \/ FindPending(t)
               \/ Enter(t, "commit") \/ Enter(t, "rollback")
               \/ CommitThrows(t) \/ Finish(t)
           \/ UNCHANGED vars
  <2>1. ASSUME NEW t \in Thread, NEW d \in Dest
        PROVE  /\ ~OpenCommitFile(t, d) /\ ~AppendPending(t, d)
               /\ ~MoveCommitFile(t, d) /\ ~CommitDelete(t, d) /\ ~CommitStores(t, d)
    BY <1>1 DEF OpenCommitFile, Opened, AppendPending, Appended, MoveCommitFile,
                CommitDelete, CommitStores
  <2>2. UNCHANGED <<keys, pendingOps>>
    BY <1>6, <2>1
    DEF WritePending, CancelFails, LookUp, WriteFails, SkipDelete, FindPending,
        Enter, CommitThrows, Finish, vars
  <2> QED BY <1>1, <2>2
<1> QED BY <1>2, <1>3, <1>4, <1>5, <1>6 DEF Next, CommitStep
-----------------------------------------------------------------------------
Data == InOnePlace /\ WrittenOnce /\ MergeOnce /\ MergeHeader /\ HeaderOnce

\* No file changes, but for those that are deleted.
OthersKept ==
  \A e \in Dest :
    files'[e] # <<>> => files'[e] = files[e] /\ (e \in existing => e \in existing')

\* Steps that write no data, and may delete a file or remove pending files.
LEMMA NothingWritten ==
  ASSUME TypeOK, Data,
         onDisk' \subseteq onDisk, stores' = stores,
         merge'.content = merge.content, merge.appending => merge'.appending,
         OthersKept,
         \A t \in Thread : At(t, "append")' =>
                           At(t, "append") /\ call'[t].dest = call[t].dest
  PROVE  Data'
<1>1. DOMAIN <<>> = {}
  OBVIOUS
<1>2. InOnePlace'
  BY <1>1 DEF Data, InOnePlace, OthersKept
<1>3. WrittenOnce'
  BY <1>1 DEF Data, WrittenOnce, OthersKept
<1>4. MergeOnce'
  BY <1>1 DEF Data, MergeOnce, OthersKept
<1>5. MergeHeader'
  BY DEF Data, MergeHeader, OthersKept
<1>6. HeaderOnce'
  BY <1>1 DEF Data, HeaderOnce, OthersKept
<1> QED BY <1>2, <1>3, <1>4, <1>5, <1>6 DEF Data

\* Store writes a pending file that is new.
LEMMA PendingWritten ==
  ASSUME TypeOK, Data,
         stores' = stores + 1, onDisk' = onDisk \cup {stores'},
         UNCHANGED <<files, existing, merge>>,
         \A t \in Thread : At(t, "append")' =>
                           At(t, "append") /\ call'[t].dest = call[t].dest
  PROVE  Data'
<1>1. stores \in Nat
  BY FileAssumption DEF TypeOK
<1>2. InOnePlace'
  <2>1. onDisk' \subseteq 1 .. stores'
    BY <1>1 DEF Data, InOnePlace
  <2>2. \A n \in (0 .. stores) \ onDisk : n \in (0 .. stores') \ onDisk'
    BY <1>1
  <2> QED BY <2>1, <2>2 DEF Data, InOnePlace
<1>3. WrittenOnce' /\ MergeOnce' /\ MergeHeader' /\ HeaderOnce'
  BY DEF Data, WrittenOnce, MergeOnce, MergeHeader, HeaderOnce
<1> QED BY <1>2, <1>3 DEF Data

\* The pending file is moved to overwrite the destination.
LEMMA PendingMoved ==
  ASSUME TypeOK, Data, Control, NEW t \in Thread, NEW d \in Dest,
         At(t, "commit"), Head(pendingOps[d]) \in onDisk,
         MoveTo(d, <<[store |-> Head(pendingOps[d]), header |-> TRUE]>>),
         onDisk' = onDisk \ {Head(pendingOps[d])},
         UNCHANGED <<stores, call, holder, merge>>
  PROVE  Data'
<1> DEFINE s == Head(pendingOps[d])
           w == [store |-> s, header |-> TRUE]
<1>1. /\ files' = [files EXCEPT ![d] = <<w>>] /\ existing' = existing \cup {d}
      /\ w.store = s /\ w.header = TRUE /\ s \in onDisk
      /\ files'[d] = <<w>> /\ \A e \in Dest \ {d} : files'[e] = files[e]
  BY DEF MoveTo, TypeOK
<1>2. \A u \in Thread : ~At(u, "append") /\ ~At(u, "append")'
  BY DEF Control, At
<1>3. s \in 1 .. stores
  BY <1>1 DEF Data, InOnePlace
<1>4. DOMAIN <<w>> = {1} /\ <<w>>[1] = w
  OBVIOUS
<1> HIDE DEF w, s
<1>5. InOnePlace'
  <2>1. \A e \in Dest : \A i \in DOMAIN files'[e] :
          files'[e][i].store \in (0 .. stores) \ onDisk'
    <3>1. s \in (0 .. stores) \ onDisk'
      BY <1>1, <1>3 DEF s
    <3>2. \A e \in Dest \ {d} : \A i \in DOMAIN files[e] :
            files[e][i].store \in (0 .. stores) \ onDisk'
      BY <1>1 DEF Data, InOnePlace
    <3> QED BY <1>1, <1>4, <3>1, <3>2
  <2> QED BY <1>1, <1>2, <2>1 DEF Data, InOnePlace
<1>6. WrittenOnce'
  BY <1>1, <1>4 DEF Data, WrittenOnce, InOnePlace
<1>7. MergeOnce' /\ MergeHeader'
  BY <1>1, <1>2 DEF Data, MergeOnce, MergeHeader
<1>8. HeaderOnce'
  BY <1>1, <1>4 DEF Data, HeaderOnce
<1> QED BY <1>5, <1>6, <1>7, <1>8 DEF Data

\* The commit file is opened with what the destination holds.
LEMMA CommitFileOpened ==
  ASSUME TypeOK, Data, Control, NEW t \in Thread, NEW d \in Dest,
         OpenCommitFile(t, d)
  PROVE  Data'
<1> DEFINE c == merge'.content
<1>1. /\ merge'.appending = (d \in existing)
      /\ UNCHANGED <<onDisk, existing, files, stores>>
      /\ At(t, "open") /\ call[t].dest = d /\ call' = [call EXCEPT ![t].at = "append"]
      /\ UNCHANGED holder
  BY OpenedFacts, Zenon DEF disk, Goto
<1>2. /\ holder = t /\ call'[t].dest = d
      /\ \A u \in Thread \ {t} : ~At(u, "append")'
  BY <1>1 DEF TypeOK, Control, At, Call
<1>7. PICK n \in 0 .. Len(files[d]) : c = SubSeq(files[d], 1, n)
  BY OpenedFacts, Zenon
<1>8. /\ DOMAIN c \subseteq DOMAIN files[d]
      /\ \A i \in DOMAIN c : c[i] = files[d][i]
      /\ c # <<>> => files[d] # <<>>
  <2>1. /\ files[d] \in Seq(Written) /\ n \in 0 .. Len(files[d])
        /\ SubSeq(<<>>, 1, 0) = <<>> /\ Len(<<>>) = 0
    BY <1>7 DEF TypeOK
  <2> HIDE DEF c
  <2>2. /\ DOMAIN c = 1 .. n /\ 1 .. n \subseteq DOMAIN files[d]
        /\ \A i \in 1 .. n : c[i] = files[d][i]
    BY <1>7, <2>1, FrontOf
  <2>3. files[d] = <<>> => c = <<>>
    BY <1>7, <2>1
  <2> QED BY <2>2, <2>3
<1> HIDE DEF c
<1>3. InOnePlace'
  <2>1. \A i \in DOMAIN c : c[i].store \in (0 .. stores) \ onDisk
    BY <1>8 DEF Data, InOnePlace
  <2> QED BY <1>1, <1>2, <2>1 DEF Data, InOnePlace, c
<1>4. WrittenOnce' /\ HeaderOnce'
  BY <1>1 DEF Data, WrittenOnce, HeaderOnce
<1>5. MergeOnce'
  <2>1. \A i \in DOMAIN c : c[i].store # 0 =>
          /\ \A j \in DOMAIN c : c[i].store = c[j].store => i = j
          /\ \A e \in Dest \ {d} : \A j \in DOMAIN files[e] :
               c[i].store # files[e][j].store
    BY <1>8 DEF Data, WrittenOnce
  <2> QED BY <1>1, <1>2, <2>1 DEF MergeOnce, c
<1>6. MergeHeader'
  <2>1. /\ c # <<>> => merge'.appending
        /\ SkipLines => \A i \in DOMAIN c : c[i].header => i = 1
    BY <1>1, <1>8 DEF Data, MergeHeader, HeaderOnce
  <2> QED BY <1>1, <1>2, <2>1 DEF Data, MergeHeader, c
<1> QED BY <1>3, <1>4, <1>5, <1>6 DEF Data

\* A pending file is appended to the commit file.
LEMMA PendingAppended ==
  ASSUME TypeOK, Data, Control, NEW t \in Thread, NEW d \in Dest,
         AppendPending(t, d)
  PROVE  Data'
<1> DEFINE s == Head(pendingOps[d])
           w == [store |-> s, header |-> ~(SkipLines /\ merge.appending)]
           c == merge.content
<1>14. /\ merge'.appending = TRUE
       /\ s \in onDisk /\ onDisk' = onDisk \ {s}
       /\ UNCHANGED <<existing, files, stores, call, holder>>
       /\ At(t, "append") /\ call[t].dest = d
       /\ merge'.content = Append(c, w) \/ merge'.content = c
  BY AppendedFacts, Zenon DEF WithFirst
<1>15. CASE merge'.content = c
  <2>1. onDisk' \subseteq onDisk
    BY <1>14
  <2>2. OthersKept
    BY <1>14 DEF OthersKept
  <2>3. merge.appending => merge'.appending
    BY <1>14
  <2> QED BY <1>14, <1>15, <2>1, <2>2, <2>3, NothingWritten DEF At
<1> SUFFICES ASSUME merge'.content = Append(c, w) PROVE Data'
  BY <1>14, <1>15
<1>1. /\ merge'.content = Append(c, w) /\ merge'.appending = TRUE
      /\ s \in onDisk /\ onDisk' = onDisk \ {s}
      /\ UNCHANGED <<existing, files, stores, call, holder>>
      /\ At(t, "append") /\ call[t].dest = d
      /\ w.store = s /\ w.header = ~(SkipLines /\ merge.appending)
  BY <1>14
<1>2. \A u \in Thread \ {t} : ~At(u, "append") /\ ~At(u, "append")'
  BY <1>1 DEF Control, At
<1>3. w \in Written /\ c \in Seq(Written)
  <2>1. Store \subseteq 0 .. MaxStore
    BY FileAssumption DEF Store
  <2>2. s \in 0 .. MaxStore
    BY <1>1, <2>1 DEF TypeOK
  <2> QED BY <2>2 DEF TypeOK, Merge, Written
<1>4. /\ Append(c, w) \in Seq(Written) /\ Len(c) \in Nat
      /\ Len(Append(c, w)) = Len(c) + 1 /\ DOMAIN c = 1 .. Len(c)
      /\ \A i \in 1 .. Len(c) : Append(c, w)[i] = c[i]
      /\ Append(c, w)[Len(c) + 1] = w
  BY <1>3, AppendProperties
<1>5. DOMAIN Append(c, w) = 1 .. Len(c) + 1
  BY <1>4
<1>6. s \in 1 .. stores
  BY <1>1 DEF Data, InOnePlace
<1>7. At(t, "append")' /\ call'[t].dest = d
  BY <1>1 DEF At
<1> HIDE DEF s, w, c
<1>8. \A i \in DOMAIN Append(c, w) :
        \/ i \in DOMAIN c /\ Append(c, w)[i] = c[i] /\ i # Len(c) + 1
        \/ i = Len(c) + 1 /\ Append(c, w)[i] = w
  BY <1>4, <1>5
<1>9. \A i \in DOMAIN c : c[i].store \in (0 .. stores) \ onDisk
  BY <1>1 DEF Data, InOnePlace, c
<1>10. InOnePlace'
  <2>1. \A i \in DOMAIN Append(c, w) :
          Append(c, w)[i].store \in (0 .. stores) \ onDisk'
    BY <1>1, <1>6, <1>8, <1>9
  <2> QED BY <1>1, <1>2, <2>1 DEF Data, InOnePlace
<1>11. WrittenOnce' /\ HeaderOnce'
  BY <1>1 DEF Data, WrittenOnce, HeaderOnce
<1>12. MergeOnce'
  <2>1. /\ \A i \in DOMAIN c : c[i].store # 0 =>
            /\ \A j \in DOMAIN c : c[i].store = c[j].store => i = j
            /\ \A e \in Dest \ {d} : \A j \in DOMAIN files[e] :
                 c[i].store # files[e][j].store
        /\ \A e \in Dest : \A j \in DOMAIN files[e] : files[e][j].store # s
        /\ \A i \in DOMAIN c : c[i].store # s
    BY <1>1, <1>9 DEF Data, MergeOnce, InOnePlace, c
  <2>2. \A i \in DOMAIN Append(c, w) : Append(c, w)[i].store # 0 =>
          /\ \A j \in DOMAIN Append(c, w) :
               Append(c, w)[i].store = Append(c, w)[j].store => i = j
          /\ \A e \in Dest \ {d} : \A j \in DOMAIN files[e] :
               Append(c, w)[i].store # files[e][j].store
    BY <1>1, <1>8, <2>1
  <2> QED BY <1>1, <1>2, <1>7, <2>2 DEF MergeOnce
<1>13. MergeHeader'
  <2>1. /\ SkipLines => \A i \in DOMAIN c : c[i].header => i = 1
        /\ c # <<>> => merge.appending
    BY <1>1 DEF Data, MergeHeader, c
  <2>2. SkipLines => \A i \in DOMAIN Append(c, w) : Append(c, w)[i].header => i = 1
    <3>1. CASE c = <<>>
      BY <1>4, <1>5, <3>1
    <3>2. CASE c # <<>>
      BY <1>1, <1>8, <2>1, <3>2
    <3> QED BY <3>1, <3>2
  <2> QED BY <1>1, <1>2, <2>2 DEF Data, MergeHeader
<1> QED BY <1>10, <1>11, <1>12, <1>13 DEF Data

\* The commit file becomes the destination.
LEMMA CommitFileMoved ==
  ASSUME TypeOK, Data, Control, NEW t \in Thread, NEW d \in Dest,
         MoveCommitFile(t, d)
  PROVE  Data'
<1>8. PICK n \in 0 .. Len(merge.content) :
        /\ files' = [files EXCEPT ![d] = SubSeq(merge.content, 1, n)]
        /\ existing' = existing \cup {d}
  BY MovedFacts, Zenon
<1> DEFINE c == SubSeq(merge.content, 1, n)
<1>1. /\ files' = [files EXCEPT ![d] = c] /\ existing' = existing \cup {d}
      /\ UNCHANGED <<onDisk, stores>>
      /\ At(t, "append") /\ call[t].dest = d
      /\ files'[d] = c /\ \A e \in Dest \ {d} : files'[e] = files[e]
  BY <1>8 DEF MoveCommitFile, TypeOK
<1>9. /\ DOMAIN c \subseteq DOMAIN merge.content
      /\ \A i \in DOMAIN c : c[i] = merge.content[i]
  <2>1. merge.content \in Seq(Written)
    BY DEF TypeOK, Merge
  <2> QED BY <1>8, <2>1, FrontOf
<1>2. \A u \in Thread : ~At(u, "append")'
  <2>1. \A u \in Thread \ {t} : ~At(u, "append")
    BY <1>1 DEF Control, At
  <2>2. \/ call' = [call EXCEPT ![t].at = "commit"]
        \/ call' = [call EXCEPT ![t] = Idle]
    BY DEF MoveCommitFile, Goto, Leave, Return
  <2>3. call \in [Thread -> Call] /\ Idle.at = "idle"
    BY DEF TypeOK, Idle
  <2> QED BY <2>1, <2>2, <2>3 DEF At, Call
<1>3. /\ \A i \in DOMAIN c : c[i].store \in (0 .. stores) \ onDisk
      /\ \A i \in DOMAIN c : c[i].store # 0 =>
           /\ \A j \in DOMAIN c : c[i].store = c[j].store => i = j
           /\ \A e \in Dest \ {d} : \A j \in DOMAIN files[e] :
                c[i].store # files[e][j].store
      /\ SkipLines => \A i \in DOMAIN c : c[i].header => i = 1
  <2> HIDE DEF c
  <2> QED BY <1>1, <1>9 DEF Data, InOnePlace, MergeOnce, MergeHeader
<1> HIDE DEF c
<1>4. InOnePlace'
  BY <1>1, <1>2, <1>3 DEF Data, InOnePlace
<1>5. WrittenOnce'
  BY <1>1, <1>3 DEF Data, WrittenOnce
<1>6. MergeOnce' /\ MergeHeader'
  BY <1>1, <1>2 DEF Data, MergeOnce, MergeHeader
<1>7. HeaderOnce'
  BY <1>1, <1>3 DEF Data, HeaderOnce
<1> QED BY <1>4, <1>5, <1>6, <1>7 DEF Data

\* Steps that write no data and leave the files alone, but for a deletion.
Quiet(t, d) ==
  \/ RegisterStore(t, d) \/ CancelFails(t, d) \/ LookUp(t, d)
  \/ RegisterDelete(t, d) \/ CommitDelete(t, d) \/ CommitStores(t, d)
  \/ RollbackFile(t, d) \/ RollbackThrows(t, d) \/ SkipDelete(t)
  \/ FindPending(t) \/ Enter(t, "commit") \/ Enter(t, "rollback")
  \/ CommitThrows(t) \/ Finish(t)

\* No thread but the one that takes the step gets to the loop of Commit.
CallsKept(place) ==
  \A u \in Thread : At(u, place)' =>
    At(u, place) /\ call'[u].dest = call[u].dest

\* A quiet step brings no thread to that loop.
LEMMA QuietCalls ==
  ASSUME TypeOK, NEW t \in Thread, NEW d \in Dest, Quiet(t, d)
  PROVE  CallsKept("append")
<1>1. /\ call \in [Thread -> Call] /\ Idle.at = "idle"
      /\ \A p : [Idle EXCEPT !.at = p, !.dest = d].at = p
  BY DEF TypeOK, Idle
<1>2. CASE \/ RegisterStore(t, d) \/ CancelFails(t, d) \/ RegisterDelete(t, d)
           \/ RollbackThrows(t, d) \/ SkipDelete(t) \/ CommitThrows(t)
           \/ Finish(t)
  <2>1. call' = [call EXCEPT ![t] = Idle]
    BY <1>2 DEF RegisterStore, CancelFails, RegisterDelete, RollbackThrows,
                SkipDelete, CommitThrows, Finish, Leave, Return
  <2> QED BY <1>1, <2>1 DEF CallsKept, At
<1>3. CASE LookUp(t, d)
  <2>1. PICK p \in {"delete", "isPending"} :
          call' = [call EXCEPT ![t] = [Idle EXCEPT !.at = p, !.dest = d]]
    BY <1>3 DEF LookUp
  <2> QED BY <1>1, <2>1 DEF CallsKept, At
<1>4. CASE \/ FindPending(t) \/ Enter(t, "commit") \/ Enter(t, "rollback")
           \/ CommitStores(t, d) \/ CommitDelete(t, d) \/ RollbackFile(t, d)
  <2>1. \/ call' = call
        \/ call' = [call EXCEPT ![t] = Idle]
        \/ call' = [call EXCEPT ![t].at = "delete"]
        \/ call' = [call EXCEPT ![t].at = "commit"]
        \/ call' = [call EXCEPT ![t].at = "rollback"]
        \/ call' = [call EXCEPT ![t].at = "open", ![t].dest = d]
    BY <1>4 DEF FindPending, Enter, CommitStores, CommitDelete, RollbackFile,
                Goto, Leave, Return
  <2> QED BY <1>1, <2>1 DEF CallsKept, At, Call
<1> QED BY <1>2, <1>3, <1>4 DEF Quiet

\* What a deletion leaves of the other files.
LEMMA OthersStay ==
  ASSUME TypeOK, NEW d \in Dest,
         files' = [files EXCEPT ![d] = <<>>], existing' = existing \ {d}
  PROVE  OthersKept
<1>1. ASSUME NEW e \in Dest, e # d
      PROVE  files'[e] = files[e] /\ (e \in existing => e \in existing')
  BY <1>1
<1>2. files'[d] = <<>>
  BY DEF TypeOK
<1> QED BY <1>1, <1>2 DEF OthersKept

\* No step writes data twice, or a second header.
LEMMA DataStep ==
  ASSUME TypeOK, Control, Data, [Next]_vars
  PROVE  Data'
<1>1. ASSUME NEW t \in Thread, NEW d \in Dest, Quiet(t, d)
      PROVE  Data'
  <2>1. CallsKept("append")
    BY <1>1, QuietCalls
  <2>2. /\ onDisk' \subseteq onDisk /\ stores' = stores
        /\ merge'.content = merge.content /\ merge'.appending = merge.appending
    BY <1>1 DEF Quiet, RegisterStore, CancelFails, LookUp, RegisterDelete,
       CommitDelete, CommitStores, RollbackFile, RollbackThrows, SkipDelete,
       FindPending, Enter, CommitThrows, Finish, RemoveAll, RemoveSome, disk,
       TypeOK, Merge
  <2>3. \/ UNCHANGED <<files, existing>>
        \/ files' = [files EXCEPT ![d] = <<>>] /\ existing' = existing \ {d}
    BY <1>1 DEF Quiet, RegisterStore, CancelFails, LookUp, RegisterDelete,
       CommitDelete, CommitStores, RollbackFile, RollbackThrows, SkipDelete,
       FindPending, Enter, CommitThrows, Finish, RemoveFile, disk
  <2>4. OthersKept
    <3>1. CASE UNCHANGED <<files, existing>>
      BY <3>1 DEF OthersKept
    <3>2. CASE files' = [files EXCEPT ![d] = <<>>] /\ existing' = existing \ {d}
      BY <3>2, OthersStay
    <3> QED BY <2>3, <3>1, <3>2
  <2> QED BY <2>1, <2>2, <2>4, NothingWritten DEF CallsKept
<1>2. ASSUME NEW t \in Thread, NEW d \in Dest, CommitOverwrite(t, d)
      PROVE  Data'
  <2>1. CASE Head(pendingOps[d]) \in onDisk
             /\ MoveTo(d, <<[store |-> Head(pendingOps[d]), header |-> TRUE]>>)
             /\ onDisk' = onDisk \ {Head(pendingOps[d])}
    BY <1>2, <2>1, PendingMoved DEF CommitOverwrite
  <2>2. CASE RemoveFile(d) /\ UNCHANGED onDisk
    <3>1. /\ onDisk' \subseteq onDisk /\ UNCHANGED <<stores, merge, call>>
          /\ files' = [files EXCEPT ![d] = <<>>] /\ existing' = existing \ {d}
      BY <1>2, <2>2 DEF CommitOverwrite, RemoveFile
    <3>2. OthersKept
      BY <3>1, OthersStay
    <3>3. \A u \in Thread : At(u, "append")' =>
            At(u, "append") /\ call'[u].dest = call[u].dest
      BY <3>1 DEF At
    <3> QED BY <3>1, <3>2, <3>3, NothingWritten
  <2> QED BY <1>2, <2>1, <2>2 DEF CommitOverwrite
<1>3. CASE Stop \/ \E t \in Thread, d \in Dest : CommitPastEnd(t, d)
  <2>1. /\ UNCHANGED <<onDisk, stores, merge>>
        /\ call' = [t \in Thread |-> Idle]
        /\ \/ UNCHANGED <<files, existing>>
           \/ \E d \in Dest : /\ files' = [files EXCEPT ![d] = <<>>]
                              /\ existing' = existing \ {d}
    BY <1>3 DEF Stop, CommitPastEnd, Restart, RemoveFile, disk
  <2>2. OthersKept
    <3>1. CASE UNCHANGED <<files, existing>>
      BY <3>1 DEF OthersKept
    <3>2. ASSUME NEW d \in Dest, files' = [files EXCEPT ![d] = <<>>],
                 existing' = existing \ {d}
          PROVE  OthersKept
      BY <3>2, OthersStay
    <3> QED BY <2>1, <3>1, <3>2
  <2>3. \A u \in Thread : ~At(u, "append")'
    BY <2>1 DEF At, Idle
  <2> QED BY <2>1, <2>2, <2>3, NothingWritten
<1>4. ASSUME NEW t \in Thread,
             WriteFails(t) \/ \E d \in Dest : WritePending(t, d)
      PROVE  Data'
  <2>1. /\ stores' = stores + 1 /\ onDisk' = onDisk \cup {stores'}
        /\ UNCHANGED <<files, existing, merge>>
        /\ \/ call' = call
           \/ \E d \in Dest : call' =
                [call EXCEPT ![t] = [at |-> "store", dest |-> d, store |-> stores']]
    BY <1>4 DEF WriteFails, WritePending
  <2>2. \A u \in Thread : At(u, "append")' =>
          At(u, "append") /\ call'[u].dest = call[u].dest
    BY <2>1 DEF At, TypeOK
  <2> QED BY <2>1, <2>2, PendingWritten
<1>5. CASE UNCHANGED vars
  <2>1. \A u \in Thread : At(u, "append")' =>
          At(u, "append") /\ call'[u].dest = call[u].dest
    BY <1>5 DEF vars, At
  <2> QED BY <1>5, <2>1, NothingWritten DEF vars, disk, OthersKept
<1>6. ASSUME NEW t \in Thread,
             \/ SkipDelete(t) \/ FindPending(t) \/ Enter(t, "commit")
             \/ Enter(t, "rollback") \/ CommitThrows(t) \/ Finish(t)
      PROVE  Data'
  <2>1. PICK d \in Dest : d = call[t].dest
    BY DEF TypeOK, Call
  <2>2. Quiet(t, d)
    BY <1>6 DEF Quiet
  <2> QED BY <1>1, <2>2
<1>7. ASSUME NEW t \in Thread, NEW d \in Dest, CommitStep(t, d)
      PROVE  Data'
  BY <1>1, <1>2, <1>7, CommitFileOpened, PendingAppended, CommitFileMoved
  DEF CommitStep, Quiet
<1>8. ASSUME NEW t \in Thread, NEW d \in Dest,
             \/ RegisterStore(t, d) \/ CancelFails(t, d) \/ LookUp(t, d)
             \/ RegisterDelete(t, d) \/ RollbackFile(t, d)
             \/ RollbackThrows(t, d)
      PROVE  Data'
  BY <1>1, <1>8 DEF Quiet
<1> QED BY <1>3, <1>4, <1>5, <1>6, <1>7, <1>8 DEF Next
-----------------------------------------------------------------------------
\* A front of what is there, and the list, are within both together.
LEMMA FrontWithin ==
  ASSUME NEW c \in Seq(Written), NEW ops \in Seq(Op), NEW n \in 0 .. Len(c)
  PROVE  /\ Within(Ids(c) \o ops, SubSeq(c, 1, n), ops)
         /\ n = Len(c) => SubSeq(c, 1, n) = c
<1> DEFINE f == SubSeq(c, 1, n)
           g == Ids(c) \o ops
<1>1. /\ f \in Seq(Written) /\ DOMAIN f = 1 .. n /\ 1 .. n \subseteq DOMAIN c
      /\ \A i \in 1 .. n : f[i] = c[i]
      /\ n = Len(c) => f = c
  BY FrontOf
<1>2. /\ Ids(c) \in Seq(Op) /\ Len(Ids(c)) = Len(c)
      /\ \A i \in 1 .. Len(c) : Ids(c)[i] = c[i].store
  BY IdsOfSeq
<1>3. /\ g \in Seq(Op) /\ Len(g) = Len(c) + Len(ops) /\ DOMAIN c = 1 .. Len(c)
      /\ \A i \in 1 .. Len(c) : g[i] = Ids(c)[i]
      /\ \A i \in 1 .. Len(ops) : g[Len(c) + i] = ops[i]
      /\ Len(c) \in Nat /\ Len(ops) \in Nat /\ DOMAIN ops = 1 .. Len(ops)
  <2>1. g \in Seq(Op) /\ Len(Ids(c)) = Len(c) /\ Len(c) \in Nat /\ Len(ops) \in Nat
    BY <1>2, ConcatProperties
  <2>2. /\ Len(g) = Len(c) + Len(ops)
        /\ \A i \in 1 .. Len(c) + Len(ops) :
             g[i] = IF i <= Len(c) THEN Ids(c)[i] ELSE ops[i - Len(c)]
    <3>1. /\ Len(g) = Len(Ids(c)) + Len(ops)
          /\ \A i \in 1 .. Len(Ids(c)) + Len(ops) :
               g[i] = IF i <= Len(Ids(c)) THEN Ids(c)[i] ELSE ops[i - Len(Ids(c))]
      BY <1>2, ConcatProperties, Zenon
    <3> HIDE DEF g
    <3> QED BY <2>1, <3>1
  <2> HIDE DEF g
  <2>3. \A i \in 1 .. Len(c) : g[i] = Ids(c)[i]
    BY <2>1, <2>2
  <2>4. ASSUME NEW i \in 1 .. Len(ops) PROVE g[Len(c) + i] = ops[i]
    <3>1. /\ Len(c) + i \in 1 .. Len(c) + Len(ops) /\ ~(Len(c) + i <= Len(c))
          /\ Len(c) + i - Len(c) = i
      BY <2>1
    <3> QED BY <2>2, <3>1
  <2> QED BY <2>1, <2>2, <2>3, <2>4
<1> HIDE DEF f, g
<1>4. DOMAIN g = 1 .. Len(c) + Len(ops)
  BY <1>3
<1>5. ToSet(Ids(f)) \subseteq ToSet(g)
  <2> SUFFICES ASSUME NEW v \in ToSet(Ids(f)) PROVE v \in ToSet(g)
    OBVIOUS
  <2>1. PICK i \in DOMAIN f : v = f[i].store
    BY DEF ToSet, Ids
  <2>2. i \in DOMAIN g /\ g[i] = v
    BY <1>1, <1>2, <1>3, <1>4, <2>1
  <2> QED BY <2>2 DEF ToSet
<1>6. ToSet(ops) \subseteq ToSet(g)
  <2> SUFFICES ASSUME NEW v \in ToSet(ops) PROVE v \in ToSet(g)
    OBVIOUS
  <2>1. PICK i \in DOMAIN ops : v = ops[i]
    BY DEF ToSet
  <2>2. Len(c) + i \in DOMAIN g /\ g[Len(c) + i] = v
    BY <1>3, <1>4, <2>1
  <2> QED BY <2>2 DEF ToSet
<1> QED BY <1>1, <1>5, <1>6 DEF Within, f, g

\* Moving the first pending file, or losing it, leaves all within the goal.
LEMMA MoveWithin ==
  ASSUME NEW goal, NEW c \in Seq(Written), NEW ops \in Seq(Op), ops # <<>>,
         NEW w \in Written, w.store = Head(ops), Within(goal, c, ops)
  PROVE  Within(goal, c, Tail(ops)) /\ Within(goal, Append(c, w), Tail(ops))
<1>1. ToSet(ops) = {Head(ops)} \cup ToSet(Tail(ops))
  BY TailToSet
<1>2. /\ DOMAIN Append(c, w) = 1 .. Len(c) + 1 /\ DOMAIN c = 1 .. Len(c)
      /\ \A i \in 1 .. Len(c) : Append(c, w)[i] = c[i]
      /\ Append(c, w)[Len(c) + 1] = w /\ Len(c) \in Nat
  BY AppendFacts
<1> DEFINE a == Append(c, w)
<1> HIDE DEF a
<1>3. ASSUME NEW v \in ToSet(Ids(a)) PROVE v \in ToSet(Ids(c)) \cup {Head(ops)}
  <2>1. PICK i \in DOMAIN a : v = a[i].store
    BY <1>3 DEF ToSet, Ids
  <2>2. CASE i = Len(c) + 1
    BY <1>2, <2>1, <2>2 DEF a
  <2>3. CASE i # Len(c) + 1
    <3>1. i \in DOMAIN c /\ a[i] = c[i]
      BY <1>2, <2>1, <2>3 DEF a
    <3>2. i \in DOMAIN Ids(c) /\ Ids(c)[i] = v
      BY <2>1, <3>1 DEF Ids
    <3> QED BY <3>2 DEF ToSet
  <2> QED BY <2>2, <2>3
<1> QED BY <1>1, <1>3 DEF Within, a

\* What is in the commit file and what is left of the list make up the goal.
LEMMA GoalStep ==
  ASSUME TypeOK, Control, MergeGoal, [Next]_vars
  PROVE  MergeGoal'
<1>1. ASSUME UNCHANGED <<files, pendingOps, merge>>,
             CallsKept("open"), CallsKept("append")
      PROVE  MergeGoal'
  BY <1>1 DEF MergeGoal, CallsKept
<1>2. ASSUME \A u \in Thread : ~At(u, "open")' /\ ~At(u, "append")'
      PROVE  MergeGoal'
  BY <1>2 DEF MergeGoal
<1>3. /\ call \in [Thread -> Call] /\ Idle.at = "idle"
      /\ pendingOps \in [Dest -> Seq(Op)] /\ files \in [Dest -> Seq(Written)]
      /\ merge \in Merge
  BY DEF TypeOK, Idle
<1>4. ASSUME NEW t \in Thread, NEW d \in Dest,
             \/ WritePending(t, d) \/ LookUp(t, d) \/ WriteFails(t)
             \/ SkipDelete(t) \/ FindPending(t) \/ Enter(t, "commit")
             \/ Enter(t, "rollback") \/ CommitThrows(t) \/ Finish(t)
      PROVE  MergeGoal'
  <2>1. UNCHANGED <<files, pendingOps, merge>>
    BY <1>4 DEF WritePending, LookUp, WriteFails, SkipDelete, FindPending,
                Enter, CommitThrows, Finish, disk
  <2>2. PICK p \in {"store", "delete", "isPending", "commit", "rollback", "idle"} :
          \/ call' = call
          \/ call' = [call EXCEPT ![t].at = p]
          \/ /\ call' = [call EXCEPT ![t] = Idle]
          \/ call' = [call EXCEPT ![t] = [Idle EXCEPT !.at = p, !.dest = d]]
          \/ call' = [call EXCEPT ![t] = [at |-> p, dest |-> d, store |-> stores']]
    BY <1>4 DEF WritePending, LookUp, WriteFails, SkipDelete, FindPending,
                Enter, CommitThrows, Finish, Goto, Return, Leave
  <2>3. [Idle EXCEPT !.at = p, !.dest = d].at = p
    BY DEF Idle
  <2>4. CallsKept("open") /\ CallsKept("append")
    <3>1. CASE call' = call
      BY <3>1 DEF CallsKept, At
    <3>2. CASE call' = [call EXCEPT ![t].at = p]
      BY <1>3, <3>2 DEF CallsKept, At, Call
    <3>3. CASE \/ call' = [call EXCEPT ![t] = Idle]
               \/ call' = [call EXCEPT ![t] = [Idle EXCEPT !.at = p, !.dest = d]]
      BY <1>3, <2>3, <3>3 DEF CallsKept, At
    <3>4. CASE call' =
            [call EXCEPT ![t] = [at |-> p, dest |-> d, store |-> stores']]
      BY <1>3, <3>4 DEF CallsKept, At
    <3> QED BY <2>2, <3>1, <3>2, <3>3, <3>4
  <2> QED BY <1>1, <2>1, <2>4
<1>5. ASSUME NEW t \in Thread, NEW d \in Dest,
             \/ RegisterStore(t, d) \/ CancelFails(t, d) \/ RegisterDelete(t, d)
             \/ RollbackFile(t, d) \/ RollbackThrows(t, d)
             \/ CommitOverwrite(t, d)
      PROVE  MergeGoal'
  <2>1. \A u \in Thread : ~At(u, "open") /\ ~At(u, "append")
    BY <1>5, FileAssumption
    DEF RegisterStore, CancelFails, RegisterDelete, RollbackFile,
        RollbackThrows, CommitOverwrite, Control, At
  <2>2. call' = call \/ call' = [call EXCEPT ![t] = Idle]
    BY <1>5 DEF RegisterStore, CancelFails, RegisterDelete, RollbackFile,
                RollbackThrows, CommitOverwrite, Return, Leave
  <2> QED BY <1>2, <1>3, <2>1, <2>2 DEF At
<1>6. ASSUME NEW t \in Thread, NEW d \in Dest, CommitStep(t, d)
      PROVE  \A u \in Thread \ {t} : ~At(u, "open") /\ ~At(u, "append")
  <2>1. CASE OpenCommitFile(t, d) \/ AppendPending(t, d)
    <3>1. At(t, "open") \/ At(t, "append")
      BY <2>1, Zenon DEF OpenCommitFile, Opened, AppendPending, Appended
    <3> QED BY <3>1 DEF Control, At
  <2>2. CASE ~(OpenCommitFile(t, d) \/ AppendPending(t, d))
    BY <1>6, <2>2 DEF CommitStep, CommitOverwrite, CommitDelete, CommitStores,
                      MoveCommitFile, Control, At
  <2> QED BY <2>1, <2>2
<1>7. ASSUME NEW t \in Thread, NEW d \in Dest, CommitDelete(t, d)
      PROVE  MergeGoal'
  <2>1. \A u \in Thread \ {t} : ~At(u, "open") /\ ~At(u, "append")
    BY <1>6, <1>7 DEF CommitStep
  <2>2. CASE call' = call \/ call' = [call EXCEPT ![t] = Idle]
    <3>1. ~At(t, "open") /\ ~At(t, "append")
      BY <1>7 DEF CommitDelete, At
    <3> QED BY <1>2, <1>3, <2>1, <2>2, <3>1 DEF At
  <2>3. CASE call' = [call EXCEPT ![t].at = "open", ![t].dest = d]
             /\ pendingOps' = [pendingOps EXCEPT ![d] = Tail(pendingOps[d])]
    <3>1. /\ merge'.goal = <<>> \o Tail(pendingOps[d])
          /\ files'[d] = <<>> /\ pendingOps'[d] = Tail(pendingOps[d])
      BY <1>3, <1>7, <2>3
      DEF CommitDelete, GoalOf, StoresOf, RemoveFile, Merge
    <3>2. Ids(<<>>) = <<>>
      BY DEF Ids
    <3>3. call'[t].at = "open" /\ call'[t].dest = d
      BY <1>3, <2>3 DEF Call
    <3>4. \A u \in Thread \ {t} : ~At(u, "open")' /\ ~At(u, "append")'
      BY <1>3, <2>1, <2>3 DEF At
    <3> QED BY <3>1, <3>2, <3>3, <3>4 DEF MergeGoal, At
  <2> QED BY <1>7, <2>2, <2>3 DEF CommitDelete, Leave, Return
<1>8. ASSUME NEW t \in Thread, NEW d \in Dest, CommitStores(t, d)
      PROVE  MergeGoal'
  <2>1. \A u \in Thread \ {t} : ~At(u, "open") /\ ~At(u, "append")
    BY <1>6, <1>8 DEF CommitStep
  <2>2. /\ merge'.goal = Ids(files[d]) \o pendingOps[d]
        /\ UNCHANGED <<files, pendingOps>>
        /\ call' = [call EXCEPT ![t].at = "open", ![t].dest = d]
    BY <1>3, <1>8 DEF CommitStores, GoalOf, StoresOf, Merge, disk
  <2>3. call'[t].at = "open" /\ call'[t].dest = d
    BY <1>3, <2>2 DEF Call
  <2>4. \A u \in Thread \ {t} : ~At(u, "open")' /\ ~At(u, "append")'
    BY <1>3, <2>1, <2>2 DEF At
  <2> QED BY <2>2, <2>3, <2>4 DEF MergeGoal, At
<1>9. ASSUME NEW t \in Thread, NEW d \in Dest, OpenCommitFile(t, d)
      PROVE  MergeGoal'
  <2>1. \A u \in Thread \ {t} : ~At(u, "open") /\ ~At(u, "append")
    BY <1>6, <1>9 DEF CommitStep
  <2>2. /\ merge'.goal = merge.goal
        /\ UNCHANGED pendingOps /\ call' = [call EXCEPT ![t].at = "append"]
        /\ At(t, "open") /\ call[t].dest = d
    BY <1>9, OpenedFacts, Zenon DEF Goto
  <2>3. call'[t].at = "append" /\ call'[t].dest = d
    BY <1>3, <2>2 DEF Call
  <2>4. \A u \in Thread \ {t} : ~At(u, "open")' /\ ~At(u, "append")'
    BY <1>3, <2>1, <2>2 DEF At
  <2>5. merge.goal = Ids(files[d]) \o pendingOps[d]
    BY <2>2 DEF MergeGoal
  <2>6. PICK n \in 0 .. Len(files[d]) :
          /\ merge'.content = SubSeq(files[d], 1, n)
          /\ n = Len(files[d]) \/ merge'.cut
    BY <1>9, OpenedFacts, Zenon
  <2>7. /\ Within(merge.goal, SubSeq(files[d], 1, n), pendingOps[d])
        /\ n = Len(files[d]) => SubSeq(files[d], 1, n) = files[d]
    <3>1. files[d] \in Seq(Written) /\ pendingOps[d] \in Seq(Op)
      BY <1>3
    <3> QED BY <2>5, <2>6, <3>1, FrontWithin
  <2>8. /\ Within(merge'.goal, merge'.content, pendingOps'[d])
        /\ merge'.cut \/ merge'.goal = Ids(merge'.content) \o pendingOps'[d]
    BY <2>2, <2>5, <2>6, <2>7, Zenon
  <2> QED BY <2>3, <2>4, <2>8 DEF MergeGoal, At
<1>10. ASSUME NEW t \in Thread, NEW d \in Dest, AppendPending(t, d)
       PROVE  MergeGoal'
  <2> DEFINE w == [store |-> Head(pendingOps[d]),
                   header |-> ~(SkipLines /\ merge.appending)]
  <2>1. \A u \in Thread \ {t} : ~At(u, "open") /\ ~At(u, "append")
    BY <1>6, <1>10 DEF CommitStep
  <2>2. /\ merge'.goal = merge.goal
        /\ pendingOps' = [pendingOps EXCEPT ![d] = Tail(pendingOps[d])]
        /\ UNCHANGED call
        /\ At(t, "append") /\ call[t].dest = d /\ pendingOps[d] # <<>>
        /\ Head(pendingOps[d]) \in onDisk
        /\ merge.content \in Seq(Written)
        /\ \/ merge'.content = Append(merge.content, w) /\ (merge.cut => merge'.cut)
           \/ merge'.content = merge.content /\ merge'.cut
    BY <1>10, AppendedFacts, Zenon DEF WithFirst
  <2>3. w \in Written /\ w.store = Head(pendingOps[d])
    <3>1. Store \subseteq 0 .. MaxStore
      BY FileAssumption DEF Store
    <3>2. Head(pendingOps[d]) \in 0 .. MaxStore
      BY <2>2, <3>1 DEF TypeOK
    <3> QED BY <3>2 DEF Written
  <2>4. pendingOps[d] \in Seq(Op) /\ pendingOps'[d] = Tail(pendingOps[d])
    BY <1>3, <2>2
  <2> HIDE DEF w
  <2>5. Ids(Append(merge.content, w)) \o Tail(pendingOps[d])
          = Ids(merge.content) \o pendingOps[d]
    BY <2>2, <2>3, <2>4, MoveKeepsGoal
  <2>6. /\ Within(merge.goal, merge.content, pendingOps[d])
        /\ merge.cut \/ merge.goal = Ids(merge.content) \o pendingOps[d]
    BY <2>2 DEF MergeGoal
  <2>7. /\ Within(merge.goal, merge.content, Tail(pendingOps[d]))
        /\ Within(merge.goal, Append(merge.content, w), Tail(pendingOps[d]))
    BY <2>2, <2>3, <2>4, <2>6, MoveWithin
  <2>8. /\ Within(merge'.goal, merge'.content, pendingOps'[d])
        /\ merge'.cut \/ merge'.goal = Ids(merge'.content) \o pendingOps'[d]
    BY <2>2, <2>4, <2>5, <2>6, <2>7, Zenon
  <2> QED BY <2>1, <2>2, <2>8 DEF MergeGoal, At
<1>11. ASSUME NEW t \in Thread, NEW d \in Dest, MoveCommitFile(t, d)
       PROVE  MergeGoal'
  <2>1. \A u \in Thread \ {t} : ~At(u, "open") /\ ~At(u, "append")
    BY <1>6, <1>11 DEF CommitStep
  <2>2. \/ call' = [call EXCEPT ![t].at = "commit"]
        \/ call' = [call EXCEPT ![t] = Idle]
    BY <1>11 DEF MoveCommitFile, Goto, Leave, Return
  <2> QED BY <1>2, <1>3, <2>1, <2>2 DEF At, Call
<1>12. CASE Stop \/ \E t \in Thread, d \in Dest : CommitPastEnd(t, d)
  <2>1. call' = [t \in Thread |-> Idle]
    BY <1>12 DEF Stop, CommitPastEnd, Restart
  <2> QED BY <1>2, <1>3, <2>1 DEF At
<1>13. CASE UNCHANGED vars
  BY <1>1, <1>13 DEF vars, disk, CallsKept, At
<1>14. ASSUME NEW t \in Thread,
              \/ WriteFails(t) \/ SkipDelete(t) \/ FindPending(t)
              \/ Enter(t, "commit") \/ Enter(t, "rollback")
              \/ CommitThrows(t) \/ Finish(t)
       PROVE  MergeGoal'
  <2>1. PICK d \in Dest : d = call[t].dest
    BY <1>3 DEF Call
  <2> QED BY <1>4, <1>14, <2>1
<1> QED BY <1>4, <1>5, <1>7, <1>8, <1>9, <1>10, <1>11, <1>12, <1>13, <1>14
        DEF Next, CommitStep
-----------------------------------------------------------------------------
\* Before the first call.
LEMMA Initially == Init => IInv
<1> SUFFICES ASSUME Init PROVE IInv
  OBVIOUS
<1> USE FileAssumption DEF Init, disk
<1>1. \A t \in Thread : call[t] = Idle /\ call[t].at = "idle"
  BY DEF Idle
<1>2. TypeOK
  <2>1. <<>> \in Seq(Op) /\ <<>> \in Seq(Written)
    OBVIOUS
  <2>2. <<Original>> \in Seq(Written)
    <3>1. Original \in Written
      BY DEF Original, Written
    <3> QED BY <3>1
  <2>3. files \in [Dest -> Seq(Written)]
    BY <2>1, <2>2
  <2>4. ASSUME NEW t \in Thread PROVE Idle \in Call
    BY DEF Idle, Call, Place
  <2>5. NoMerge \in Merge
    BY <2>1 DEF NoMerge, Merge
  <2>6. /\ pendingOps \in [Dest -> Seq(Op)] /\ call \in [Thread -> Call]
        /\ keys \subseteq Dest /\ onDisk \subseteq Store /\ existing \subseteq Dest
    BY <2>1, <2>4
  <2>7. holder \in Thread \cup {NoThread} /\ damaged \in BOOLEAN
    OBVIOUS
  <2>8. stores \in 0 .. MaxStore
    OBVIOUS
  <2>9. merge \in Merge
    BY <2>5
  <2> HIDE DEF Init
  <2> QED BY <2>3, <2>6, <2>7, <2>8, <2>9 DEF TypeOK
<1>3. Control /\ MergeGoal /\ MergeOnce
  BY <1>1 DEF Control, MergeGoal, MergeOnce, At
<1>4. DeletesLead /\ SingleOverwrite
  BY DEF DeletesLead, SingleOverwrite
<1>5. \A d \in Dest : \A i \in DOMAIN files[d] :
        i = 1 /\ files[d][i].store = 0 /\ d \in existing
  BY DEF Original
<1>6. InOnePlace /\ WrittenOnce /\ HeaderOnce
  BY <1>1, <1>5 DEF InOnePlace, WrittenOnce, HeaderOnce, At
<1>7. MergeHeader
  BY <1>1 DEF MergeHeader, At
<1> QED BY <1>2, <1>3, <1>4, <1>6, <1>7 DEF IInv

\* Every step keeps the whole of the invariant.
LEMMA Inductive == IInv /\ [Next]_vars => IInv'
  BY TypeStep, ControlStep, LeadStep, SingleStep, GoalStep, DataStep DEF IInv, Data

\* The invariant that the theorems below are read from.
THEOREM Invariance == Spec => []IInv
<1>1. Init => IInv
  BY Initially
<1>2. IInv /\ [Next]_vars => IInv'
  BY Inductive
<1> QED BY <1>1, <1>2, PTL DEF Spec

\* TypeOK: the values that the members and the files may have.
THEOREM TypeCorrect == Spec => []TypeOK
<1>1. IInv => TypeOK
  BY DEF IInv
<1> QED BY <1>1, Invariance, PTL

\* A deletion is nowhere but at the front of a list, where Commit and Rollback
\* look for it, in either mode and however many calls failed before.
THEOREM DeletesLeadHolds == Spec => []DeletesLead
<1>1. IInv => DeletesLead
  BY DEF IInv
<1> QED BY <1>1, Invariance, PTL

\* Commit cannot reach its exception for "multiple pending files".
THEOREM SingleOverwriteHolds == Spec => []SingleOverwrite
<1>1. IInv => SingleOverwrite
  BY DEF IInv
<1> QED BY <1>1, Invariance, PTL

\* No data is written twice, however often Commit throws and is called again.
THEOREM WrittenOnceHolds == Spec => []WrittenOnce
<1>1. IInv => WrittenOnce
  BY DEF IInv
<1> QED BY <1>1, Invariance, PTL

\* With lines to skip, only the first data of a file has a header.
THEOREM HeaderOnceHolds == Spec => []HeaderOnce
<1>1. IInv => HeaderOnce
  BY DEF IInv
<1> QED BY <1>1, Invariance, PTL

-----------------------------------------------------------------------------
Listed(d) == ToSet(StoresOf(pendingOps[d]))
Storing(t) == At(t, "store")

\* Until something fails halfway: the pending files are those listed or about to
\* be, and each is listed once, in one list, by the Store that wrote it.
Matched ==
  ~damaged =>
    /\ \A s : s \in onDisk <=> \/ \E d \in Dest : s \in Listed(d)
                               \/ \E t \in Thread : Storing(t) /\ call[t].store = s
    /\ \A d \in Dest : IsInjective(StoresOf(pendingOps[d]))
    /\ \A d, e \in Dest : \A s : s \in Listed(d) /\ s \in Listed(e) => d = e
    /\ \A t \in Thread, d \in Dest : Storing(t) => call[t].store \notin Listed(d)
    /\ \A t, u \in Thread :
         Storing(t) /\ Storing(u) /\ call[t].store = call[u].store => t = u

\* The calls that are about to list a file are the same.
SameStores ==
  \A t \in Thread : /\ Storing(t)' <=> Storing(t)
                    /\ Storing(t) => call'[t].store = call[t].store

\* Calls that go on, or return, without becoming a Store that has written its file.
LEMMA CallsLeave ==
  ASSUME TypeOK, NEW t \in Thread, ~Storing(t),
         \/ UNCHANGED call
         \/ \E p \in Place \ {"store"} : call' = [call EXCEPT ![t].at = p]
         \/ \E d \in Dest : call' = [call EXCEPT ![t].at = "open", ![t].dest = d]
         \/ call' = [call EXCEPT ![t] = Idle]
  PROVE  SameStores
<1>1. call \in [Thread -> Call]
  BY DEF TypeOK
<1>2. \A u \in Thread \ {t} : call'[u] = call[u]
  BY <1>1
<1>3. call'[t].at # "store"
  <2>1. call[t] \in Call /\ call[t].at # "store"
    BY <1>1 DEF Storing, At
  <2> QED BY <1>1, <2>1 DEF Call, Idle
<1> QED BY <1>2, <1>3 DEF SameStores, Storing, At

\* A list of one operation.
LEMMA OnlyOne ==
  ASSUME NEW q \in Seq(Op), Len(q) = 1
  PROVE  q = <<Head(q)>> /\ Head(q) \in Op /\ Tail(q) = <<>>
<1>1. q # <<>> /\ Head(q) = q[1] /\ q[1] \in Op
  OBVIOUS
<1>2. <<Head(q)>> \in Seq(Op) /\ Len(<<Head(q)>>) = 1 /\ <<Head(q)>>[1] = q[1]
  BY <1>1
<1>3. Tail(q) \in Seq(Op) /\ Len(Tail(q)) = 0
  BY <1>1, HeadTailProperties
<1>4. q = <<Head(q)>>
  <2>1. \A i \in 1 .. 1 : q[i] = <<Head(q)>>[i]
    BY <1>1, <1>2
  <2> QED BY <1>2, <2>1, SeqEqual
<1>5. Tail(q) = <<>>
  <2> DEFINE r == Tail(q)
  <2> HIDE DEF r
  <2>1. r \in Seq(Op) /\ Len(r) = 0
    BY <1>3 DEF r
  <2>2. r = <<>>
    BY <2>1
  <2> QED BY <2>2 DEF r
<1> QED BY <1>1, <1>4, <1>5

\* A list without a deletion is its stores; a deletion alone has none.
LEMMA StoresFacts ==
  /\ StoresOf(<<>>) = <<>>
  /\ StoresOf(<<Delete>>) = <<>>
  /\ \A s \in Op \ {Delete} : StoresOf(<<s>>) = <<s>>
  /\ ToSet(<<>>) = {}
  /\ \A s : ToSet(<<s>>) = {s}
  /\ IsInjective(<<>>)
  /\ \A s : IsInjective(<<s>>)
<1>1. \A s : /\ Head(<<s>>) = s /\ Tail(<<s>>) = <<>> /\ <<s>> # <<>>
             /\ DOMAIN <<s>> = {1} /\ <<s>>[1] = s
  OBVIOUS
<1>2. \A s : ToSet(<<s>>) = {s} /\ IsInjective(<<s>>)
  BY <1>1 DEF ToSet, IsInjective
<1> QED BY <1>1, <1>2, EmptyToSet DEF StoresOf, DeletesFirst

\* What erase( begin() ) and push_back do to the stores of a list.
LEMMA StoresOfList ==
  ASSUME NEW ops \in Seq(Op), Leads(ops)
  PROVE  /\ StoresOf(ops) \in Seq(Op)
         /\ ops # <<>> => StoresOf(Tail(ops)) = Tail(ops)
         /\ \A s \in Op \ {Delete} :
              /\ StoresOf(Append(ops, s)) \in Seq(Op)
              /\ ToSet(StoresOf(Append(ops, s))) = ToSet(StoresOf(ops)) \cup {s}
              /\ IsInjective(StoresOf(ops)) /\ s \notin ToSet(StoresOf(ops))
                   => IsInjective(StoresOf(Append(ops, s)))
<1>1. StoresOf(ops) \in Seq(Op)
  BY ListsOfStores
<1>2. ASSUME ops # <<>> PROVE StoresOf(Tail(ops)) = Tail(ops)
  <2>1. /\ Tail(ops) \in Seq(Op) /\ Len(Tail(ops)) = Len(ops) - 1
        /\ Len(ops) \in Nat /\ DOMAIN ops = 1 .. Len(ops)
        /\ \A i \in 1 .. Len(Tail(ops)) : Tail(ops)[i] = ops[i + 1]
    BY <1>2, HeadTailProperties
  <2>2. CASE Tail(ops) = <<>>
    BY <2>2, StoresFacts
  <2>3. CASE Tail(ops) # <<>>
    <3>1. Len(Tail(ops)) >= 1 /\ Head(Tail(ops)) = Tail(ops)[1]
      BY <2>1, <2>3
    <3>2. Head(Tail(ops)) = ops[2] /\ 2 \in DOMAIN ops
      BY <2>1, <3>1
    <3>3. Head(Tail(ops)) # Delete
      BY <3>2 DEF Leads
    <3> QED BY <3>3 DEF StoresOf, DeletesFirst
  <2> QED BY <2>2, <2>3
<1>3. ASSUME NEW s \in Op \ {Delete}
      PROVE  StoresOf(Append(ops, s)) = Append(StoresOf(ops), s)
  <2>1. /\ Append(ops, s) \in Seq(Op) /\ Append(ops, s) # <<>>
        /\ Len(Append(ops, s)) = Len(ops) + 1 /\ Len(ops) \in Nat
        /\ Append(ops, s)[Len(ops) + 1] = s
        /\ \A i \in 1 .. Len(ops) : Append(ops, s)[i] = ops[i]
    BY AppendFacts, AppendNotEmpty
  <2>2. Head(Append(ops, s)) = Append(ops, s)[1]
    BY <2>1
  <2>3. CASE ops = <<>>
    <3>1. Append(ops, s) = <<s>>
      BY <2>3
    <3>2. StoresOf(ops) = <<>> /\ StoresOf(<<s>>) = <<s>>
      BY <2>3, StoresFacts
    <3> QED BY <2>3, <3>1, <3>2
  <2>4. CASE ops # <<>>
    <3>1. Head(Append(ops, s)) = Head(ops)
      BY <2>1, <2>2, <2>4
    <3>2. Tail(Append(ops, s)) = Append(Tail(ops), s)
      BY <2>4
    <3> QED BY <2>1, <2>4, <3>1, <3>2 DEF StoresOf, DeletesFirst
  <2> QED BY <2>3, <2>4
<1>4. ASSUME NEW s \in Op \ {Delete}
      PROVE  /\ Append(StoresOf(ops), s) \in Seq(Op)
             /\ ToSet(Append(StoresOf(ops), s)) = ToSet(StoresOf(ops)) \cup {s}
             /\ IsInjective(StoresOf(ops)) /\ s \notin ToSet(StoresOf(ops))
                  => IsInjective(Append(StoresOf(ops), s))
  BY <1>1, AppendToSet, PushBackInjective
<1> QED BY <1>1, <1>2, <1>3, <1>4

\* One list gives up some of its pending files, and those are removed.
LEMMA ListShrinks ==
  ASSUME TypeOK, ~damaged, Matched, SameStores, NEW d \in Dest, NEW q,
         pendingOps' = [pendingOps EXCEPT ![d] = q],
         IsInjective(StoresOf(q)), ToSet(StoresOf(q)) \subseteq Listed(d),
         onDisk' = onDisk \ (Listed(d) \ ToSet(StoresOf(q)))
  PROVE  Matched'
<1>1. /\ Listed(d)' = ToSet(StoresOf(q))
      /\ \A e \in Dest \ {d} : Listed(e)' = Listed(e)
      /\ \A e \in Dest : pendingOps'[e] = IF e = d THEN q ELSE pendingOps[e]
  BY DEF TypeOK, Listed
<1>2. \A e \in Dest : IsInjective(StoresOf(pendingOps'[e]))
  BY <1>1 DEF Matched
<1>3. \A e \in Dest : Listed(e)' \subseteq Listed(e)
  BY <1>1
<1>4. \A s : s \in onDisk' <=> \/ \E e \in Dest : s \in Listed(e)'
                               \/ \E t \in Thread : Storing(t)' /\ call'[t].store = s
  BY <1>1, <1>3 DEF Matched, SameStores
<1>5. /\ \A e, f \in Dest : \A s : s \in Listed(e)' /\ s \in Listed(f)' => e = f
      /\ \A t \in Thread, e \in Dest : Storing(t)' => call'[t].store \notin Listed(e)'
      /\ \A t, u \in Thread :
           Storing(t)' /\ Storing(u)' /\ call'[t].store = call'[u].store => t = u
  BY <1>3 DEF Matched, SameStores
<1> QED BY <1>2, <1>4, <1>5 DEF Matched

\* A Store that writes a pending file, and one that lists it.
LEMMA StoresMatch ==
  ASSUME IInv, Matched, ~damaged, NEW t \in Thread, NEW d \in Dest,
         WritePending(t, d) \/ RegisterStore(t, d)
  PROVE  Matched'
<1> USE DEF IInv
<1>1. /\ stores \in Nat /\ onDisk \subseteq 1 .. stores /\ call \in [Thread -> Call]
      /\ pendingOps \in [Dest -> Seq(Op)]
  BY FileAssumption DEF TypeOK, InOnePlace
<1>2. CASE WritePending(t, d)
  <2>1. /\ stores' = stores + 1 /\ stores' \notin onDisk
        /\ onDisk' = onDisk \cup {stores'} /\ ~Storing(t)
        /\ call' = [call EXCEPT ![t] =
                      [at |-> "store", dest |-> d, store |-> stores']]
        /\ UNCHANGED pendingOps
    BY <1>1, <1>2 DEF WritePending, Storing, At
  <2>2. /\ Storing(t)' /\ call'[t].store = stores'
        /\ \A u \in Thread \ {t} : call'[u] = call[u] /\ (Storing(u)' <=> Storing(u))
        /\ \A e : Listed(e)' = Listed(e)
    BY <1>1, <2>1 DEF Storing, At, Listed
  <2>3. /\ \A e \in Dest : stores' \notin Listed(e)
        /\ \A u \in Thread : Storing(u) => call[u].store # stores'
    BY <2>1 DEF Matched
  <2>4. \A s : s \in onDisk' <=> \/ \E e \in Dest : s \in Listed(e)'
                                 \/ \E u \in Thread : Storing(u)' /\ call'[u].store = s
    <3>1. \A s : (\E u \in Thread : Storing(u)' /\ call'[u].store = s)
                   <=> \/ s = stores'
                       \/ \E u \in Thread : Storing(u) /\ call[u].store = s
      BY <2>1, <2>2
    <3> QED BY <2>1, <2>2, <3>1 DEF Matched
  <2> QED BY <2>1, <2>2, <2>3, <2>4 DEF Matched
<1>3. CASE RegisterStore(t, d)
  <2> DEFINE s == call[t].store
             q == IF Overwrite THEN <<s>> ELSE Append(pendingOps[d], s)
             cancelled == IF Overwrite THEN Listed(d) ELSE {}
  <2>1. /\ Storing(t)
        /\ pendingOps' = [pendingOps EXCEPT ![d] = q]
        /\ onDisk' = onDisk \ cancelled
        /\ call' = [call EXCEPT ![t] = Idle]
    BY <1>3 DEF RegisterStore, RemoveAll, Return, Storing, Listed
  <2>2. s \in Op \ {Delete} /\ \A e \in Dest : s \notin Listed(e)
    BY <1>1, <2>1, FileAssumption
    DEF Matched, Control, Storing, Op, Delete, TypeOK
  <2>3. IsInjective(StoresOf(q)) /\ ToSet(StoresOf(q)) = (Listed(d) \ cancelled) \cup {s}
    <3>1. pendingOps[d] \in Seq(Op) /\ Leads(pendingOps[d])
      BY <1>1 DEF DeletesLead, Leads
    <3>2. CASE Overwrite
      BY <2>2, <3>2, StoresFacts
    <3>3. CASE ~Overwrite
      <4>1. IsInjective(StoresOf(pendingOps[d]))
        BY DEF Matched
      <4> QED BY <2>2, <3>1, <3>3, <4>1, StoresOfList DEF Listed
    <3> QED BY <3>2, <3>3
  <2>4. /\ Listed(d)' = (Listed(d) \ cancelled) \cup {s}
        /\ \A e \in Dest \ {d} : Listed(e)' = Listed(e)
        /\ \A e \in Dest : pendingOps'[e] = IF e = d THEN q ELSE pendingOps[e]
    BY <1>1, <2>1, <2>3 DEF Listed
  <2>5. /\ ~Storing(t)'
        /\ \A u \in Thread \ {t} : call'[u] = call[u] /\ (Storing(u)' <=> Storing(u))
    BY <1>1, <2>1 DEF Storing, At, Idle
  <2> HIDE DEF q, s
  <2>6. \A e \in Dest : IsInjective(StoresOf(pendingOps'[e]))
    BY <2>3, <2>4 DEF Matched
  <2>7. /\ \A e, f \in Dest : \A o : o \in Listed(e)' /\ o \in Listed(f)' => e = f
        /\ \A u \in Thread, e \in Dest : Storing(u)' => call'[u].store \notin Listed(e)'
        /\ \A u, v \in Thread :
             Storing(u)' /\ Storing(v)' /\ call'[u].store = call'[v].store => u = v
    BY <2>1, <2>2, <2>4, <2>5 DEF Matched, s
  <2>8. \A o : o \in onDisk' <=> \/ \E e \in Dest : o \in Listed(e)'
                                 \/ \E u \in Thread : Storing(u)' /\ call'[u].store = o
    <3>1. cancelled \subseteq Listed(d)
      OBVIOUS
    <3>2. \A o : o \in onDisk <=> \/ \E e \in Dest : o \in Listed(e)
                                  \/ \E u \in Thread : Storing(u) /\ call[u].store = o
      BY DEF Matched
    <3>3. \A o : (\E u \in Thread : Storing(u) /\ call[u].store = o)
                   <=> \/ o = s
                       \/ \E u \in Thread : Storing(u)' /\ call'[u].store = o
      BY <2>1, <2>5 DEF s
    <3>4. \A o : (\E e \in Dest : o \in Listed(e)')
                   <=> \/ o = s
                       \/ o \notin cancelled /\ \E e \in Dest : o \in Listed(e)
      BY <2>2, <2>4, <3>1 DEF Matched
    <3>5. \A o : o \in cancelled =>
             ~\E u \in Thread : Storing(u)' /\ call'[u].store = o
      BY <2>5, <3>1 DEF Matched
    <3>6. s \notin cancelled
      BY <2>2, <3>1
    <3>7. s \in onDisk
      BY <2>1, <3>2 DEF s
    <3> HIDE DEF cancelled
    <3> QED BY <2>1, <3>2, <3>3, <3>4, <3>5, <3>6, <3>7
  <2> QED BY <2>6, <2>7, <2>8 DEF Matched
<1> QED BY <1>2, <1>3

\* Delete, Commit and Rollback take pending files from the disk and from the list.
LEMMA ClosingMatch ==
  ASSUME IInv, Matched, ~damaged, NEW t \in Thread, NEW d \in Dest,
         RegisterDelete(t, d) \/ CommitStep(t, d) \/ RollbackFile(t, d)
  PROVE  Matched'
<1> USE DEF IInv
<1>1. /\ pendingOps[d] \in Seq(Op) /\ Leads(pendingOps[d])
      /\ pendingOps \in [Dest -> Seq(Op)] /\ call \in [Thread -> Call]
      /\ onDisk \subseteq Store /\ Listed(d) \subseteq onDisk
      /\ IsInjective(StoresOf(pendingOps[d]))
  BY DEF TypeOK, DeletesLead, Leads, Matched
<1>2. 0 \notin onDisk
  BY <1>1, FileAssumption DEF Store
<1>3. SameStores
  <2>1. ~Storing(t)
    BY DEF RegisterDelete, CommitStep, CommitOverwrite, CommitDelete, CommitStores,
           OpenCommitFile, Opened, AppendPending, Appended, MoveCommitFile, RollbackFile, Storing, At
  <2>2. \/ UNCHANGED call
        \/ \E p \in Place \ {"store"} : call' = [call EXCEPT ![t].at = p]
        \/ call' = [call EXCEPT ![t].at = "open", ![t].dest = d]
        \/ call' = [call EXCEPT ![t] = Idle]
    BY DEF RegisterDelete, CommitStep, CommitOverwrite, CommitDelete, CommitStores,
           OpenCommitFile, Opened, AppendPending, Appended, MoveCommitFile, RollbackFile,
           Return, Leave, Goto, Place
  <2> QED BY <2>1, <2>2, CallsLeave
<1>4. ASSUME pendingOps' = [pendingOps EXCEPT ![d] = <<>>],
             onDisk' = onDisk \ Listed(d)
      PROVE  Matched'
  BY <1>3, <1>4, ListShrinks, StoresFacts
<1>5. CASE RegisterDelete(t, d) \/ RollbackFile(t, d)
  <2>1. /\ onDisk' = onDisk \ Listed(d)
        /\ \/ pendingOps' = [pendingOps EXCEPT ![d] = <<>>]
           \/ pendingOps' = [pendingOps EXCEPT ![d] = <<Delete>>]
    BY <1>5 DEF RegisterDelete, RollbackFile, RemoveAll, EraseKey, Listed
  <2> QED BY <1>3, <1>4, <2>1, ListShrinks, StoresFacts
<1>6. CASE CommitOverwrite(t, d)
  <2>1. Len(pendingOps[d]) = 1 /\ pendingOps' = [pendingOps EXCEPT ![d] = <<>>]
    BY <1>6 DEF CommitOverwrite, SingleOverwrite, EraseKey
  <2>2. pendingOps[d] = <<Head(pendingOps[d])>> /\ Head(pendingOps[d]) \in Op
    BY <1>1, <2>1, OnlyOne
  <2>3. CASE DeletesFirst(pendingOps[d]) /\ UNCHANGED onDisk
    <3>1. Listed(d) = {}
      BY <2>2, <2>3, StoresFacts DEF DeletesFirst, Listed
    <3> QED BY <1>4, <2>1, <2>3, <3>1
  <2>4. CASE /\ Head(pendingOps[d]) \in onDisk
             /\ onDisk' = onDisk \ {Head(pendingOps[d])}
    <3>1. Listed(d) = {Head(pendingOps[d])}
      BY <1>2, <2>2, <2>4, StoresFacts DEF Listed, Delete
    <3> QED BY <1>4, <2>1, <2>4, <3>1
  <2> QED BY <1>6, <2>3, <2>4 DEF CommitOverwrite
<1>7. CASE CommitDelete(t, d)
  <2>1. /\ DeletesFirst(pendingOps[d]) /\ UNCHANGED onDisk
        /\ \/ pendingOps' = [pendingOps EXCEPT ![d] = Tail(pendingOps[d])]
           \/ /\ Len(pendingOps[d]) = 1
              /\ pendingOps' = [pendingOps EXCEPT ![d] = <<>>]
    BY <1>7 DEF CommitDelete, EraseKey
  <2>2. StoresOf(Tail(pendingOps[d])) = StoresOf(pendingOps[d])
    BY <1>1, <2>1, StoresOfList DEF DeletesFirst, StoresOf
  <2>3. CASE pendingOps' = [pendingOps EXCEPT ![d] = Tail(pendingOps[d])]
    BY <1>1, <1>3, <2>1, <2>2, <2>3, ListShrinks DEF Listed
  <2>4. CASE /\ Len(pendingOps[d]) = 1
             /\ pendingOps' = [pendingOps EXCEPT ![d] = <<>>]
    <3>1. StoresOf(pendingOps[d]) = <<>>
      BY <1>1, <2>1, <2>4, OnlyOne DEF StoresOf
    <3> QED BY <1>4, <2>1, <2>4, <3>1, StoresFacts DEF Listed
  <2> QED BY <2>1, <2>3, <2>4
<1>8. CASE AppendPending(t, d)
  <2> DEFINE ops == pendingOps[d]
  <2>1. /\ ops # <<>> /\ Head(ops) \in onDisk
        /\ onDisk' = onDisk \ {Head(ops)}
        /\ pendingOps' = [pendingOps EXCEPT ![d] = Tail(ops)]
    BY <1>8 DEF AppendPending, Appended
  <2>2. StoresOf(ops) = ops /\ StoresOf(Tail(ops)) = Tail(ops)
    BY <1>1, <1>2, <2>1, StoresOfList DEF StoresOf, DeletesFirst, Delete
  <2>3. /\ IsInjective(Tail(ops)) /\ Head(ops) \notin ToSet(Tail(ops))
        /\ ToSet(ops) = {Head(ops)} \cup ToSet(Tail(ops))
    BY <1>1, <2>1, <2>2, TailInjective, TailToSet
  <2>4. Listed(d) \ ToSet(StoresOf(Tail(ops))) = {Head(ops)}
    BY <2>2, <2>3 DEF Listed
  <2>5. ToSet(StoresOf(Tail(ops))) \subseteq Listed(d)
    BY <2>2, <2>3 DEF Listed
  <2> QED BY <1>3, <2>1, <2>2, <2>3, <2>4, <2>5, ListShrinks
<1>9. CASE CommitStores(t, d) \/ OpenCommitFile(t, d) \/ MoveCommitFile(t, d)
  <2>1. /\ UNCHANGED onDisk
        /\ \/ UNCHANGED pendingOps
           \/ /\ pendingOps[d] = <<>>
              /\ pendingOps' = [pendingOps EXCEPT ![d] = <<>>]
    BY <1>9 DEF CommitStores, OpenCommitFile, Opened, MoveCommitFile, EraseKey, disk
  <2>2. pendingOps' = [pendingOps EXCEPT ![d] = pendingOps[d]]
    BY <1>1, <2>1
  <2> QED BY <1>1, <1>3, <2>1, <2>2, ListShrinks DEF Listed
<1> QED BY <1>5, <1>6, <1>7, <1>8, <1>9 DEF CommitStep

\* Every step: those that fail halfway set `damaged`.
LEMMA MatchStep == IInv /\ Matched /\ [Next]_vars => Matched'
<1> SUFFICES ASSUME IInv, Matched, [Next]_vars, ~damaged' PROVE Matched'
  BY DEF Matched
<1>1. ~damaged
  <2>1. ASSUME NEW t \in Thread, NEW d \in Dest,
               \/ WritePending(t, d) \/ RegisterStore(t, d) \/ CancelFails(t, d)
               \/ LookUp(t, d) \/ RegisterDelete(t, d) \/ CommitPastEnd(t, d)
               \/ RollbackFile(t, d) \/ RollbackThrows(t, d)
        PROVE  damaged' = damaged \/ damaged'
    BY <2>1 DEF WritePending, RegisterStore, CancelFails, LookUp, RegisterDelete,
                CommitPastEnd, Restart, RollbackFile, RollbackThrows
  <2>2. ASSUME NEW t \in Thread, NEW d \in Dest, CommitStep(t, d)
        PROVE  damaged' = damaged
    BY <2>2 DEF CommitStep, CommitOverwrite, CommitDelete, CommitStores, OpenCommitFile, Opened,
                AppendPending, Appended, MoveCommitFile
  <2>3. ASSUME NEW t \in Thread,
               \/ WriteFails(t) \/ SkipDelete(t) \/ FindPending(t) \/ Enter(t, "commit")
               \/ Enter(t, "rollback") \/ CommitThrows(t) \/ Finish(t)
        PROVE  damaged' = damaged \/ damaged'
    BY <2>3 DEF WriteFails, SkipDelete, FindPending, Enter, CommitThrows, Finish
  <2>4. CASE Stop \/ UNCHANGED vars
    BY <2>4 DEF Stop, Restart, vars
  <2> QED BY <2>1, <2>2, <2>3, <2>4 DEF Next
<1>2. ASSUME NEW t \in Thread, NEW d \in Dest,
             \/ WritePending(t, d) \/ RegisterStore(t, d) \/ RegisterDelete(t, d)
             \/ CommitStep(t, d) \/ RollbackFile(t, d)
      PROVE  Matched'
  BY <1>1, <1>2, StoresMatch, ClosingMatch
<1>3. ASSUME UNCHANGED <<pendingOps, onDisk>>, SameStores PROVE Matched'
  <2>1. \A e : Listed(e)' = Listed(e)
    BY <1>3 DEF Listed
  <2>2. \A e \in Dest : StoresOf(pendingOps'[e]) = StoresOf(pendingOps[e])
    BY <1>3
  <2> QED BY <1>1, <1>3, <2>1, <2>2 DEF Matched, SameStores
<1>4. ASSUME NEW t \in Thread, NEW d \in Dest, LookUp(t, d) PROVE Matched'
  BY <1>3, <1>4 DEF LookUp, disk, SameStores, Storing, At, Idle, IInv, TypeOK
<1>5. ASSUME NEW t \in Thread,
             \/ SkipDelete(t) \/ FindPending(t) \/ Enter(t, "commit")
             \/ Enter(t, "rollback") \/ CommitThrows(t) \/ Finish(t)
      PROVE  Matched'
  <2>1. UNCHANGED <<pendingOps, onDisk>> /\ ~Storing(t)
    BY <1>5 DEF SkipDelete, FindPending, Enter, CommitThrows, Finish, disk, Storing, At
  <2>2. \/ \E p \in Place \ {"store"} : call' = [call EXCEPT ![t].at = p]
        \/ call' = [call EXCEPT ![t] = Idle]
    BY <1>5 DEF SkipDelete, FindPending, Enter, CommitThrows, Finish, Goto, Return,
                Leave, Place
  <2> QED BY <1>3, <2>1, <2>2, CallsLeave DEF IInv
<1>6. CASE UNCHANGED vars
  BY <1>3, <1>6 DEF vars, disk, SameStores, Storing, At
<1>7. /\ ~Stop /\ \A t \in Thread : ~WriteFails(t)
      /\ \A t \in Thread, d \in Dest : /\ ~CancelFails(t, d) /\ ~CommitPastEnd(t, d)
                                       /\ ~RollbackThrows(t, d)
  BY DEF Stop, Restart, WriteFails, CancelFails, CommitPastEnd, RollbackThrows
<1> QED BY <1>2, <1>4, <1>5, <1>6, <1>7 DEF Next

\* Nothing is leaked, and nothing that is listed is missing, until a file operation
\* fails halfway or the process stops.
THEOREM PendingFilesMatchHolds == Spec => []PendingFilesMatch
<1>1. Init => Matched
  <2> SUFFICES ASSUME Init PROVE Matched
    OBVIOUS
  <2>1. /\ onDisk = {} /\ \A t \in Thread : ~Storing(t)
        /\ \A d \in Dest : pendingOps[d] = <<>>
    BY DEF Init, Storing, At, Idle
  <2>2. \A d \in Dest : Listed(d) = {} /\ IsInjective(StoresOf(pendingOps[d]))
    BY <2>1, StoresFacts DEF Listed
  <2> QED BY <2>1, <2>2 DEF Matched
<1>2. IInv /\ Matched => PendingFilesMatch
  <2> SUFFICES ASSUME Matched, ~damaged
               PROVE  onDisk = (UNION {ToSet(StoresOf(pendingOps[d])) : d \in Dest})
                        \cup {call[t].store : t \in {u \in Thread : At(u, "store")}}
    BY DEF PendingFilesMatch
  <2>1. \A s : s \in onDisk <=>
          \/ \E d \in Dest : s \in ToSet(StoresOf(pendingOps[d]))
          \/ \E t \in Thread : At(t, "store") /\ call[t].store = s
    BY DEF Matched, Listed, Storing
  <2>2. \A s : s \in (UNION {ToSet(StoresOf(pendingOps[d])) : d \in Dest}) <=>
          \E d \in Dest : s \in ToSet(StoresOf(pendingOps[d]))
    OBVIOUS
  <2>3. \A s : s \in {call[t].store : t \in {u \in Thread : At(u, "store")}} <=>
          \E t \in Thread : At(t, "store") /\ call[t].store = s
    OBVIOUS
  <2> QED BY <2>1, <2>2, <2>3
<1> QED BY <1>1, <1>2, MatchStep, Invariance, PTL DEF Spec

-----------------------------------------------------------------------------
\* The only step that puts data in a destination in APPEND mode is the move.
LEMMA CompleteStep == IInv /\ [Next]_vars => CompleteWhenMoved
<1> SUFFICES ASSUME IInv, [Next]_vars, ~Overwrite, NEW e \in Dest,
                    files'[e] # files[e], files'[e] # <<>>
             PROVE  /\ ToSet(Ids(files'[e])) \subseteq ToSet(merge.goal)
                    /\ Ids(files'[e]) = merge.goal \/ merge'.cut
  BY DEF CompleteWhenMoved, Moves
<1>1. files \in [Dest -> Seq(Written)] /\ merge \in Merge
  BY DEF IInv, TypeOK
<1>2. PICK t \in Thread, d \in Dest : MoveCommitFile(t, d)
  <2>1. ~ \E d \in Dest : files' = [files EXCEPT ![d] = <<>>]
    BY <1>1
  <2>2. files' # files
    OBVIOUS
  <2>3. ASSUME NEW t \in Thread, NEW d \in Dest
        PROVE  /\ ~WritePending(t, d) /\ ~RegisterStore(t, d)
               /\ ~CancelFails(t, d) /\ ~LookUp(t, d) /\ ~RegisterDelete(t, d)
               /\ ~RollbackFile(t, d) /\ ~RollbackThrows(t, d)
               /\ ~CommitStores(t, d) /\ ~OpenCommitFile(t, d)
               /\ ~AppendPending(t, d)
    BY <2>2 DEF WritePending, RegisterStore, CancelFails, LookUp, RegisterDelete,
                RollbackFile, RollbackThrows, CommitStores, OpenCommitFile, Opened,
                AppendPending, Appended, disk
  <2>4. ASSUME NEW t \in Thread, NEW d \in Dest
        PROVE  ~CommitDelete(t, d) /\ ~CommitPastEnd(t, d) /\ ~CommitOverwrite(t, d)
    BY <2>1 DEF CommitDelete, CommitPastEnd, CommitOverwrite, RemoveFile
  <2>5. ASSUME NEW t \in Thread
        PROVE  /\ ~WriteFails(t) /\ ~SkipDelete(t) /\ ~FindPending(t)
               /\ ~Enter(t, "commit") /\ ~Enter(t, "rollback")
               /\ ~CommitThrows(t) /\ ~Finish(t)
    BY <2>2 DEF WriteFails, SkipDelete, FindPending, Enter, CommitThrows, Finish,
                disk
  <2>6. ~Stop /\ ~UNCHANGED vars
    BY <2>2 DEF Stop, vars, disk
  <2> QED BY <2>3, <2>4, <2>5, <2>6 DEF Next, CommitStep
<1>3. At(t, "append") /\ call[t].dest = d /\ pendingOps[d] = <<>>
  BY <1>2 DEF MoveCommitFile
<1>4. PICK n \in 0 .. Len(merge.content) :
        /\ files' = [files EXCEPT ![d] = SubSeq(merge.content, 1, n)]
        /\ (n = Len(merge.content) /\ ~merge.cut) \/ merge'.cut
  BY <1>2, MovedFacts, Zenon DEF IInv
<1>5. e = d /\ files'[e] = SubSeq(merge.content, 1, n)
  BY <1>1, <1>4
<1>6. merge.content \in Seq(Written) /\ <<>> \in Seq(Op)
  BY <1>1 DEF Merge
<1>7. /\ Within(merge.goal, merge.content, <<>>)
      /\ merge.cut \/ merge.goal = Ids(merge.content) \o <<>>
  BY <1>3 DEF IInv, MergeGoal
<1>8. /\ Within(Ids(merge.content) \o <<>>, SubSeq(merge.content, 1, n), <<>>)
      /\ n = Len(merge.content) => SubSeq(merge.content, 1, n) = merge.content
  BY <1>6, FrontWithin
<1>9. Ids(merge.content) \o <<>> = Ids(merge.content)
  BY <1>6, IdsOfSeq, ConcatEmptySeq
<1>10. ToSet(Ids(files'[e])) \subseteq ToSet(merge.goal)
  BY <1>5, <1>7, <1>8, <1>9 DEF Within
<1>11. Ids(files'[e]) = merge.goal \/ merge'.cut
  BY <1>4, <1>5, <1>7, <1>8, <1>9, Zenon
<1> QED BY <1>10, <1>11

\* A commit file that becomes the destination has nothing but what it is to have,
\* and, if no copy into it and no close() has failed, all of it: the data of every
\* Store that was listed, in order, after what the destination was not to lose.
THEOREM CommitIsCompleteHolds == Spec => CommitIsComplete
<1>1. IInv /\ [Next]_vars => [CompleteWhenMoved]_vars
  BY CompleteStep
<1> QED BY <1>1, Invariance, PTL DEF Spec, CommitIsComplete
=============================================================================
