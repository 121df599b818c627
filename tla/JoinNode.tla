------------------------------ MODULE JoinNode ------------------------------
(***************************************************************************)
(* A node that joins the stream of a request with the streams of other     *)
(* nodes (JoinNode.cpp): what it loads is joined before it is answered,    *)
(* what is stored is joined before it is sent on.  Several requests run    *)
(* through one node; each of them may be refused by a node it asks, or by  *)
(* a command it runs, at every step.                                       *)
(*                                                                         *)
(* One side of the node is modelled: the read and the write side have      *)
(* settings and keys of their own and share nothing but the code.          *)
(***************************************************************************)
EXTENDS CsvStreams, Positions

CONSTANTS
  Sides,        \* configurations of the side the requests use
  Contents,     \* what the other nodes, and the caller, hold: [name -> stream]
  Cuts          \* after how many lines a command, or a write to a file, may break off

\* What `columns` says when it is not given, and a name that no node has.
All == {<<"*">>}

\* Streams have lines, lines have cells and cells have words; a configuration joins
\* a list of nodes that there are by lists of names, and skips a number of lines of
\* each (a negative one is the same as 0).
ASSUME JoinAssumption ==
  /\ \A c \in Contents :
       "main" \in DOMAIN c /\ \A name \in DOMAIN c : c[name] \in Seq(Seq(Seq(STRING)))
  /\ Cuts \subseteq Nat
  /\ \A s \in Sides :
       /\ s.joins \in Seq(Range(s.joins)) /\ s.key \in Seq(Seq(STRING))
       /\ \A n \in DOMAIN s.joins :
            /\ s.joins[n].key \in Seq(Seq(STRING)) /\ s.joins[n].skipLines \in Nat
            /\ s.joins[n].node \in STRING /\ \A c \in Contents : s.joins[n].node \in DOMAIN c

VARIABLES
  side,         \* the configuration: behavior, op, key, columns, joins
  keys,         \* m_ReadKey or m_WriteKey, then the JoinKey of each join
  content,      \* the streams behind the names
  files,        \* the files in the working directory
  calls         \* what each request has come to

joinVars == <<side, keys, content, files, calls>>

JoinTypes ==
  {"inner", "left", "right", "outer", "antiLeft", "antiRight", "antiInner"}

-----------------------------------------------------------------------------
\* The configuration

\* SetConfig: what a configuration must have.  Nothing makes a write-side join
\* have a key; without one no header can have it.
Accepted(s) ==
  /\ s.behavior \in {"columnJoin", "append"}
  /\ (s.behavior = "columnJoin" /\ s.op = "load" /\ s.joins # <<>>) => s.key # <<>>
  /\ s.behavior = "columnJoin" => \A n \in DOMAIN s.joins : s.joins[n].type \in JoinTypes

\* The constructor copies what SetConfig found.
ConfiguredKeys(s) == <<s.key>> \o [n \in DOMAIN s.joins |-> s.joins[n].key]

NewCall ==
  [stage |-> "new", multi |-> FALSE, joinKey |-> <<>>, next |-> 1, main |-> <<>>,
   outHeader |-> <<>>, keyIndex |-> 0, joinCommand |-> <<>>, out |-> <<>>,
   broken |-> FALSE, cut |-> FALSE]

JoinInit ==
  /\ side \in {s \in Sides : Accepted(s)}
  /\ keys = ConfiguredKeys(side)
  /\ content \in Contents
  /\ files = {}
  /\ calls = [r \in Request |-> NewCall]

-----------------------------------------------------------------------------
\* The helpers

\* WriteLine: the key first, then the other cells.
WriteLine(line, joinColIndeces) ==
  <<FlattenSeq([n \in DOMAIN joinColIndeces |-> line[joinColIndeces[n]]])>>
    \o Selected(line, DOMAIN line \ Range(joinColIndeces))

JoinColIndeces(header, joinKey) == [n \in DOMAIN joinKey |-> KeyIndex(header, joinKey[n])]

\* WriteMultiKeyStream: the stream with one column for all of its keys.
WriteMultiKeyStream(stream, joinKey) ==
  [n \in DOMAIN stream |-> WriteLine(stream[n], JoinColIndeces(Head(stream), joinKey))]

CanRewrite(stream, joinKey) == 0 \notin Range(JoinColIndeces(Head(stream), joinKey))

\* What is left of the key itself: the name of that one column.
RewrittenKey(joinKey) == <<FlattenSeq(joinKey)>>

\* ResolveIncludeColumns: the configured columns in the order of the header,
\* and with them the column keyColumn.
IncludeColumns(header, columns, keyColumn) ==
  IF columns = All THEN header
  ELSE Selected(header, {n \in DOMAIN header : n = keyColumn \/ header[n] \in columns})

HasRequiredColumns(header, columns) == columns = All \/ columns \subseteq Range(header)

\* Mutant: the key is taken from the stream so far, where a line may have none.
KeyOfTheFirst(n, keyIndex) == [i \in 1 .. n |-> <<1, i>>]

\* GetTrivialColumnList: the first n cells of the stream so far.
TrivialColumnList(n, keyIndex) ==
  [i \in 1 .. n |-> IF i = keyIndex THEN <<0, 0>> ELSE <<1, i>>]

\* GetColumnList, as it is called for a joined stream: its cells without the key.
ColumnList(header, keyIndex, columns) ==
  Selected([i \in DOMAIN header |-> <<2, i>>],
           {i \in DOMAIN header : i # keyIndex /\ header[i] \in Range(columns)})

\* The names of the columns a joined stream adds; a name the output has already
\* gets the name of the node in front.
AddedNames(outHeader, columns, joinKey, node) ==
  LET Added(names, c) ==
        IF c = joinKey THEN names
        ELSE Append(names, IF c \in Range(names) THEN <<node>> \o c ELSE c)
      After[n \in 0 .. Len(columns)] ==
        IF n = 0 THEN outHeader ELSE Added(After[n - 1], columns[n])
  IN  After[Len(columns)]

\* The options that a type of join adds to the command.
Pairs(type) == type \notin {"antiLeft", "antiRight", "antiInner"}

Alone(type) ==
  {f \in {1, 2} : \/ f = 1 /\ type \in {"outer", "left", "antiRight", "antiInner"}
                  \/ f = 2 /\ type \in {"outer", "right", "antiLeft", "antiInner"}}

-----------------------------------------------------------------------------
\* The steps of a request

Call(r) == calls[r]

Update(r, call) == calls' = [calls EXCEPT ![r] = call]

\* Any step may be refused: by a node, by a command, or by the node itself.
\* Files that are there stay.
Fail(r) ==
  /\ Update(r, [Call(r) EXCEPT !.stage = "failed"])
  /\ UNCHANGED <<side, keys, content, files>>

\* The stream the request brings or the endpoint answers with.
MainStream == content["main"]

\* No joins: the request goes on as it is.
Forward(r) ==
  /\ Call(r).stage = "new" /\ side.joins = <<>>
  /\ Update(r, [Call(r) EXCEPT !.stage = IF side.op = "load" THEN "done" ELSE "store",
                               !.out = MainStream])
  /\ UNCHANGED <<side, keys, content, files>>

\* Step 0 of WriteHorizontalJoin.  Whether the key is several columns is seen once,
\* before the stream is read.
BeginJoin(r) ==
  /\ Call(r).stage = "new" /\ side.joins # <<>> /\ side.behavior = "columnJoin"
  /\ Update(r, [Call(r) EXCEPT !.stage = "main", !.multi = Len(keys[1]) > 1])
  /\ UNCHANGED <<side, keys, content, files>>

\* WriteMultiKeyStream begins with the key as the node has it by now: another request
\* may have rewritten it.  A key that is read while it is being rewritten names a
\* column that there is none, which refuses the request.
TakeKey(r, stream, n) ==
  /\ Call(r).multi /\ Call(r).joinKey = <<>>
  /\ stream # <<>> /\ CanRewrite(stream, keys[n])
  /\ Update(r, [Call(r) EXCEPT !.joinKey = keys[n]])
  /\ UNCHANGED <<side, keys, content, files>>

TakeMainKey(r) == Call(r).stage = "main" /\ TakeKey(r, MainStream, 1)

TakeStreamKey(r) ==
  /\ Call(r).stage = "streams" /\ Call(r).next \in DOMAIN side.joins
  /\ TakeKey(r, content[side.joins[Call(r).next].node], Call(r).next + 1)

KeyIsTaken(c) == c.multi => c.joinKey # <<>>

\* WriteHorizontalJoin up to its loop: the main stream, its key and its columns.  At
\* the end of the stream the key of several columns is rewritten in the node; from
\* there on it is one name, whoever reads it and rewrites it again.
LoadMain(r) ==
  /\ Call(r).stage = "main" /\ KeyIsTaken(Call(r)) /\ MainStream # <<>>
  /\ LET c == Call(r)
         stream == IF c.multi THEN WriteMultiKeyStream(MainStream, c.joinKey) ELSE MainStream
         key == IF c.multi THEN RewrittenKey(keys[1]) ELSE keys[1]
         header == Head(stream)
         keyIndex == IF key = <<>> THEN 0 ELSE KeyIndex(header, key[1])
     IN  /\ keys' = [keys EXCEPT ![1] = key]
         /\ IF keyIndex = 0 \/ ~ HasRequiredColumns(header, side.columns)
              THEN Update(r, [c EXCEPT !.stage = "failed"])
              ELSE Update(r, [c EXCEPT
                     !.stage = "streams", !.joinKey = <<>>, !.main = Tail(stream),
                     !.keyIndex = keyIndex,
                     !.outHeader = IncludeColumns(header, side.columns, keyIndex)])
  /\ UNCHANGED <<side, content, files>>

FirstLines(lines, k) == SubSeq(lines, 1, IF k < Len(lines) THEN k ELSE Len(lines))

\* The loop of WriteHorizontalJoin for one more stream: it is sorted into a file
\* of its own, and the command and the header grow.  When the sort fails the file
\* is there all the same; nobody sees when the file did not take all the lines.
JoinStream(r) ==
  /\ Call(r).stage = "streams" /\ Call(r).next \in DOMAIN side.joins /\ KeyIsTaken(Call(r))
  /\ LET c == Call(r)
         n == c.next
         join == side.joins[n]
         loaded == content[join.node]
         stream == IF c.multi THEN WriteMultiKeyStream(loaded, c.joinKey) ELSE loaded
         key == IF c.multi THEN RewrittenKey(keys[n + 1]) ELSE keys[n + 1]
         header == Head(stream)
         keyIndex == KeyIndex(header, key[1])
         columns == IncludeColumns(header, join.columns, 0)
         sorted == Sorted(Tail(stream), keyIndex)
         command == [right |-> keyIndex, pairs |-> Pairs(join.type),
                     alone |-> Alone(join.type),
                     list |-> TrivialColumnList(Len(c.outHeader), c.keyIndex)
                                \o ColumnList(header, keyIndex, columns)]
     IN  /\ loaded # <<>>
         /\ keys' = [keys EXCEPT ![n + 1] = key]
         /\ \/ /\ keyIndex = 0 \/ Len(key) > 1 \/ ~ HasRequiredColumns(header, join.columns)
               /\ Update(r, [c EXCEPT !.stage = "failed"])
               /\ UNCHANGED files
            \/ /\ keyIndex # 0 /\ Len(key) = 1 /\ HasRequiredColumns(header, join.columns)
               /\ \E lines \in {sorted} \union {FirstLines(sorted, k) : k \in Cuts} :
                    /\ files' = files \union {[owner |-> r, stream |-> n, lines |-> lines]}
                    /\ \/ Update(r, [c EXCEPT
                            !.next = n + 1, !.joinKey = <<>>, !.cut = @ \/ lines # sorted,
                            !.joinCommand = Append(@, command),
                            !.outHeader = AddedNames(@, columns, key[1], join.node)])
                       \/ Update(r, [c EXCEPT !.stage = "failed"])
  /\ UNCHANGED <<side, content>>

FilesOf(r) == {f \in files : f.owner = r}

LinesOf(r, n) == (CHOOSE f \in FilesOf(r) : f.stream = n).lines

\* Mutant: the removal ends one file early.
RemoveAllButLast(r) == {f \in files : f.owner # r \/ f.stream = Len(side.joins)}

\* Step 4: the files of this request are removed.
RemoveFiles(r) == files \ FilesOf(r)

\* gawk: the column of several keys becomes several columns again.
Expanded(cells) == [n \in DOMAIN cells[1] |-> <<cells[1][n]>>] \o Tail(cells)

\* The command is a pipeline, sort first, then a join for each stream and at last the
\* gawk for several keys; the shell answers with the status of its last part.
Unseen(c) == 0 .. Len(c.joinCommand) - (IF c.multi THEN 0 ELSE 1)

\* What the n-th part passes on, when those in DOMAIN cuts break off.
PassedOn(lines, n, cuts) == IF n \in DOMAIN cuts THEN FirstLines(lines, cuts[n]) ELSE lines

\* Step 3 of WriteHorizontalJoin, the header and then the command, and step 4,
\* which is not reached when the last part of the command fails.
ExecuteJoin(r) ==
  /\ Call(r).stage = "streams" /\ Call(r).next \notin DOMAIN side.joins
  /\ \E failing \in SUBSET Unseen(Call(r)) : \E cuts \in [failing -> Cuts] :
       LET c == Call(r)
           Piped[n \in 0 .. Len(c.joinCommand)] ==
             LET command == c.joinCommand[n]
                 lines == IF n = 0 THEN Sorted(c.main, c.keyIndex)
                          ELSE Joined(Piped[n - 1], c.keyIndex, LinesOf(r, n), command.right,
                                      command.pairs, command.alone, command.list)
             IN  PassedOn(lines, n, cuts)
           stream == <<c.outHeader>> \o Piped[Len(c.joinCommand)]
       IN  Update(r, [c EXCEPT !.stage = IF side.op = "load" THEN "done" ELSE "store",
                               !.cut = @ \/ failing # {},
                               !.out = IF c.multi THEN [n \in DOMAIN stream |-> Expanded(stream[n])]
                                       ELSE stream])
  /\ files' = RemoveFiles(r)
  /\ UNCHANGED <<side, keys, content>>

\* LoadImpl and StoreImpl with the behavior append: the main stream first.
LoadMainToAppend(r) ==
  /\ Call(r).stage = "new" /\ side.joins # <<>> /\ side.behavior = "append"
  /\ Update(r, [Call(r) EXCEPT !.stage = "append", !.out = MainStream])
  /\ UNCHANGED <<side, keys, content, files>>

\* Mutant: the lines to skip are read and then sent on with the others.
WithSkippedLines(stream, skipLines) == stream

\* The lines that are left when getline has taken the first ones.
LinesAfter(stream, skipLines) == SubSeq(stream, skipLines + 1, Len(stream))

\* One stream more, without its first skipLines lines.  A store reads all streams
\* through one stringstream: getline fails on a stream that has fewer lines, from
\* there on it skips nothing, and what arrives depends on how the node writes.
AppendStream(r) ==
  /\ Call(r).stage = "append" /\ Call(r).next \in DOMAIN side.joins
  /\ LET c == Call(r)
         join == side.joins[c.next]
         loaded == content[join.node]
         short == Len(loaded) < join.skipLines
     IN  \E added \in IF c.broken THEN {loaded, <<>>}
                      ELSE {LinesAfter(loaded, join.skipLines)} :
           Update(r, [c EXCEPT !.next = @ + 1, !.out = @ \o added,
                               !.broken = @ \/ (side.op = "store" /\ short)])
  /\ UNCHANGED <<side, keys, content, files>>

Appended(r) ==
  /\ Call(r).stage = "append" /\ Call(r).next \notin DOMAIN side.joins
  /\ Update(r, [Call(r) EXCEPT !.stage = IF side.op = "load" THEN "done" ELSE "store"])
  /\ UNCHANGED <<side, keys, content, files>>

\* The endpoint answers the store of what was joined.
Stored(r) ==
  /\ Call(r).stage = "store"
  /\ Update(r, [Call(r) EXCEPT !.stage = "done"])
  /\ UNCHANGED <<side, keys, content, files>>

Running(r) == Call(r).stage \notin {"done", "failed"}

JoinStep(r) ==
  \/ Forward(r) \/ BeginJoin(r) \/ TakeMainKey(r) \/ LoadMain(r)
  \/ TakeStreamKey(r) \/ JoinStream(r) \/ ExecuteJoin(r)
  \/ LoadMainToAppend(r) \/ AppendStream(r) \/ Appended(r)
  \/ Running(r) /\ Fail(r)

-----------------------------------------------------------------------------
\* What is promised

\* The join by names, of combinations of lines: c[1] is a line of the main stream,
\* c[n + 1] one of the n-th joined stream, 0 stands for none.
Streams == <<MainStream>> \o [n \in DOMAIN side.joins |-> content[side.joins[n].node]]

KeyOf(n, i) ==
  [k \in DOMAIN ConfiguredKeys(side)[n] |->
     Streams[n][i][KeyIndex(Head(Streams[n]), ConfiguredKeys(side)[n][k])]]

LinesIn(n) == 2 .. Len(Streams[n])

KeyOfCombination(c) ==
  LET n == SelectInSeq(c, LAMBDA i : i # 0) IN KeyOf(n, c[n])

\* The combinations cs with the lines of the n-th stream: the pairs of one key,
\* and those that the type of the join keeps without a partner.
WithLinesOf(cs, n) ==
  LET type == side.joins[n - 1].type
      matched == {m \in cs \X LinesIn(n) : KeyOfCombination(m[1]) = KeyOf(n, m[2])}
      left == {c \in cs : \A m \in matched : m[1] # c}
      right == {i \in LinesIn(n) : \A m \in matched : m[2] # i}
  IN  (IF Pairs(type) THEN {Append(m[1], m[2]) : m \in matched} ELSE {})
        \union (IF 1 \in Alone(type) THEN {Append(c, 0) : c \in left} ELSE {})
        \union (IF 2 \in Alone(type)
                  THEN {[k \in 1 .. n |-> IF k = n THEN i ELSE 0] : i \in right} ELSE {})

Combinations ==
  LET Upto[n \in 1 .. Len(Streams)] ==
        IF n = 1 THEN {<<i>> : i \in LinesIn(1)} ELSE WithLinesOf(Upto[n - 1], n)
  IN  Upto[Len(Streams)]

KeyColumns(n) ==
  {KeyIndex(Head(Streams[n]), ConfiguredKeys(side)[n][k]) : k \in DOMAIN ConfiguredKeys(side)[n]}

ColumnsOf(n) == IF n = 1 THEN side.columns ELSE side.joins[n - 1].columns

Wanted(n, i) == ColumnsOf(n) = All \/ Head(Streams[n])[i] \in ColumnsOf(n)

\* The columns of the result: the key once, and from every stream what is wanted.
ResultColumns ==
  {c \in UNION {{n} \X DOMAIN Head(Streams[n]) : n \in DOMAIN Streams} :
     IF c[2] \in KeyColumns(c[1]) THEN c[1] = 1 ELSE Wanted(c[1], c[2])}

\* The name of a column, and that name under the name of its node.
ColumnName(c) == Head(Streams[c[1]])[c[2]]

PrefixedName(c) == <<side.joins[c[1] - 1].node>> \o ColumnName(c)

\* The column that a name of the output stands for: the first stream that brings
\* the name has it, the others have theirs under node.name.
ColumnNamed(name) ==
  LET plain == {c \in ResultColumns : ColumnName(c) = name}
      prefixed == {c \in ResultColumns : c[1] > 1 /\ PrefixedName(c) = name}
  IN  IF plain # {} THEN CHOOSE c \in plain : \A d \in plain : c[1] <= d[1]
      ELSE CHOOSE c \in prefixed : TRUE

\* The value of a combination in a column.
ValueOf(comb, c) ==
  IF c[2] \in KeyColumns(c[1])
    THEN KeyOfCombination(comb)[
           CHOOSE k \in DOMAIN side.key : side.key[k] = Head(Streams[1])[c[2]]]
    ELSE IF comb[c[1]] = 0 THEN <<>> ELSE Streams[c[1]][comb[c[1]]][c[2]]

\* `columns` of the main stream leaves out none before one that it keeps (where
\* there are several keys they come first and do not count).
KeepsAPrefix ==
  LET header == Head(Streams[1])
      counted == {i \in DOMAIN header : Len(side.key) > 1 => i \notin KeyColumns(1)}
      kept(i) == i \in KeyColumns(1) \/ Wanted(1, i)
  IN  \A i, j \in counted : i < j /\ kept(j) => kept(i)

\* A header names each of its columns once, and every line has a cell for each.
AreTables ==
  \A n \in DOMAIN Streams :
    LET header == Head(Streams[n])
    IN  /\ \A i, j \in DOMAIN header : header[i] = header[j] => i = j
        /\ \A i \in DOMAIN Streams[n] : Len(Streams[n][i]) = Len(header)

\* Every stream has the keys that the main stream has.  Several are one cell and
\* several again only when each is a word, and their column is found only when
\* none of the streams has a name like it.
KeysAgree ==
  /\ \A i, j \in DOMAIN side.key : side.key[i] = side.key[j] => i = j
  /\ \A n \in DOMAIN Streams : Len(ConfiguredKeys(side)[n]) = Len(side.key)
  /\ Len(side.key) > 1 =>
       \A n \in DOMAIN Streams :
         /\ \A i \in DOMAIN Streams[n] : \A cell \in Range(KeyOf(n, i)) : Len(cell) = 1
         /\ \A m \in DOMAIN Streams :
              FlattenSeq(ConfiguredKeys(side)[n]) \notin Range(Head(Streams[m]))

\* No column is named like another under the name of its node, and none like one
\* of several keys but the key of the main stream.
NamesApart ==
  \A c \in ResultColumns : c[1] > 1 =>
    /\ \A d \in ResultColumns :
         /\ PrefixedName(c) # ColumnName(d)
         /\ d[1] > 1 /\ PrefixedName(c) = PrefixedName(d) => c = d
    /\ Len(side.key) > 1 => ColumnName(c) \notin Range(side.key)

IsTheJoin(out) ==
  LET header == Head(out)
      rows == Tail(out)
      columns == [n \in DOMAIN header |-> ColumnNamed(header[n])]
      expected == [comb \in Combinations |->
                     [n \in DOMAIN header |-> ValueOf(comb, columns[n])]]
  IN  /\ Len(header) = Cardinality(ResultColumns)
      /\ Cardinality(Range(header)) = Len(header)
      /\ \A line \in Range(rows) \union Range(expected) :
           Cardinality({n \in DOMAIN rows : rows[n] = line})
             = Cardinality({comb \in DOMAIN expected : expected[comb] = line})

\* The lines of all streams in order, but for those to skip.
IsTheSequence(out) ==
  out = MainStream \o FlattenSeq([n \in DOMAIN side.joins |->
          SubSeq(Streams[n + 1], side.joins[n].skipLines + 1, Len(Streams[n + 1]))])

\* What a request is answered with, or sends on, is the join of the streams by
\* the names of their columns: every combination of lines once, each value under
\* its own name, whatever the types of join in a row, with one key or several and
\* wherever another request rewrites the same key meanwhile.  This is so where the
\* streams can be joined by names at all, and but for two cases in which the code
\* goes wrong: `columns` of the main stream that is no prefix (the -o list counts
\* the columns that are kept, the command those of the stream), and a command or a
\* file of which nobody saw that it broke off: then lines may be missing.
\* (JoinNode::WriteHorizontalJoin)
JoinIsRight ==
  \A r \in Request :
    Call(r).stage \in {"store", "done"} /\ side.joins # <<>> /\ side.behavior = "columnJoin" =>
      Call(r).cut
        \/ (AreTables /\ KeysAgree /\ NamesApart /\ KeepsAPrefix => IsTheJoin(Call(r).out))

\* Where the behavior is append, or there is nothing to join, it is one stream
\* after the other, each without the lines to skip, whatever other requests do in
\* between; but for a store that has met a stream shorter than its skipLines.
\* (JoinNode::LoadImpl, StoreImpl)
AppendIsRight ==
  \A r \in Request :
    Call(r).stage \in {"store", "done"} /\ (side.joins = <<>> \/ side.behavior = "append") =>
      Call(r).broken \/ IsTheSequence(Call(r).out)

\* A file in the working directory belongs to a request that is under way or to
\* one that failed; none is left by a request that was answered, and none is
\* removed while the command still has to read it. (WriteHorizontalJoin, step 4)
FilesAccounted ==
  \A r \in Request :
    LET left == {f.stream : f \in FilesOf(r)}
    IN  CASE Call(r).stage = "streams" -> left = 1 .. Call(r).next - 1
          [] Call(r).stage = "failed"  -> left \subseteq 1 .. Call(r).next
          [] OTHER                     -> left = {}
=============================================================================
