--------------------------- MODULE SortedAggregate ---------------------------
(***************************************************************************)
(* The older transformer that aggregates (AggregateStreamTransformer.cpp): *)
(* it sorts the stream by its keys and prints a group whenever the key of  *)
(* the line is another one.  Its configuration, and how it orders columns, *)
(* are those of GroupingAggregate; the code has them twice.                *)
(***************************************************************************)
EXTENDS GroupingAggregate

\* ParseFields and ValidateUniquePresence: there is a key, and the stream has
\* every required column once.
IsAccepted(header, keys, fields) == keys # <<>> /\ ValidHeader(header, keys, fields)

\* The first and the last column that hold a key, where they are when the stream
\* comes in.
KeyRange(header, keys) ==
  LET indices == Range(AwkIndices(header, keys))
  IN  <<CHOOSE i \in indices : \A k \in indices : i <= k,
        CHOOSE i \in indices : \A k \in indices : k <= i>>

\* The first command, if columns are put in order at all.
Ordered(header, keys, fields, lines) ==
  IF NeedColumnManipulation(header, keys, fields)
    THEN [n \in DOMAIN lines |-> Reordered(header, RequiredColumns(keys, fields), lines[n])]
    ELSE lines

\* What the command sort compares, cell by cell: the columns of the range, then the
\* whole line.
Compared(range, line) ==
  SubSeq(line, range[1], IF range[2] < Len(line) THEN range[2] ELSE Len(line)) \o line

ComesBefore(s, t) == \E n \in DOMAIN s : s[n] < t[n] /\ \A k \in 1 .. n - 1 : s[k] = t[k]

\* The second command sorts what the first has put out, by the range found before.
SortedByKeys(header, keys, skipSort, lines) ==
  LET Text(line) == Compared(KeyRange(header, keys), line)
      order == CHOOSE p \in {f \in [DOMAIN lines -> DOMAIN lines] : Range(f) = DOMAIN lines} :
                 \A m, n \in DOMAIN lines :
                   m < n => ~ ComesBefore(Text(lines[p[n]]), Text(lines[p[m]]))
  IN  IF skipSort THEN lines ELSE [n \in DOMAIN lines |-> lines[order[n]]]

\* The awk program is the one that the other transformer writes for skipGroup.
RunProgram(indices, keys, fields, lines) == SkipGroupProgram(indices, keys, fields, lines)

\* What is left when one of the first two commands fails, which is not seen: the
\* lines at the positions `passed`.
ReachingSorted(header, lines, keys, fields, skipSort, passed) ==
  IF skipSort /\ ~ NeedColumnManipulation(header, keys, fields) THEN lines
  ELSE Selected(lines, passed)

\* The lines that reach the program, in their order; on no line at all it prints the
\* values that its variables begin with.
SortedProgram(header, lines, keys, fields, skipSort) ==
  IF lines = <<>> THEN <<Printed(<<EmptyCell>>, fields, Initialised(fields))>>
  ELSE RunProgram(FinalIndices(header, keys, fields), keys, fields,
                  SortedByKeys(header, keys, skipSort, Ordered(header, keys, fields, lines)))

\* AggregateFields.  <<>> is a refusal, <<lines>> the result below the header.
AggregateFields(header, lines, keys, fields, skipSort, passed) ==
  IF ~ IsAccepted(header, keys, fields) \/ ~ Distinct(keys) THEN <<>>
  ELSE IF lines = <<>> THEN <<(<<>>)>>
  ELSE <<SortedProgram(header, ReachingSorted(header, lines, keys, fields, skipSort, passed),
                       keys, fields, skipSort)>>

-----------------------------------------------------------------------------
\* What is promised

\* The columns are moved and the sort then looks for the keys where they were: it
\* begins with a column that is no longer the first key.
SortsElsewhere(header, keys, fields) ==
  /\ NeedColumnManipulation(header, keys, fields)
  /\ KeyRange(header, keys)[1] \in 2 .. Len(RequiredColumns(keys, fields))

\* The sort compares whole lines where the keys are equal, so that the last line of
\* a group is another one than in the stream.
DependsOnOrder(fields) == \E n \in DOMAIN fields : fields[n].op = "last"

\* An answer has one line for each value of the keys of the lines that reach the
\* program, whatever their order, with every field's aggregate of exactly the lines
\* with these keys; that the commands before it failed is not seen.  Asked of
\* configurations in which no two fields share a variable, of lines that come
\* grouped where the sort is skipped, and where it is not of operations that do not
\* depend on the order and of a sort that still begins with the keys: elsewhere one
\* group may be printed in parts. (AggregateStreamTransformer::TransformInput)
IsSortedAggregate(header, lines, keys, fields, skipSort, passed, answer) ==
  LET reaching == ReachingSorted(header, lines, keys, fields, skipSort, passed)
      moved == ~ skipSort /\ (SortsElsewhere(header, keys, fields) \/ DependsOnOrder(fields))
  IN  answer # <<>> =>
        IF lines # <<>> /\ reaching = <<>> THEN IsEmptyLine(fields, answer[1])
        ELSE (lines # <<>> => ~ moved) =>
               AreAggregates(header, reaching, keys, fields, skipSort, answer[1])
=============================================================================
