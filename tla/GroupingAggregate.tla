------------------------- MODULE GroupingAggregate -------------------------
(***************************************************************************)
(* The transformer that groups the lines of a stream by some columns and   *)
(* aggregates others (GroupingAggregateStreamTransformer.cpp): it writes   *)
(* an awk program from the configuration and runs the stream through it.   *)
(* What is modelled is how the program is put together, the positions it   *)
(* uses above all, and what awk makes of the stream.                       *)
(*                                                                         *)
(* A line is a sequence of numbers under a header of column names.  A      *)
(* configuration has keys [name, modify] and fields [name, varName, op,    *)
(* init, output, modify]; modify is "" or "half", op one of "sum", "last"  *)
(* and "count", of which "count" does without the value, and output is     *)
(* "aggregate", "fixed" or "" for none.                                    *)
(***************************************************************************)
EXTENDS Integers, Sequences, SequencesExt, FiniteSets, Positions

\* ParseFields: a field is required for the value that its operation names (%v),
\* a key always.
IsRequired(field) == field.op \in {"sum", "last"}

RequiredOf(fields) == {n \in DOMAIN fields : IsRequired(fields[n])}

\* NeedColumnManipulation and GetPreprocessAndOrderCommand know keys and required
\* fields as one list.
RequiredColumns(keys, fields) == keys \o Selected(fields, RequiredOf(fields))

CountOf(header, name) == Cardinality({n \in DOMAIN header : header[n] = name})

\* ValidateUniquePresence: a field that is not required may be missing, but no
\* field may be there twice.
ValidHeader(header, keys, fields) ==
  /\ \A n \in DOMAIN keys : CountOf(header, keys[n].name) = 1
  /\ \A n \in DOMAIN fields :
       CountOf(header, fields[n].name) \in IF IsRequired(fields[n]) THEN {1} ELSE {0, 1}

IndexOf(header, name) == SelectInSeq(header, LAMBDA c : c = name)

\* The indices of ParseFieldOrder, in the stream as it comes in.
AwkIndices(header, columns) == [n \in DOMAIN columns |-> IndexOf(header, columns[n].name)]

\* A key may be named once only.
Distinct(keys) == \A m, n \in DOMAIN keys : keys[m].name = keys[n].name => m = n

\* Columns are put in order when a value is modified or when the keys are not
\* neighbours in the stream.
NeedColumnManipulation(header, keys, fields) ==
  LET indices == Range(AwkIndices(header, keys))
  IN  \/ \E n \in DOMAIN keys : keys[n].modify # ""
      \/ \E n \in DOMAIN fields : fields[n].modify # ""
      \/ \E low, high \in indices : \E between \in low .. high : between \notin indices

\* Without keys the list of the printf begins with a comma: awk refuses this first
\* command and passes nothing on.
CanOrder(keys) == keys # <<>>

Modified(column, value) == IF column.modify = "half" THEN value \div 2 ELSE value

\* GetPreprocessAndOrderCommand: each line has the keys and the required fields,
\* in this order, with their modifications.
Reordered(header, columns, line) ==
  LET indices == AwkIndices(header, columns)
  IN  [n \in DOMAIN columns |-> Modified(columns[n], line[indices[n]])]

\* Mutant: the fields keep the positions they had before the columns moved.
KeptIndices(header, keys, fields) == AwkIndices(header, RequiredColumns(keys, fields))

\* The positions after that command, or the original ones when there was none.
FinalIndices(header, keys, fields) ==
  LET columns == RequiredColumns(keys, fields)
  IN  IF NeedColumnManipulation(header, keys, fields) THEN [n \in DOMAIN columns |-> n]
      ELSE AwkIndices(header, columns)

\* Where the n-th field finds its value.
FieldIndex(indices, keys, fields, n) ==
  indices[Len(keys) + Cardinality(RequiredOf(fields) \cap 1 .. n)]

-----------------------------------------------------------------------------
\* The awk program; its variables are those of the fields

\* GetInitAssignment
Initialised(fields) ==
  [v \in {f.varName : f \in Range(fields)} |->
     fields[SelectLastInSeq(fields, LAMBDA f : f.varName = v)].init]

\* One operation of GetIncrementAssignment.
Operated(field, aggregate, value) ==
  CASE field.op = "sum"   -> aggregate + value
    [] field.op = "last"  -> value
    [] field.op = "count" -> aggregate + 1

\* A field that a line does not have counts as 0.
CellOf(line, index) == IF index \in DOMAIN line THEN line[index] ELSE 0

\* What stands for the %v of the n-th field.
Operand(indices, keys, fields, n, line) ==
  IF IsRequired(fields[n]) THEN CellOf(line, FieldIndex(indices, keys, fields, n)) ELSE 0

\* One operation after the other, as the fields are listed.
Incremented(indices, keys, fields, variables, line) ==
  LET After[n \in 0 .. Len(fields)] ==
        IF n = 0 THEN variables
        ELSE [After[n - 1] EXCEPT ![fields[n].varName] =
                Operated(fields[n], @, Operand(indices, keys, fields, n, line))]
  IN  After[Len(fields)]

IsOutput(field) == field.output # ""

Outputs(fields) == Selected(fields, {n \in DOMAIN fields : IsOutput(fields[n])})

\* GetPrintCommand: the key, then the outputs that are not empty.
Printed(key, fields, variables) ==
  LET outputs == Outputs(fields)
  IN  key \o [n \in DOMAIN outputs |->
                IF outputs[n].output = "fixed" THEN 7 ELSE variables[outputs[n].varName]]

\* GetPrintCommandNoKeys puts a comma after every output that is not the last
\* field, also when no output follows.
TrailingComma(fields) == (\E n \in DOMAIN fields : IsOutput(fields[n])) /\ ~ IsOutput(Last(fields))

EmptyCell == -1

KeyIn(indices, keys, line) == [n \in DOMAIN keys |-> CellOf(line, indices[n])]

\* The normal case: an array entry per key, made when the key is met for the first
\* time; the order of the keys is up to awk.
GroupedProgram(indices, keys, fields, lines) ==
  LET Entries[n \in 0 .. Len(lines)] ==
        IF n = 0 THEN <<>>
        ELSE LET key == KeyIn(indices, keys, lines[n])
                 found == Entries[n - 1]
                 old == IF key \in DOMAIN found THEN found[key] ELSE Initialised(fields)
             IN  [k \in DOMAIN found \union {key} |->
                    IF k = key THEN Incremented(indices, keys, fields, old, lines[n])
                    ELSE found[k]]
      entries == Entries[Len(lines)]
      all == SetToSeq(DOMAIN entries)
  IN  [n \in DOMAIN all |-> Printed(all[n], fields, entries[all[n]])]

\* No key: one line for the whole stream.
KeylessProgram(indices, fields, lines) ==
  LET After[n \in 0 .. Len(lines)] ==
        IF n = 0 THEN Initialised(fields)
        ELSE Incremented(indices, <<>>, fields, After[n - 1], lines[n])
  IN  <<Printed(<<>>, fields, After[Len(lines)])
          \o IF TrailingComma(fields) THEN <<EmptyCell>> ELSE <<>>>>

\* What happens when the key changes: the entry is printed, the variables start
\* again.
NextGroup(state, key, fields) ==
  [key |-> key, variables |-> Initialised(fields),
   out |-> Append(state.out, Printed(state.key, fields, state.variables))]

\* skipGroup: one entry, printed whenever the key of the line is another one.
SkipGroupProgram(indices, keys, fields, lines) ==
  LET After[n \in 0 .. Len(lines)] ==
        IF n = 0 THEN [key |-> KeyIn(indices, keys, lines[1]),
                       variables |-> Initialised(fields), out |-> <<>>]
        ELSE LET key == KeyIn(indices, keys, lines[n])
                 next == IF key = After[n - 1].key THEN After[n - 1]
                         ELSE NextGroup(After[n - 1], key, fields)
             IN  [next EXCEPT !.variables = Incremented(indices, keys, fields, @, lines[n])]
      last == After[Len(lines)]
  IN  Append(last.out, Printed(last.key, fields, last.variables))

\* A program that no line reaches still ends: its variables have no value then,
\* which is printed as an empty string or as 0.
PrintedForNothing(keys, fields, skipGroup) ==
  LET line == Printed(<<>>, fields, [v \in {f.varName : f \in Range(fields)} |-> EmptyCell])
  IN  IF keys = <<>>
        THEN <<line \o IF TrailingComma(fields) THEN <<EmptyCell>> ELSE <<>>>>
      ELSE IF skipGroup THEN <<(<<EmptyCell>> \o line)>> ELSE <<>>

\* The program on the lines that reach it, after the first command if there is one.
Program(header, lines, keys, fields, skipGroup) ==
  LET columns == RequiredColumns(keys, fields)
      input == IF NeedColumnManipulation(header, keys, fields)
                 THEN [n \in DOMAIN lines |-> Reordered(header, columns, lines[n])] ELSE lines
      indices == FinalIndices(header, keys, fields)
  IN  IF lines = <<>> THEN PrintedForNothing(keys, fields, skipGroup)
      ELSE IF keys = <<>> THEN KeylessProgram(indices, fields, input)
      ELSE IF skipGroup THEN SkipGroupProgram(indices, keys, fields, input)
      ELSE GroupedProgram(indices, keys, fields, input)

\* The two commands are a pipeline, of which only the last one's status is seen:
\* `passed` are the positions of the lines that the first one passes on before it
\* ends, all of them if nothing goes wrong with it.
Reaching(header, lines, keys, fields, passed) ==
  IF ~ NeedColumnManipulation(header, keys, fields) THEN lines
  ELSE IF ~ CanOrder(keys) THEN <<>>
  ELSE Selected(lines, passed)

\* TransformInput.  <<>> is a refusal, <<lines>> the result below the header.
TransformInput(header, lines, keys, fields, skipGroup, passed) ==
  IF ~ ValidHeader(header, keys, fields) THEN <<>>
  ELSE IF lines = <<>> THEN <<(<<>>)>>
  ELSE IF ~ Distinct(keys) THEN <<>>
  ELSE <<Program(header, Reaching(header, lines, keys, fields, passed), keys, fields, skipGroup)>>

-----------------------------------------------------------------------------
\* What is promised

\* The keys of a line, and what a field has on it, by the names of their columns.
KeyAt(header, keys, line) ==
  [n \in DOMAIN keys |-> Modified(keys[n], line[IndexOf(header, keys[n].name)])]

FieldAt(header, field, line) ==
  IF IsRequired(field) THEN Modified(field, line[IndexOf(header, field.name)]) ELSE 0

\* The values at some positions, added up.
SumAt(values, positions) ==
  LET First[n \in 0 .. Len(values)] ==
        IF n = 0 THEN 0
        ELSE IF n \in positions THEN First[n - 1] + values[n] ELSE First[n - 1]
  IN  First[Len(values)]

\* The aggregate of one field over a group, which is a set of positions.
AggregateOf(field, values, group) ==
  CASE field.op = "sum"   -> field.init + SumAt(values, group)
    [] field.op = "last"  -> values[CHOOSE n \in group : \A k \in group : k <= n]
    [] field.op = "count" -> field.init + Cardinality(group)

ExpectedLine(header, keys, fields, lines, group) ==
  LET outputs == Outputs(fields)
      Values(field) == [n \in DOMAIN lines |-> FieldAt(header, field, lines[n])]
  IN  KeyAt(header, keys, lines[CHOOSE n \in group : TRUE])
        \o [n \in DOMAIN outputs |-> IF outputs[n].output = "fixed" THEN 7
                                     ELSE AggregateOf(outputs[n], Values(outputs[n]), group)]

\* There is one line for each value of the keys of these lines, and on it every
\* field's aggregate of exactly the lines with these keys.  Asked of configurations
\* in which no two fields share a variable, of skipGroup on lines that come grouped,
\* and without keys of those that do not end with a field without output (a comma
\* too many).
AreAggregates(header, lines, keys, fields, skipGroup, out) ==
  LET Key(n) == KeyAt(header, keys, lines[n])
      shared == \E m, n \in DOMAIN fields : m # n /\ fields[m].varName = fields[n].varName
      apart == \E i, j \in DOMAIN lines : \E n \in i .. j :
                 Key(i) = Key(j) /\ Key(n) # Key(i)
      groups == {{k \in DOMAIN lines : Key(k) = Key(n)} : n \in DOMAIN lines}
      comma == keys = <<>> /\ TrailingComma(fields)
  IN  ~ shared /\ ~ (skipGroup /\ apart) /\ ~ comma =>
        /\ Range(out) = {ExpectedLine(header, keys, fields, lines, g) : g \in groups}
        /\ Len(out) = Cardinality(groups)

\* One line that has no aggregate of anything.
IsEmptyLine(fields, out) ==
  /\ Len(out) = 1
  /\ Range(out[1]) \subseteq {EmptyCell, 7} \union {f.init : f \in Range(fields)}

\* Wherever the columns are and whichever of the three programs runs, an answer has
\* the aggregates of exactly the lines that reach the program.  These are all lines
\* of the stream when no value is modified and the keys are neighbours; otherwise
\* they are those that the first command passed on, and that it failed is not seen:
\* a configuration without keys that modifies a value is answered with one line
\* that has no aggregate. (GroupingAggregateStreamTransformer::TransformInput)
IsAggregate(header, lines, keys, fields, skipGroup, passed, answer) ==
  LET reaching == Reaching(header, lines, keys, fields, passed)
  IN  answer # <<>> =>
        IF lines # <<>> /\ reaching = <<>> /\ (keys = <<>> \/ skipGroup)
          THEN IsEmptyLine(fields, answer[1])
        ELSE AreAggregates(header, reaching, keys, fields, skipGroup, answer[1])
=============================================================================
