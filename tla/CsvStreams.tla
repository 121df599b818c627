---------------------------- MODULE CsvStreams ----------------------------
(***************************************************************************)
(* The streams that the nodes hand to each other, and the shell commands   *)
(* they pass them through.  A stream is a sequence of lines, the first of  *)
(* them the header, and a line a sequence of cells.  A cell is a sequence  *)
(* of words, so that the rewriting of several columns into one is visible: *)
(* <<"a", "b">> stands for "a|b" and <<>> for an empty cell.               *)
(***************************************************************************)
EXTENDS Naturals, Sequences, SequencesExt, FiniteSets

CONSTANT Request    \* the requests that run through the nodes

\* The position of a column in a header, 0 when there is none.
KeyIndex(header, column) == SelectInSeq(header, LAMBDA c : c = column)

\* A cell of a line; a cell beyond the end of the line is empty to a command.
CellAt(line, i) == IF i \in DOMAIN line THEN line[i] ELSE <<>>

CellsOf(lines, i) == {CellAt(line, i) : line \in Range(lines)}

\* The lines with a cell at i, in their order.
Having(lines, i, cell) ==
  LET First[n \in 0 .. Len(lines)] ==
        IF n = 0 THEN <<>>
        ELSE IF CellAt(lines[n], i) = cell THEN Append(First[n - 1], lines[n])
        ELSE First[n - 1]
  IN  First[Len(lines)]

\* sort by a column: lines of one key become neighbours.  Which key comes first
\* matters to nothing, only that every command agrees on it.
Sorted(lines, i) ==
  LET keys == SetToSeq(CellsOf(lines, i))
  IN  FlattenSeq([n \in DOMAIN keys |-> Having(lines, i, keys[n])])

(***************************************************************************)
(* join of two streams sorted by the columns i and j: `pairs` says whether *)
(* it prints the paired lines (it does unless -v is given), `alone` of     *)
(* which files it prints the others (-a or -v), and `list` what it prints  *)
(* of a line: <<0, 0>> is the key, <<1, n>> and <<2, n>> the n-th cells.   *)
(***************************************************************************)
Joined(left, i, right, j, pairs, alone, list) ==
  LET Printed(key, l, r) ==
        [n \in DOMAIN list |->
           IF list[n] = <<0, 0>> THEN key
           ELSE CellAt(IF list[n][1] = 1 THEN l ELSE r, list[n][2])]
      Cross(key, ls, rs) ==
        FlattenSeq([m \in DOMAIN ls |-> [n \in DOMAIN rs |-> Printed(key, ls[m], rs[n])]])
      Group(key) ==
        LET ls == Having(left, i, key)
            rs == Having(right, j, key)
        IN  CASE ls # <<>> /\ rs # <<>> -> IF pairs THEN Cross(key, ls, rs) ELSE <<>>
              [] ls = <<>> -> IF 2 \in alone THEN Cross(key, <<(<<>>)>>, rs) ELSE <<>>
              [] OTHER     -> IF 1 \in alone THEN Cross(key, ls, <<(<<>>)>>) ELSE <<>>
      keys == SetToSeq(CellsOf(left, i) \union CellsOf(right, j))
  IN  FlattenSeq([n \in DOMAIN keys |-> Group(keys[n])])
=============================================================================
