----------------------------- MODULE Positions -----------------------------
(***************************************************************************)
(* The loops that take some elements of a list, one after the other: the   *)
(* columns of a header that are wanted, the cells of a line that are not   *)
(* its key, the fields that have a value.                                  *)
(***************************************************************************)
EXTENDS Naturals, Sequences

\* The elements at some positions, in their order.
Selected(seq, positions) ==
  LET First[n \in 0 .. Len(seq)] ==
        IF n = 0 THEN <<>>
        ELSE IF n \in positions THEN Append(First[n - 1], seq[n]) ELSE First[n - 1]
  IN  First[Len(seq)]

=============================================================================
