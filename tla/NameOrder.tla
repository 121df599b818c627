------------------------------ MODULE NameOrder ------------------------------
(***************************************************************************)
(* The loops over a std::map: a name is a positive number, and a map holds *)
(* its names in their order.                                               *)
(***************************************************************************)
EXTENDS Naturals, FiniteSets, FiniteSetsExt

\* What a loop over the names, in order, makes of the state it begins with.
InNameOrder(Step(_, _), first, names) ==
  LET After[n \in Nat] ==
        IF n = 0 THEN first
        ELSE IF n \in names THEN Step(After[n - 1], n) ELSE After[n - 1]
  IN  IF names = {} THEN first ELSE After[Max(names)]
=============================================================================
