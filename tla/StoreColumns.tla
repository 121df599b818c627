---------------------------- MODULE StoreColumns ----------------------------
(***************************************************************************)
(* Where a store of a database node finds its columns: in the stream or    *)
(* among the parameters of the request (DatabaseProxy.cpp).  A name is a   *)
(* number, in the order of the maps.  `required` gives the required names  *)
(* the columns of the table they are written to, `policy` says what        *)
(* happens to a name that is in both places.                               *)
(***************************************************************************)
EXTENDS NameOrder, Sequences, SequencesExt

Policies == {"fail", "useColumn", "useParameter"}

NothingFound(required) ==
  [found |-> <<>>, indices |-> <<>>, used |-> <<>>, missing |-> DOMAIN required,
   refused |-> FALSE]

\* Mutant: a name that was found stays among the missing ones, so that nothing is
\* ambiguous.
FindColumnAgain(state, header, policy, parameters, index) ==
  LET name == header[index]
  IN  IF name \notin state.missing \/ (policy = "useParameter" /\ name \in DOMAIN parameters)
        THEN state
        ELSE [state EXCEPT !.found = Append(@, name), !.indices = Append(@, index)]

\* The loop over the header.
FindColumn(state, header, policy, parameters, index) ==
  LET name == header[index]
  IN  IF name \notin state.missing
        THEN [state EXCEPT !.refused = @ \/ name \in Range(state.found)]
      ELSE IF policy = "useParameter" /\ name \in DOMAIN parameters THEN state
      ELSE [state EXCEPT !.found = Append(@, name), !.indices = Append(@, index),
                         !.missing = @ \ {name}]

\* The loop over the parameters; with the policy "useColumn" a name that was found
\* is passed over.
FindParameter(state, policy, name) ==
  IF name \in state.missing
    THEN [state EXCEPT !.found = Append(@, name), !.used = Append(@, name),
                       !.missing = @ \ {name}]
    ELSE [state EXCEPT !.refused = @ \/ (name \in Range(state.found) /\ policy # "useColumn")]

\* StoreImpl up to the connection; what is refused throws at its place, before
\* anything was done.
Found(required, policy, header, parameters) ==
  LET InStream[n \in 0 .. Len(header)] ==
        IF n = 0 THEN NothingFound(required)
        ELSE FindColumn(InStream[n - 1], header, policy, parameters, n)
      inBoth == InNameOrder(LAMBDA state, name : FindParameter(state, policy, name),
                            InStream[Len(header)], DOMAIN parameters)
  IN  [inBoth EXCEPT !.refused = @ \/ inBoth.missing # {}]

\* GetOutputColumns: the header of the data file.
OutputColumns(required, found) == [n \in DOMAIN found |-> required[found[n]]]

\* WriteDataFile: the columns of the stream that are used, then the parameters; one
\* line of parameters when no column is used.
WriteDataFile(state, rows, parameters) ==
  LET constants == [n \in DOMAIN state.used |-> parameters[state.used[n]]]
      Line(row) == [n \in DOMAIN state.indices |-> row[state.indices[n]]] \o constants
  IN  IF state.indices = <<>> THEN <<constants>> ELSE [n \in DOMAIN rows |-> Line(rows[n])]

\* What reaches the staging table: <<>> is a refusal.
StoredTable(required, policy, header, rows, parameters) ==
  LET state == Found(required, policy, header, parameters)
  IN  IF state.refused THEN <<>>
      ELSE <<OutputColumns(required, state.found), WriteDataFile(state, rows, parameters)>>

-----------------------------------------------------------------------------
\* What is promised

InHeader(header, name) == Cardinality({n \in DOMAIN header : header[n] = name})

\* Where the policy finds a name: exactly one place, or the store is refused.
HasOneSource(policy, header, parameters, name) ==
  LET times == InHeader(header, name)
      given == name \in DOMAIN parameters
  IN  CASE policy = "fail"         -> (times = 1 /\ ~ given) \/ (times = 0 /\ given)
        [] policy = "useColumn"    -> times = 1 \/ (times = 0 /\ given)
        [] policy = "useParameter" -> given \/ times = 1

FromParameter(policy, header, parameters, name) ==
  name \in DOMAIN parameters /\ (policy = "useParameter" \/ InHeader(header, name) = 0)

\* A store is refused exactly when some required column has no source or more than
\* the policy can decide between; otherwise every line of the data file has, under
\* every column of the table, the value of the line of the stream it comes from or
\* of the parameter. (DatabaseProxy::StoreImpl, WriteDataFile)
ColumnsAreRight(required, policy, header, rows, parameters, answer) ==
  LET names == DOMAIN required
      allGiven == \A name \in names : FromParameter(policy, header, parameters, name)
      Value(name, row) == IF FromParameter(policy, header, parameters, name)
                            THEN parameters[name]
                            ELSE row[SelectInSeq(header, LAMBDA c : c = name)]
  IN  /\ (answer # <<>>) <=> \A name \in names : HasOneSource(policy, header, parameters, name)
      /\ answer # <<>> =>
           /\ Len(answer[1]) = Cardinality(names)
           /\ Len(answer[2]) = IF allGiven THEN 1 ELSE Len(rows)
           /\ \A name \in names : \E n \in DOMAIN answer[1] :
                /\ answer[1][n] = required[name]
                /\ \A k \in DOMAIN answer[2] :
                     answer[2][k][n] = IF allGiven THEN parameters[name] ELSE Value(name, rows[k])
=============================================================================
