------------------------ MODULE ParameterTranslator ------------------------
(***************************************************************************)
(* The translation of the parameters of a request, as the configuration of *)
(* a node asks for it (ParameterTranslator.cpp).  A parameter may be       *)
(* renamed, its value replaced, filled in when it is missing, or derived   *)
(* from others; a value that depends on the data of the request is filled  *)
(* in by a second call.  The requests of a node share one translator.      *)
(*                                                                         *)
(* A name is a number, in the order in which the maps hold the names; a    *)
(* value is a sequence of words, <<>> the empty one.  An attribute that is *)
(* not given is <<>>, one that is given is <<x>>.                          *)
(***************************************************************************)
EXTENDS NameOrder, Sequences, SequencesExt

CONSTANTS
  Caller,         \* the requests that use the node
  Translations,   \* configurations: sequences of Parameter elements
  Inputs,         \* parameters that a request may bring
  Several         \* the valueSource "*": a value derived from several parameters

\* An element has a name, a request brings finitely many values.
ASSUME TranslatorAssumption ==
  /\ \A ps \in Translations :
       ps \in Seq(Range(ps)) /\ \A n \in DOMAIN ps : ps[n].name \in Nat \ {0}
  /\ \A input \in Inputs :
       /\ DOMAIN input \subseteq Nat \ {0} /\ IsFiniteSet(DOMAIN input)
       /\ \A n \in DOMAIN input : input[n] \in Seq(STRING)

VARIABLES
  parameters,     \* the elements the constructor accepted
  delayed,        \* m_DelayedEvaluationParameters
  asked           \* what each request has come to

translatorVars == <<parameters, delayed, asked>>

Given(attribute) == attribute # <<>>

Renamed(p) == Given(p.translatedName)

\* What an element says of its value: the constructor takes an override for both
\* the translator and the default.
Override(p) == Given(p.valueOverride)

Derived(p) == Given(p.valueSource) /\ (Given(p.valueTranslator) \/ Override(p))

-----------------------------------------------------------------------------
\* The constructor

\* The combinations of attributes that one element may have.
Sensible(p) ==
  /\ Given(p.valueSource) => \/ Renamed(p) \/ Given(p.valueTranslator)
                             \/ Given(p.valueDefault) \/ Override(p)
  /\ Renamed(p) => ~ \/ Given(p.valueTranslator) \/ Given(p.valueDefault)
                     \/ Override(p) \/ Given(p.valueSource)
  /\ ~ (Given(p.valueTranslator) /\ Override(p))
  /\ ~ (Given(p.valueDefault) /\ Override(p))
  /\ Given(p.valueDefault) /\ Given(p.valueSource) => Given(p.valueTranslator)

Elements(ps, kind(_)) == {ps[n] : n \in {k \in DOMAIN ps : kind(ps[k])}}

\* m_Parameters; the derived values are in a table of their own.
Plain(ps) == {n \in DOMAIN ps : ~ Derived(ps[n])}

\* m_DerivedValues: a later element of the same name replaces an earlier one.
DerivedNames(ps) == {p.name : p \in Elements(ps, Derived)}

DerivedValue(ps, name) == ps[SelectLastInSeq(ps, LAMBDA p : p.name = name /\ Derived(p))]

Derivation(p) == IF Override(p) THEN p.valueOverride[1] ELSE p.valueTranslator[1]

SourceNames(p) ==
  IF p.valueSource[1] = Several THEN Derivation(p).names ELSE <<p.valueSource[1]>>

Sources(p) == Range(SourceNames(p))

Accepts(ps) ==
  /\ \A n \in DOMAIN ps : Sensible(ps[n])
  /\ \A m, n \in Plain(ps) : ps[m].name = ps[n].name => m = n
  /\ \A m, n \in Plain(ps) :
       Renamed(ps[m]) /\ ps[m].translatedName[1] = ps[n].name => ~ Renamed(ps[n])
  /\ \A name \in DerivedNames(ps) : Sources(DerivedValue(ps, name)) \cap DerivedNames(ps) = {}

Configured(ps, name) == \E n \in Plain(ps) : ps[n].name = name

Parameter(ps, name) == ps[CHOOSE n \in Plain(ps) : ps[n].name = name]

HasTranslator(p) == Given(p.valueTranslator) \/ Override(p)

PrimaryDefault(ps) ==
  {p \in Elements(ps, LAMBDA p : ~ Derived(p)) : Given(p.valueDefault) \/ Override(p)}

PrimaryNames(ps) == {p.name : p \in PrimaryDefault(ps)}

PrimaryValue(ps, name) ==
  LET p == CHOOSE q \in PrimaryDefault(ps) : q.name = name
  IN  IF Override(p) THEN p.valueOverride[1] ELSE p.valueDefault[1]

SecondaryNames(ps) == {p.name : p \in Elements(ps, LAMBDA p : Derived(p) /\ Given(p.valueDefault))}

SecondaryValue(ps, name) ==
  ps[SelectLastInSeq(ps, LAMBDA p : p.name = name /\ Derived(p) /\ Given(p.valueDefault))].valueDefault[1]

\* IsSilenced: an element that says nothing but the name.
IsSilenced(ps, name) ==
  Configured(ps, name) /\ LET p == Parameter(ps, name)
                          IN  ~ Renamed(p) /\ ~ HasTranslator(p) /\ ~ Given(p.valueDefault)

-----------------------------------------------------------------------------
\* Translate

\* EvalBuiltIn, EvalExpression and the substitution of %v: a built-in that depends
\* on the data is empty for now, everything else is words around the value.
IsDelayed(t) == t.kind = "builtIn"

EvalTemplate(t, value) ==
  IF IsDelayed(t) THEN <<>> ELSE t.text \o IF t.kind = "value" THEN value ELSE <<>>

\* The parameters translated so far, and the names of the delayed ones.
NothingTranslated == [out |-> <<>>, delayed |-> {}]

Put(state, name, value, t) ==
  [out |-> [n \in DOMAIN state.out \union {name} |-> IF n = name THEN value ELSE state.out[n]],
   delayed |-> IF IsDelayed(t) THEN state.delayed \union {name} ELSE state.delayed]

PutMissing(state, name, value, t) ==
  IF name \in DOMAIN state.out THEN state ELSE Put(state, name, value, t)

AsIs == [kind |-> "value", text |-> <<>>, names |-> <<>>]

\* The first loop: one parameter of the request.
TranslateInput(ps, input, state, name) ==
  LET renamed == Configured(ps, name) /\ Renamed(Parameter(ps, name))
      target == IF renamed THEN Parameter(ps, name).translatedName[1] ELSE name
      t == IF HasTranslator(Parameter(ps, target))
             THEN (IF Override(Parameter(ps, target)) THEN Parameter(ps, target).valueOverride[1]
                   ELSE Parameter(ps, target).valueTranslator[1])
             ELSE AsIs
  IN  IF renamed /\ target \in DOMAIN input THEN state
      ELSE IF ~ Configured(ps, target) THEN Put(state, target, input[name], AsIs)
      ELSE IF IsSilenced(ps, target) THEN [state EXCEPT !.delayed = @ \ {target}]
      ELSE Put(state, target, EvalTemplate(t, input[name]), t)

\* The loop over m_PrimaryDefaults; a default has no value to stand for %v.
FillDefault(ps, state, name) ==
  LET t == PrimaryValue(ps, name) IN PutMissing(state, name, EvalTemplate(t, <<"%v">>), t)

\* The loop over m_DerivedValues; a single source that is missing is skipped, one of
\* several makes Translate throw.
Derive(ps, state, name) ==
  LET p == DerivedValue(ps, name)
      t == Derivation(p)
      names == SourceNames(p)
      value == EvalTemplate(t, FlattenSeq([n \in DOMAIN names |-> state.out[names[n]]]))
  IN  IF ~ (Sources(p) \subseteq DOMAIN state.out) THEN state
      ELSE IF Override(p) THEN Put(state, name, value, t)
      ELSE PutMissing(state, name, value, t)

\* The loop over m_SecondaryDefaults.
FillLast(ps, state, name) ==
  LET t == SecondaryValue(ps, name) IN PutMissing(state, name, EvalTemplate(t, <<"%v">>), t)

\* Mutant: the derived values come before the defaults.
DerivedFirst(ps, input) ==
  LET first == InNameOrder(LAMBDA st, n : TranslateInput(ps, input, st, n),
                           NothingTranslated, DOMAIN input)
      second == InNameOrder(LAMBDA st, n : Derive(ps, st, n), first, DerivedNames(ps))
      third == InNameOrder(LAMBDA st, n : FillDefault(ps, st, n), second, PrimaryNames(ps))
  IN  InNameOrder(LAMBDA st, n : FillLast(ps, st, n), third, SecondaryNames(ps))

\* The four loops of Translate.
Translated(ps, input) ==
  LET first == InNameOrder(LAMBDA st, n : TranslateInput(ps, input, st, n),
                           NothingTranslated, DOMAIN input)
      second == InNameOrder(LAMBDA st, n : FillDefault(ps, st, n), first, PrimaryNames(ps))
      third == InNameOrder(LAMBDA st, n : Derive(ps, st, n), second, DerivedNames(ps))
  IN  InNameOrder(LAMBDA st, n : FillLast(ps, st, n), third, SecondaryNames(ps))

\* What a value derived from several parameters refers to; Translate throws when
\* one of them is missing.
References(ps) ==
  UNION {Sources(DerivedValue(ps, n)) :
           n \in {k \in DerivedNames(ps) : DerivedValue(ps, k).valueSource[1] = Several}}

-----------------------------------------------------------------------------
\* The requests

\* The names that the first loop takes off m_DelayedEvaluationParameters.
Silenced(ps, input) ==
  LET Target(n) == IF Configured(ps, n) /\ Renamed(Parameter(ps, n))
                     THEN Parameter(ps, n).translatedName[1] ELSE n
  IN  {name \in {Target(n) : n \in DOMAIN input} : IsSilenced(ps, name)}

TranslatorInit ==
  /\ parameters \in {ps \in Translations : Accepts(ps)}
  /\ delayed = {}
  /\ asked = [c \in Caller |-> [stage |-> "new", input |-> <<>>, out |-> <<>>, erases |-> {},
                                puts |-> {}, filled |-> {}, crossed |-> FALSE]]

\* A request that has begun and not come to its end.
Busy == {"translating", "translated", "filling"}

\* What c has come to, when it has changed m_DelayedEvaluationParameters: without a
\* lock, so that it has changed it for whoever is between the clear of its own
\* Translate and the end of its TranslateDelayedParameters.
Changes(c, entry) ==
  asked' = [d \in Caller |-> IF d = c THEN entry
              ELSE [asked[d] EXCEPT !.crossed = @ \/ asked[d].stage \in Busy]]

\* Translate begins with an empty m_DelayedEvaluationParameters.  What the loops make
\* of the parameters is the request's own; what they do to the shared names is done
\* step by step in TranslateOn.
Translate(c) ==
  /\ asked[c].stage = "new"
  /\ \E input \in Inputs :
       LET state == Translated(parameters, input)
       IN  Changes(c, [stage |-> "translating", input |-> input, out |-> state.out,
                       erases |-> Silenced(parameters, input), puts |-> state.delayed,
                       filled |-> {}, crossed |-> FALSE])
  /\ delayed' = {}
  /\ UNCHANGED parameters

\* The loops take a silenced name off, or put a name down; a name that the first loop
\* takes off can only be put down by a later one.
TranslateOn(c) ==
  /\ asked[c].stage = "translating"
  /\ \/ \E n \in asked[c].erases :
          /\ Changes(c, [asked[c] EXCEPT !.erases = @ \ {n}])
          /\ delayed' = delayed \ {n}
     \/ \E n \in asked[c].puts \ asked[c].erases :
          /\ Changes(c, [asked[c] EXCEPT !.puts = @ \ {n}])
          /\ delayed' = delayed \union {n}
  /\ UNCHANGED parameters

TranslateEnds(c) ==
  /\ asked[c].stage = "translating" /\ asked[c].erases = {} /\ asked[c].puts = {}
  /\ References(parameters) \subseteq DOMAIN asked[c].out
  /\ asked' = [asked EXCEPT ![c].stage = "translated"]
  /\ UNCHANGED <<parameters, delayed>>

\* A reference that is missing, or an expression the shell refuses; the names put
\* down until then stay.
TranslateFails(c) ==
  /\ asked[c].stage = "translating"
  /\ asked' = [asked EXCEPT ![c].stage = "failed"]
  /\ UNCHANGED <<parameters, delayed>>

\* TranslateDelayedParameters, with the data of the request: it goes over the names
\* one by one, and reads the data for the first of them.
FillDelayed(c) ==
  /\ asked[c].stage \in {"translated", "filling"}
  /\ \E n \in delayed \ asked[c].filled :
       asked' = [asked EXCEPT ![c].stage = "filling", ![c].filled = @ \union {n},
                   ![c].out = [m \in DOMAIN @ \union {n} |-> IF m = n THEN <<c>> ELSE @[m]]]
  /\ UNCHANGED <<parameters, delayed>>

\* Names that another request puts down behind the loop are not met.
TranslateDelayedParameters(c) ==
  /\ asked[c].stage \in {"translated", "filling"}
  /\ delayed \subseteq asked[c].filled \/ asked[c].crossed
  /\ asked' = [asked EXCEPT ![c].stage = "done"]
  /\ UNCHANGED <<parameters, delayed>>

TranslatorStep(c) ==
  \/ Translate(c)
  \/ TranslateOn(c)
  \/ TranslateEnds(c)
  \/ TranslateFails(c)
  \/ FillDelayed(c)
  \/ TranslateDelayedParameters(c)

-----------------------------------------------------------------------------
\* What is promised

\* The parameters of the request that end up under a name: its own, if there is
\* one, else the last of those that are renamed to it.
Bringing(ps, input, name) ==
  {n \in DOMAIN input :
     IF Configured(ps, n) /\ Renamed(Parameter(ps, n))
       THEN Parameter(ps, n).translatedName[1] = name /\ name \notin DOMAIN input
       ELSE n = name}

\* A name and what decides its value: <<>> if nothing does, else the template and
\* the value it is applied to.
FromRequest(ps, input, name) ==
  LET bringing == Bringing(ps, input, name)
      value == input[CHOOSE n \in bringing : \A k \in bringing : k <= n]
      p == Parameter(ps, name)
  IN  IF bringing = {} \/ IsSilenced(ps, name) THEN <<>>
      ELSE IF Configured(ps, name) /\ HasTranslator(p)
             THEN <<IF Override(p) THEN p.valueOverride[1] ELSE p.valueTranslator[1], value>>
             ELSE <<AsIs, value>>

FromDefault(ps, name) ==
  IF name \in PrimaryNames(ps) THEN <<PrimaryValue(ps, name), <<"%v">>>> ELSE <<>>

OrElse(x, y) == IF x # <<>> THEN x ELSE y

Plainly(ps, input, name) == OrElse(FromRequest(ps, input, name), FromDefault(ps, name))

Meaning(x) == EvalTemplate(x[1], x[2])

FromSources(ps, input, name) ==
  LET p == DerivedValue(ps, name)
      names == SourceNames(p)
  IN  IF name \notin DerivedNames(ps) THEN <<>>
      ELSE IF \E n \in Range(names) : Plainly(ps, input, n) = <<>> THEN <<>>
      ELSE <<Derivation(p), FlattenSeq([k \in DOMAIN names |->
                              Meaning(Plainly(ps, input, names[k]))])>>

FromLast(ps, name) ==
  IF name \in SecondaryNames(ps) THEN <<SecondaryValue(ps, name), <<"%v">>>> ELSE <<>>

\* The rule for one name by itself: an override from other parameters, what the
\* request brings, the default, the value derived from others, the last default.
Decided(ps, input, name) ==
  LET plainly == Plainly(ps, input, name)
      derived == FromSources(ps, input, name)
  IN  IF derived # <<>> /\ Override(DerivedValue(ps, name)) THEN derived
      ELSE OrElse(plainly, OrElse(derived, FromLast(ps, name)))

Mentioned(ps, input) ==
  DOMAIN input \union {p.name : p \in Range(ps)}
    \union {ps[n].translatedName[1] : n \in {k \in DOMAIN ps : Renamed(ps[k])}}

\* A name whose first value waits for the data and is then overridden from other
\* parameters: the override is lost, nothing takes the name off the list.
Outdated(ps, input, name) ==
  /\ Plainly(ps, input, name) # <<>> /\ IsDelayed(Plainly(ps, input, name)[1])
  /\ ~ IsDelayed(Decided(ps, input, name)[1])

\* However the four loops, the renaming, the defaults and the values derived from
\* others meet in one name, the name gets what the rule for it says, and a name
\* nothing decides is not passed on.  The values that depend on the data are there
\* after the second call, unless another request's Translate has changed the shared
\* names between the clear of this one's and the end of its second call. (ParameterTranslator::Translate,
\* TranslateDelayedParameters)
TranslationIsRight ==
  \A c \in Caller :
    LET in == asked[c].input
        Due(name) == LET x == Decided(parameters, in, name)
                     IN  IF asked[c].stage = "done" /\ IsDelayed(x[1]) THEN <<c>> ELSE Meaning(x)
        decided == {n \in Mentioned(parameters, in) : Decided(parameters, in, n) # <<>>}
    IN  asked[c].stage = "translated" \/ (asked[c].stage = "done" /\ ~ asked[c].crossed) =>
          /\ DOMAIN asked[c].out = decided
          /\ \A n \in decided :
               asked[c].out[n] = Due(n)
                 \/ (asked[c].stage = "done" /\ Outdated(parameters, in, n))
=============================================================================
