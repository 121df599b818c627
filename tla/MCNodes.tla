------------------------------ MODULE MCNodes ------------------------------
(***************************************************************************)
(* Two requests through a join and a partition; two requests through the   *)
(* translator of a node; and computations on small inputs.                 *)
(***************************************************************************)
EXTENDS Nodes

CONSTANTS r1, r2

requests == {r1, r2}

\* One line from words.
a == <<"a">>
b == <<"b">>
k == <<"k">>
v == <<"v">>
one == <<"1">>
two == <<"2">>
three == <<"3">>

contents ==
  {[main |-> <<<<k, a, v>>, <<one, two, one>>, <<two, two, two>>, <<one, three, three>>>>,
    n1 |-> <<<<a, k>>, <<one, one>>, <<three, three>>, <<two, one>>>>,
    n2 |-> <<<<k, a>>, <<three, one>>, <<one, two>>>>],
   [main |-> <<<<k, a, v>>>>,
    n1 |-> <<<<a, k>>, <<one, two>>>>,
    n2 |-> <<<<k, a>>>>],
   [main |-> <<>>, n1 |-> <<<<a, k>>>>, n2 |-> <<<<k, a>>>>]}

join(node, key, type, columns) ==
  [node |-> node, key |-> key, type |-> type, columns |-> columns, skipLines |-> 0]

columnJoin == [behavior |-> "columnJoin", op |-> "store", key |-> <<k>>, columns |-> All,
               joins |-> <<>>]

append(node, skip) ==
  [node |-> node, key |-> <<>>, type |-> "inner", columns |-> All, skipLines |-> skip]

sides ==
  {[columnJoin EXCEPT !.op = "load"],
   [columnJoin EXCEPT !.key = <<>>, !.joins = <<join("n2", <<k>>, "inner", All)>>],
   [columnJoin EXCEPT !.key = <<k, a>>, !.joins = <<join("n1", <<k, a>>, "outer", All),
                                                  join("n2", <<k, a>>, "left", All)>>],
   [columnJoin EXCEPT !.key = <<k, v>>, !.columns = {a}, !.op = "load",
                      !.joins = <<join("n1", <<k, a>>, "left", All)>>],
   [columnJoin EXCEPT !.columns = {k, v}, !.joins = <<join("n1", <<k>>, "inner", All)>>],
   [columnJoin EXCEPT !.columns = {a, b}, !.joins = <<join("n1", <<k>>, "inner", All)>>]}
  \union
  {[columnJoin EXCEPT !.joins = <<join("n1", <<k>>, t[1], All),
                                  join("n2", <<k>>, t[2], {a})>>] :
     t \in JoinTypes \X {"left", "outer", "antiLeft"}}
  \union
  {[columnJoin EXCEPT !.behavior = "append", !.op = o,
                      !.joins = <<append("n1", s), append("n2", 1)>>] :
     o \in {"load", "store"}, s \in {1, 3}}

partitions == {[key |-> k, skipSort |-> FALSE], [key |-> a, skipSort |-> TRUE]}

-----------------------------------------------------------------------------
\* Translations

text == [kind |-> "text", text |-> <<"x">>, names |-> <<>>]
around == [kind |-> "value", text |-> <<"y">>, names |-> <<>>]
builtIn == [kind |-> "builtIn", text |-> <<"md5">>, names |-> <<>>]
fromTwo == [kind |-> "value", text |-> <<"z">>, names |-> <<1, 2>>]

element(name) ==
  [name |-> name, translatedName |-> <<>>, valueTranslator |-> <<>>, valueDefault |-> <<>>,
   valueOverride |-> <<>>, valueSource |-> <<>>]

elements ==
  {element(2), [element(1) EXCEPT !.translatedName = <<3>>],
   [element(2) EXCEPT !.translatedName = <<3>>],
   [element(3) EXCEPT !.translatedName = <<2>>],
   [element(3) EXCEPT !.valueTranslator = <<around>>],
   [element(1) EXCEPT !.valueTranslator = <<builtIn>>, !.valueDefault = <<text>>],
   [element(1) EXCEPT !.valueDefault = <<builtIn>>],
   [element(3) EXCEPT !.valueOverride = <<text>>],
   [element(1) EXCEPT !.valueOverride = <<around>>, !.valueSource = <<2>>],
   [element(3) EXCEPT !.valueTranslator = <<around>>, !.valueSource = <<1>>,
                      !.valueDefault = <<builtIn>>],
   [element(3) EXCEPT !.valueOverride = <<fromTwo>>, !.valueSource = <<Several>>],
   [element(2) EXCEPT !.valueSource = <<1>>, !.valueDefault = <<text>>]}

translations ==
  {<<p, q>> : p \in elements, q \in elements}
    \union {<<p, q, s>> : p \in elements, q \in elements, s \in elements}

inputs ==
  {<<>>, 1 :> <<"p">>, 2 :> <<"q">>, 1 :> <<"p">> @@ 2 :> <<"q">>,
   1 :> <<"p">> @@ 2 :> <<"q">> @@ 3 :> <<"r">>}

-----------------------------------------------------------------------------
\* Computations

key(name, modify) == [name |-> name, modify |-> modify]

field(name, op, init, output, modify) ==
  [name |-> name, varName |-> name, op |-> op, init |-> init, output |-> output,
   modify |-> modify]

lines ==
  {<<>>, <<<<1, 5, 2, 1>>>>, <<<<1, 5, 2, 1>>, <<1, 6, 2, 1>>, <<2, 7, 2, 0>>>>,
   <<<<1, 5, 2, 1>>, <<3, 6, 2, 0>>, <<2, 7, 3, 1>>, <<1, 4, 2, 0>>>>}

aggregations ==
  [kind : {"aggregate", "sorted"}, header : {<<"a", "b", "c", "d">>, <<"a", "b", "c", "b">>},
   lines : lines,
   keys : {<<>>, <<key("a", "")>>, <<key("b", "half")>>, <<key("c", ""), key("a", "")>>, <<key("a", "half")>>,
           <<key("a", ""), key("b", "")>>, <<key("a", ""), key("a", "")>>},
   fields : {<<field("b", "sum", 1, "aggregate", "")>>,
             <<field("n", "count", 0, "aggregate", ""), field("d", "last", 0, "aggregate", "")>>,
             <<field("b", "sum", 0, "", "half"), field("n", "count", 2, "fixed", ""),
               field("d", "sum", 0, "aggregate", "")>>,
             <<field("n", "count", 0, "aggregate", ""), field("d", "sum", 0, "", "")>>},
   skipGroup : BOOLEAN, passed : {1 .. 4, {2}, {}}]

storedColumns ==
  [kind : {"columns"}, policy : Policies, required : {1 :> 11 @@ 2 :> 12, 2 :> 13 @@ 3 :> 11},
   header : {<<>>, <<2, 1>>, <<3, 2>>, <<1, 2, 2>>, <<1, 4, 3>>},
   lines : {<<>>, <<<<101, 102, 103>>, <<201, 202, 203>>>>},
   parameters : {<<>>, 1 :> 301, 2 :> 302, 1 :> 301 @@ 2 :> 302, 3 :> 303 @@ 2 :> 302}]

sideOf(forward, route, joins, tee) ==
  [forward |-> forward, route |-> route, joins |-> joins, tee |-> tee]

none == sideOf({}, {}, {}, {})

nodeOf(kind, read, write, delete) ==
  [kind |-> kind, read |-> read, write |-> write, delete |-> delete]

someNodes ==
  {nodeOf("proxy", sideOf(f, {}, {}, {}), none, none) : f \in {{}, {"x"}, {"w"}}}
  \union {nodeOf("proxy", sideOf({}, {}, {}, {"x"}), none, none),
          nodeOf("proxy", none, sideOf({"x"}, {}, {}, {}), sideOf({"y"}, {}, {}, {})),
          nodeOf("router", sideOf({"x"}, {"z"}, {}, {}), sideOf({}, {"y", "z"}, {}, {}), none),
          nodeOf("router", none, sideOf({}, {"x"}, {}, {}), sideOf({"z"}, {"x", "y"}, {}, {})),
          nodeOf("join", sideOf({}, {"x"}, {"z"}, {}), none, none),
          nodeOf("join", none, sideOf({}, {"x"}, {"z"}, {}), sideOf({}, {"y"}, {}, {})),
          nodeOf("join", sideOf({"y"}, {}, {}, {}), sideOf({}, {"z"}, {"y"}, {}), none)}

configurations == [kind : {"cycles"}, nodes : [{"x", "y", "z"} -> someNodes]]

computations == aggregations \union storedColumns \union configurations
=============================================================================
