--------------------------- MODULE MCMatchRegistry ---------------------------
(* Instances of MatchRegistry for TLC: two keys, a string, an integer and   *)
(* the wildcard, handlers with one or two keys and values, with and without *)
(* remove_key and a schema.                                                 *)
EXTENDS MatchRegistry, TLC

CONSTANTS c1, c2

TwoConns == {c1, c2}

Str(v) == [kind |-> "str", v |-> v]
Int(v) == [kind |-> "int", v |-> v]
Other  == [kind |-> "other", v |-> 0]
Wild    == [kind |-> "any", v |-> 0]

Spec1(keys, values, schemaGiven, removeKey) ==
  [keys |-> keys, values |-> values, schema |-> schemaGiven, remove_key |-> removeKey]

SomeSpecs ==
  { Spec1(<<"a">>, <<Str(1)>>, FALSE, FALSE),
    Spec1(<<"a">>, <<Wild>>, TRUE, TRUE),
    Spec1(<<"b">>, <<Str(1), Int(1)>>, FALSE, FALSE),
    Spec1(<<"b", "a">>, <<Str(1), Wild>>, FALSE, TRUE),
    Spec1(<<"b">>, <<Wild>>, FALSE, FALSE),
    Spec1(<< >>, << >>, FALSE, FALSE),
    Spec1(<< >>, << >>, TRUE, FALSE) }

SomeDocs ==
  { "a" :> Str(1), "a" :> Int(1), "b" :> Int(1), "b" :> Other,
    ("a" :> Str(1)) @@ ("b" :> Str(1)), ("a" :> Other) @@ ("b" :> Int(1)) }

SomeValid == { "b" :> Int(1), "a" :> Str(1) }
=============================================================================
