------------------------------ MODULE MCOpenApi -----------------------------
(* Instance of OpenApi for TLC: a first endpoint with bodies of many kinds and *)
(* a second with few, which may have the same operation.                       *)
EXTENDS OpenApi

NfcOf(k) == k
Labels == [u |-> "<MASKED_UUID>", m |-> "<MASKED_EMAIL>"]
Times == {"t"}
EpochNumbers == {9}
FormatOf == [mask \in {"<MASKED_UUID>", "<MASKED_EMAIL>"} |->
               IF mask = "<MASKED_UUID>" THEN "uuid" ELSE "email"]
Half == {5}
Options == [rules |-> <<>>, heuristics |-> TRUE, strict |-> FALSE, allowed |-> {}, maxDepth |-> 4]

MCConfigs == {<<"r1", "r2">>, <<"r1", "r1">>}
One(x) == Object([a |-> x])
FirstBodies ==
  {One(x) : x \in {Null, Number(1), Number(5), Text("u"), Text("m"), Array(<<>>),
                   Array(<<Number(1), Number(2)>>), Array(<<Number(1), Text("s")>>),
                   Array(<<Array(<<Number(1)>>), Array(<<Text("s")>>)>>)}}
  \cup {Object([t |-> Number(9)]), Object([t |-> Text("s")]), Object([t |-> Number(9), a |-> One(Null)])}
OK(bodies) == {[body |-> b, status |-> "200"] : b \in bodies}
MCAnswers == <<OK(FirstBodies) \cup {[body |-> One(Null), status |-> "404"]},
               OK({One(Number(1)), Text("s")})>>
MCSupplied ==
  {[r \in {"r1"} |-> [s \in {"default"} |-> [type |-> "object", fields |-> [a |-> AnyValue]]]]}
=============================================================================
