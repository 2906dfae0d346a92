----------------------------- MODULE JsonValues -----------------------------
(***************************************************************************)
(* serde_json::Value (external) as far as masking and comparing look at it.*)
(* A value is a record that names its type.  An object is a function from  *)
(* its keys: the order of the keys is of no account.                       *)
(***************************************************************************)
EXTENDS Paths, FiniteSets

CONSTANT Nesting   \* how deep a body may nest: serde_json parses no deeper one (external)

ASSUME NestingAssumption == Nesting \in Nat

Null == [type |-> "null"]
Number(n) == [type |-> "number", num |-> n]
Text(s) == [type |-> "string", str |-> s]
Array(items) == [type |-> "array", items |-> items]
Object(fields) == [type |-> "object", fields |-> fields]

\* The values that a value holds, each with the segment that leads to it.
Children(v) ==
  CASE v.type = "object" -> {[segment |-> Key(k), value |-> v.fields[k]] : k \in DOMAIN v.fields}
    [] v.type = "array" -> {[segment |-> Index(i), value |-> v.items[i]] : i \in DOMAIN v.items}
    [] OTHER -> {}

\* A position is a path with the value there.
Position(path, v) == [path |-> path, value |-> v]
Below(p) == {Position(Append(p.path, c.segment), c.value) : c \in Children(p.value)}

\* The positions of a body, containers included; Levels(v)[n] has those at depth n.
Levels(v) ==
  LET level[n \in Nat] == IF n = 0 THEN {Position(<<>>, v)} ELSE UNION {Below(p) : p \in level[n - 1]}
  IN  level

Positions(v) == UNION {Levels(v)[n] : n \in 0..Nesting}

\* The value and all that it holds at any depth.
Values(v) == {p.value : p \in Positions(v)}

\* What a value of serde_json is, and what a body is that was parsed.
IsNode(v) ==
  CASE v.type = "object" ->
         /\ v = Object([k \in DOMAIN v.fields |-> v.fields[k]])
         /\ DOMAIN v.fields \subseteq STRING /\ IsFiniteSet(DOMAIN v.fields)
    [] v.type = "array" ->
         /\ v = Array(v.items)
         /\ v.items \in Seq({v.items[i] : i \in DOMAIN v.items})
    [] v.type = "number" -> v = Number(v.num) /\ v.num \in Int
    [] v.type = "string" -> v = Text(v.str)
    [] v.type = "boolean" -> v.bool \in BOOLEAN /\ v = [type |-> "boolean", bool |-> v.bool]
    [] OTHER -> v = Null

IsBody(v) == Levels(v)[Nesting + 1] = {} /\ \A x \in Values(v) : IsNode(x)
=============================================================================
