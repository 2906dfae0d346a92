------------------------------- MODULE Differ -------------------------------
(***************************************************************************)
(* compare_json_ast (src/src/engine/differ.rs): the differences between a  *)
(* stored and an actual body.  The list of differences is a set here, and  *)
(* a difference is its kind, its path, and the values it names.            *)
(*                                                                         *)
(* The options are a record: epsilon (float_epsilon), setPaths (the paths  *)
(* with array mode "set"), nfc (normalize_unicode_keys) and maxDepth.      *)
(***************************************************************************)
EXTENDS JsonValues, SetMatching

CONSTANT Nfc(_)   \* the NFC form of a key (external)

Nothing == [type |-> "nothing"]
Difference(kind, path, old, new) ==
  [kind |-> kind, path |-> path, old |-> old, new |-> new]

\* The fields under their normalised keys.  Two keys of one object with the same
\* normal form are left to the choice of an order that is not modelled.
Normalized(fields, options) ==
  IF ~options.nfc THEN fields
  ELSE [k \in {Nfc(x) : x \in DOMAIN fields} |->
          fields[CHOOSE x \in DOMAIN fields : Nfc(x) = k]]

\* Mutant: numbers at the tolerance are told apart.
Close_Strictly(e, a, options) ==
  LET distance == IF e.num < a.num THEN a.num - e.num ELSE e.num - a.num
  IN  e.num = a.num \/ distance < options.epsilon

\* Numbers agree up to the tolerance.
Close(e, a, options) ==
  LET distance == IF e.num < a.num THEN a.num - e.num ELSE e.num - a.num
  IN  distance <= options.epsilon

\* The calls of diff_recursive for two bodies.  Below, `diff` has for each call the
\* differences that it finds.
Call(e, a, path, depth) == [expected |-> e, actual |-> a, path |-> path, depth |-> depth]
Calls(e, a) == [expected : Values(e), actual : Values(a), path : Path, depth : Nat]

\* Removed keys, added keys, and the differences below the common keys.
DiffObjects(diff, c, options) ==
  LET old == Normalized(c.expected.fields, options)
      new == Normalized(c.actual.fields, options)
      At(k) == Append(c.path, Key(k))
  IN  {Difference("removed", At(k), old[k], Nothing) : k \in DOMAIN old \ DOMAIN new}
      \cup {Difference("added", At(k), Nothing, new[k]) : k \in DOMAIN new \ DOMAIN old}
      \cup UNION {diff[Call(old[k], new[k], At(k), c.depth + 1)]
                    : k \in DOMAIN old \cap DOMAIN new}

\* Position by position.  What a longer stored array holds in addition is told
\* by the lengths alone.
DiffOrdered(diff, c) ==
  LET old == c.expected.items
      new == c.actual.items
      n == Len(old)
      m == Len(new)
      At(i) == Append(c.path, Index(i))
  IN  (IF n # m THEN {Difference("length", c.path, c.expected, c.actual)} ELSE {})
      \cup {Difference("added", At(i), Nothing, new[i]) : i \in (n + 1)..m}
      \cup UNION {diff[Call(old[i], new[i], At(i), c.depth + 1)] : i \in 1..(IF n < m THEN n ELSE m)}

\* Mutant: an item of the actual array may be matched again.
DiffAsSet_Reuses(diff, c) ==
  LET old == c.expected.items
      new == c.actual.items
      Fits(i, j) == diff[Call(old[i], new[j], c.path, c.depth + 1)] = {}
      At == Append(c.path, AnyIndex)
  IN  {Difference("removed", At, old[i], Nothing) :
         i \in {k \in DOMAIN old : \A j \in DOMAIN new : ~Fits(k, j)}}
      \cup {Difference("added", At, Nothing, new[j]) :
              j \in {k \in DOMAIN new : \A i \in DOMAIN old : ~Fits(i, k)}}

\* Items are compared under the path of the array itself.
DiffAsSet(diff, c) ==
  LET old == c.expected.items
      new == c.actual.items
      n == Len(old)
      m == Len(new)
      fits == {q \in (1..n) \X (1..m) : diff[Call(old[q[1]], new[q[2]], c.path, c.depth + 1)] = {}}
      match == Match(fits, n, m)
      At == Append(c.path, AnyIndex)
  IN  {Difference("removed", At, old[i], Nothing) : i \in Missing(match)}
      \cup {Difference("added", At, Nothing, new[j]) : j \in Surplus(match, m)}

\* diff_recursive: what one call finds, with what the calls that it makes find.
DiffCall(diff, c, options) ==
  LET e == c.expected
      a == c.actual
      One(kind) == {Difference(kind, c.path, e, a)}
  IN  CASE c.depth > options.maxDepth -> One("depth")
        [] c.depth <= options.maxDepth /\ e.type # a.type -> One("type")
        [] OTHER ->
           CASE e.type = "object" -> DiffObjects(diff, c, options)
             [] e.type = "array" /\ c.path \in options.setPaths -> DiffAsSet(diff, c)
             [] e.type = "array" /\ c.path \notin options.setPaths -> DiffOrdered(diff, c)
             [] e.type = "number" -> IF Close(e, a, options) THEN {} ELSE One("modified")
             [] OTHER -> IF e = a THEN {} ELSE One("modified")

Diff(e, a, options) == LET diff[c \in Calls(e, a)] == DiffCall(diff, c, options) IN diff

\* compare_json_ast, with the bypass for equal bodies.
CompareJsonAst(e, a, options) ==
  IF e = a THEN {} ELSE Diff(e, a, options)[Call(e, a, <<>>, 0)]
=============================================================================
