------------------------------- MODULE Paths --------------------------------
(***************************************************************************)
(* PathSegment (src/src/engine/masker.rs): a position in a body, or a      *)
(* rule's path, is the sequence of the segments that lead to it.           *)
(***************************************************************************)
EXTENDS Integers, Sequences

\* `.k`, `[i]` (from 1 here) and, in rules, `[*]`.
Key(k) == [key |-> k]
Index(i) == [index |-> i]
AnyIndex == [any |-> "[*]"]
IsKey(segment) == DOMAIN segment = {"key"}
IsIndex(segment) == DOMAIN segment = {"index"}

Segment == [key : STRING] \cup [index : Nat] \cup {AnyIndex}
Path == Seq(Segment)

\* The keys of a path.
KeysIn(path) == {path[i].key : i \in {j \in DOMAIN path : IsKey(path[j])}}

KeysOnly(path) == \A i \in DOMAIN path : IsKey(path[i])
=============================================================================
