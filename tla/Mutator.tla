------------------------------ MODULE Mutator -------------------------------
(***************************************************************************)
(* generate_mutations (src/src/fuzz/mutator.rs): the bodies that `fuzz`    *)
(* sends in place of an endpoint's request body, each with what it changes *)
(* and where.  A target is found again by its path's TEXT: a key that      *)
(* holds a dot or a bracket is read back as other segments (Split).        *)
(***************************************************************************)
EXTENDS JsonValues, SequencesExt

CONSTANTS Split(_),  \* the segments that parse_json_path reads in a key
          Largest    \* the largest number that is tried

ASSUME MutatorAssumption == Largest \in Nat

\* parse_json_path.
Segments(path) ==
  FlattenSeq([i \in DOMAIN path |-> IF IsKey(path[i]) THEN Split(path[i].key) ELSE <<path[i]>>])

\* A part of the body, and how many segments of the path are behind.  Below, `replace`
\* and `remove` have for each of them what the call makes of the part.
Edit(v, n) == [value |-> v, behind |-> n]
Edits(v, segments) == [value : Values(v), behind : 0..Len(segments)]

\* Mutant: items are counted from the end of the array.
ReplaceItem_FromEnd(replace, v, i, n) ==
  Array([v.items EXCEPT ![Len(v.items) + 1 - i] = replace[Edit(@, n)]])

ReplaceItem(replace, v, i, n) == Array([v.items EXCEPT ![i] = replace[Edit(@, n)]])

ReplaceCall(replace, q, segments, new) ==
  LET v == q.value
      n == q.behind
      s == segments[n + 1]
  IN  CASE n = Len(segments) -> new
        [] n # Len(segments) /\ IsKey(s) /\ v.type = "object" /\ s.key \in DOMAIN v.fields ->
             Object([v.fields EXCEPT ![s.key] = replace[Edit(@, n + 1)]])
        [] n # Len(segments) /\ IsKey(s) /\ v.type = "object" /\ s.key \notin DOMAIN v.fields
             /\ n + 1 = Len(segments) ->
             Object([k \in DOMAIN v.fields \cup {s.key} |-> IF k = s.key THEN new ELSE v.fields[k]])
        [] n # Len(segments) /\ IsIndex(s) /\ v.type = "array" /\ s.index \in DOMAIN v.items ->
             ReplaceItem(replace, v, s.index, n + 1)
        [] OTHER -> v

\* replace_path_in_ast: a last key is inserted where there is none; on a path that
\* leads nowhere nothing is replaced.
Replacing(v, segments, new) ==
  LET replace[q \in Edits(v, segments)] == ReplaceCall(replace, q, segments, new) IN replace
Replace(v, segments, new) == Replacing(v, segments, new)[Edit(v, 0)]

RemoveCall(remove, q, segments) ==
  LET v == q.value
      n == q.behind
      s == segments[n + 1]
      last == n + 1 = Len(segments)
  IN  CASE n # Len(segments) /\ IsKey(s) /\ v.type = "object" /\ last ->
             Object([k \in DOMAIN v.fields \ {s.key} |-> v.fields[k]])
        [] n # Len(segments) /\ IsKey(s) /\ v.type = "object" /\ s.key \in DOMAIN v.fields /\ ~last ->
             Object([v.fields EXCEPT ![s.key] = remove[Edit(@, n + 1)]])
        [] n # Len(segments) /\ IsIndex(s) /\ v.type = "array" /\ s.index \in DOMAIN v.items /\ last ->
             Array(RemoveAt(v.items, s.index))
        [] n # Len(segments) /\ IsIndex(s) /\ v.type = "array" /\ s.index \in DOMAIN v.items /\ ~last ->
             Array([v.items EXCEPT ![s.index] = remove[Edit(@, n + 1)]])
        [] OTHER -> v

\* remove_path_in_ast; the path of a field ends in a key.
Removing(v, segments) ==
  LET remove[q \in Edits(v, segments)] == RemoveCall(remove, q, segments) IN remove
RemovePath(v, segments) == Removing(v, segments)[Edit(v, 0)]

TextProbes == {Text("sqli"), Text("xss"), Text(""), Text("oversized")}
NumberProbes == {Number(Largest), Number(-1), Number(0)}
EmptyObject == Object([k \in {} |-> Null])

\* What takes the place of a value by its own kind.
Probes(v) ==
  CASE v.type = "string" -> TextProbes
    [] v.type = "number" -> NumberProbes
    [] v.type = "array" -> {Array(<<>>)}
    [] OTHER -> {}

Case(change, path, new, body) == [change |-> change, path |-> path, new |-> new, body |-> body]

GenerateMutations(baseline) ==
  LET at == Positions(baseline)
      fields == {p \in at : p.path # <<>> /\ IsKey(Last(p.path))}
      Put(path, new) == Case("replaced", path, new, Replace(baseline, Segments(path), new))
  IN  {Case("payload", <<>>, new, new) : new \in {Null, EmptyObject}}
      \cup {Case("missing", p.path, Null, RemovePath(baseline, Segments(p.path))) : p \in fields}
      \cup {Put(p.path, Null) : p \in fields}
      \cup UNION {{Put(p.path, new) : new \in Probes(p.value)} : p \in at}
=============================================================================
