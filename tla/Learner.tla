------------------------------ MODULE Learner -------------------------------
(***************************************************************************)
(* AdaptiveBaselineLearner (src/src/engine/learner.rs): what still varies  *)
(* between masked probes of an endpoint is proposed as a mask rule.        *)
(* `record --learn` only prints the proposals; the user may adopt them.    *)
(* A position is known by the text of its path, and a rule is what masking *)
(* reads in that text: a key that holds a dot or a bracket is read back as *)
(* other segments.                                                         *)
(***************************************************************************)
EXTENDS Masker, SequencesExt

CONSTANTS Written(_),  \* the text of a path
          Parsed(_),   \* the segments that parse_json_path_to_segments reads in a text
          Words(_)     \* the words of a text, between its dots

\* Mutant: values are told apart by their text, and a number has none.
Repr_TextOnly(v) == IF v.type = "string" THEN v ELSE Null

\* The text of a value tells values of different types apart.
Repr(v) == v

Containers == {"object", "array"}

\* collect_path_values: the leaves of all masked probes.
PathValues(probes, masking) ==
  UNION {{p \in Positions(MaskValue(probe, masking)) : p.value.type \notin Containers}
           : probe \in probes}

\* The texts of paths with more than one value.
UnstablePaths(probes, masking) ==
  LET leaves == PathValues(probes, masking)
      values(text) == {Repr(p.value) : p \in {q \in leaves : Written(q.path) = text}}
  IN  {text \in {Written(p.path) : p \in leaves} : Cardinality(values(text)) > 1}

\* The candidate rules, after the rules that there are.
CandidateRule(text) ==
  [path |-> Parsed(text), words |-> Words(text), replacement |-> "<MASKED_LEARNED_TOKEN>",
   matches |-> NoPattern]
Adopt(masking, texts) ==
  [masking EXCEPT !.rules = @ \o SetToSeq({CandidateRule(text) : text \in texts})]
=============================================================================
