------------------------------- MODULE Masker -------------------------------
(***************************************************************************)
(* mask_value (src/src/engine/masker.rs) over the matcher of its rules.    *)
(*                                                                         *)
(* A rule is a record: its path, the text that replaces what it covers,    *)
(* and `matches`, the texts its pattern matches: a rule without a pattern  *)
(* has NoPattern, and one whose pattern does not compile matches nothing.  *)
(***************************************************************************)
EXTENDS JsonValues, RuleMatcher

CONSTANTS Recognised,  \* the texts the built-in heuristics recognise, with their mask
          TimeKeys,    \* the keys that hint at a time
          Epochs       \* the numbers of 10 or 13 digits

NoPattern == {"no pattern"}
Redacted == Text("<REDACTED>")
TooDeep == Text("<DEPTH_EXCEEDED>")

\* apply_custom_rule.
Apply(rule, v) ==
  CASE rule.matches = NoPattern -> Text(rule.replacement)
    [] rule.matches # NoPattern /\ v.type = "string" /\ v.str \in rule.matches ->
         Text(rule.replacement)
    [] OTHER -> v

\* The built-in heuristics, for texts and for times in numbers.
MaskLeaf(v, parent, masking) ==
  CASE ~masking.heuristics -> v
    [] masking.heuristics /\ v.type = "string" /\ v.str \in DOMAIN Recognised ->
         Text(Recognised[v.str])
    [] masking.heuristics /\ v.type = "number" /\ v.num \in Epochs /\ parent \in TimeKeys ->
         Text("<MASKED_EPOCH>")
    [] OTHER -> v

IsLeaf(v) == v.type \in {"string", "number", "boolean"}

\* The calls of mask_recursive for a body.  Below, `mask` has for each call what it
\* makes of the value.
MaskingOf(v, path, parent, depth) == [value |-> v, path |-> path, parent |-> parent, depth |-> depth]
Maskings(v) == [value : Values(v), path : Path, parent : {"$"} \cup STRING, depth : Nat]

MaskFields(mask, c) ==
  [k \in DOMAIN c.value.fields |->
     mask[MaskingOf(c.value.fields[k], Append(c.path, Key(k)), k, c.depth + 1)]]

\* Mutant: the items of an array have no key for their parent.
MaskItems_NoParent(mask, c) ==
  [i \in DOMAIN c.value.items |->
     mask[MaskingOf(c.value.items[i], Append(c.path, Index(i)), "$", c.depth + 1)]]

\* An item of an array has the key of the array for its parent.
MaskItems(mask, c) ==
  [i \in DOMAIN c.value.items |->
     mask[MaskingOf(c.value.items[i], Append(c.path, Index(i)), c.parent, c.depth + 1)]]

\* mask_recursive: what one call makes of its value, with what the calls that it
\* makes do.
MaskCall(mask, c, masking) ==
  LET rule == RuleFor(masking.rules, c.path)
  IN  CASE c.depth > masking.maxDepth -> TooDeep
        [] c.depth <= masking.maxDepth /\ rule # 0 -> Apply(masking.rules[rule], c.value)
        [] c.depth <= masking.maxDepth /\ rule = 0 /\ masking.strict /\ IsLeaf(c.value)
             /\ c.path \notin masking.allowed -> Redacted
        [] OTHER ->
           CASE c.value.type = "object" -> Object(MaskFields(mask, c))
             [] c.value.type = "array" -> Array(MaskItems(mask, c))
             [] OTHER -> MaskLeaf(c.value, c.parent, masking)

Mask(v, masking) == LET mask[c \in Maskings(v)] == MaskCall(mask, c, masking) IN mask

MaskValue(v, masking) == Mask(v, masking)[MaskingOf(v, <<>>, "$", 0)]
=============================================================================
