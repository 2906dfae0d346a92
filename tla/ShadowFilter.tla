---------------------------- MODULE ShadowFilter ----------------------------
(***************************************************************************)
(* structurally_drifted (src/src/wasm/shadow_filter.rs): the shadow        *)
(* proxy's comparison of two answers, by their containers alone.           *)
(***************************************************************************)
EXTENDS JsonValues

\* Below, `drifted` tells for each two parts of the answers whether they have drifted.

\* Mutant: only the length of the baseline's array counts.
ArraysDrifted_Prefix(drifted, a, b) ==
  \/ Len(a.items) > Len(b.items)
  \/ \E i \in DOMAIN a.items \cap DOMAIN b.items : drifted[<<a.items[i], b.items[i]>>]

ArraysDrifted(drifted, a, b) ==
  \/ Len(a.items) # Len(b.items)
  \/ \E i \in DOMAIN a.items : drifted[<<a.items[i], b.items[i]>>]

ObjectsDrifted(drifted, a, b) ==
  \/ DOMAIN a.fields # DOMAIN b.fields
  \/ \E k \in DOMAIN a.fields : drifted[<<a.fields[k], b.fields[k]>>]

DriftedCall(drifted, a, b) ==
  CASE a.type = "object" /\ b.type = "object" -> ObjectsDrifted(drifted, a, b)
    [] a.type = "array" /\ b.type = "array" -> ArraysDrifted(drifted, a, b)
    [] OTHER -> a.type # b.type /\ {a.type, b.type} \cap {"object", "array"} # {}

Drifted(a, b) ==
  LET drifted[q \in Values(a) \X Values(b)] == DriftedCall(drifted, q[1], q[2]) IN drifted
StructurallyDrifted(a, b) == Drifted(a, b)[<<a, b>>]
=============================================================================
