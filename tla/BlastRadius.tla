---------------------------- MODULE BlastRadius -----------------------------
(***************************************************************************)
(* BlastRadiusCalculator (src/src/engine/blast_radius.rs): the consumers   *)
(* that a list of differences concerns.  A consumer is the set of the      *)
(* paths it consumes; the empty set stands for the whole body.             *)
(***************************************************************************)
EXTENDS Differ

\* Mutant: a removed field does not break anyone.
Critical_NotRemoved(d) == d.kind \in {"type", "length", "depth"}

Critical(d) == d.kind \in {"removed", "type", "length", "depth"}

\* What the differences trigger: only a path that is consumed itself counts, not one
\* above or below it.
Triggered(diffs, consumer) ==
  LET paths == {d.path : d \in diffs} IN IF consumer = {} THEN paths ELSE paths \cap consumer

Calculate(diffs, consumers) ==
  {[consumer |-> c,
    paths |-> Triggered(diffs, c),
    critical |-> Triggered({d \in diffs : Critical(d)}, c) # {}]
     : c \in {x \in consumers : Triggered(diffs, x) # {}}}
=============================================================================
