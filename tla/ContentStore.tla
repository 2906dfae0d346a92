---------------------------- MODULE ContentStore ----------------------------
(***************************************************************************)
(* What the content-addressed store promises: a set of nodes that grows,   *)
(* each added once and only after everything it refers to, so that a node  *)
(* that is present can be reconstructed - until a power loss, which may    *)
(* take any of them.  What is added later still comes after what it refers *)
(* to.                                                                     *)
(***************************************************************************)
EXTENDS Naturals, Sequences

CONSTANT Children   \* Children[n]: the hashes that node n stores, in order

VARIABLES stored,   \* the nodes that are present
          losses    \* the power losses so far

contentVars == <<stored, losses>>

ChildrenOf(n) == {Children[n][i] : i \in DOMAIN Children[n]}

ContentInit == stored = {} /\ losses = 0

Add(n) ==
  /\ n \notin stored
  /\ ChildrenOf(n) \subseteq stored
  /\ stored' = stored \cup {n}
  /\ UNCHANGED losses

Lose ==
  /\ losses' = losses + 1
  /\ stored' \in SUBSET stored

ContentNext == Lose \/ \E n \in DOMAIN Children : Add(n)

ContentSpec == ContentInit /\ [][ContentNext]_contentVars
=============================================================================
