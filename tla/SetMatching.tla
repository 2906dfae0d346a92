---------------------------- MODULE SetMatching -----------------------------
(***************************************************************************)
(* diff_array_as_set (src/src/engine/differ.rs): how the stored items of   *)
(* an array in mode "set" find their partners among the actual ones.  The  *)
(* items are their positions, and `fits` has the pairs without a           *)
(* difference: <<i, j>> for stored item i of n and actual item j of m.     *)
(***************************************************************************)
EXTENDS Integers, Sequences, FiniteSets, FiniteSetsExt

\* Left(fits, m, taken, i): the actual items that fit item i and that none of the
\* items before it has taken.
Left(fits, m, taken, i) ==
  {j \in 1..m : <<i, j>> \in fits /\ \A k \in 1..(i - 1) : taken[k] # j}

\* Taken(fits, n, m)[i]: what the first i stored items have taken, each the first
\* that is left; 0 for an item without a partner.
Taken(fits, n, m) ==
  LET upTo[i \in 0..n] ==
        IF i = 0 THEN <<>>
        ELSE LET left == Left(fits, m, upTo[i - 1], i)
             IN  Append(upTo[i - 1], IF left = {} THEN 0 ELSE Min(left))
  IN  upTo

Match(fits, n, m) == Taken(fits, n, m)[n]

\* There is a way to pair each stored item with an actual one of its own, and none
\* is left over.
CanPair(fits, n, m) ==
  /\ n = m
  /\ \E pairing \in [1..n -> 1..m] :
       /\ \A i, k \in 1..n : pairing[i] = pairing[k] => i = k
       /\ \A i \in 1..n : <<i, pairing[i]>> \in fits

\* The stored items that have no partner, and the actual items that none has taken.
Missing(match) == {i \in DOMAIN match : match[i] = 0}
Surplus(match, m) == {j \in 1..m : \A i \in DOMAIN match : match[i] # j}
=============================================================================
