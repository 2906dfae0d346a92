-------------------------- MODULE SnapshotRegister --------------------------
(***************************************************************************)
(* What a snapshot file promises its readers: one register that holds no   *)
(* snapshot or a whole one, and that only ever moves from one whole        *)
(* snapshot to a newer whole one - except that a power loss may take it    *)
(* back to what had settled, a whole snapshot that it held before.         *)
(* Versions are the writes of one snapshot numbered in the order they      *)
(* began; 0 stands for "not found".                                        *)
(***************************************************************************)
EXTENDS Naturals

CONSTANT MaxWrites  \* the number of versions

VARIABLES stored,   \* the version a reader gets
          settled   \* the version a reader would get after a power loss

Init == stored = 0 /\ settled = 0

Put == \E v \in 1..MaxWrites : v > stored /\ stored' = v /\ UNCHANGED settled

Settle == settled' = stored /\ UNCHANGED stored

Lose == stored' = settled /\ UNCHANGED settled

Spec == Init /\ [][Put \/ Settle \/ Lose]_<<stored, settled>>
=============================================================================
