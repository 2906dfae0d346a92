-------------------------- MODULE MCSnapshotStore ---------------------------
(* Instance of SnapshotStore for TLC: four writes of different lengths, so *)
(* that a shorter payload can be laid over a longer one and the reverse.    *)
EXTENDS SnapshotStore
Sizes == <<1, 2, 1, 3>>
=============================================================================
