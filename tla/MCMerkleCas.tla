---------------------------- MODULE MCMerkleCas ----------------------------
(* Instance of BranchPointers for TLC: two leaves; a body that holds both;  *)
(* and one that holds it together with a leaf that occurs twice.  The       *)
(* leaves agree: they stand for 1 and 1.0.                                  *)
EXTENDS BranchPointers
SharedSubtrees == << <<>>, <<>>, <<1, 2>>, <<1, 3, 1>> >>
LeavesAgree == {<<e, m, n>> \in Endpoints \X Nodes \X Nodes : m = n \/ {m, n} = {1, 2}}
=============================================================================
