---------------------------- MODULE MCListeners -----------------------------
(* Instance of Listeners for TLC: three clients, snapshots of two lengths.  *)
EXTENDS Listeners
Bounds == [capture |-> 2, sniff |-> 3, shadow |-> 2]
Restarts == [capture |-> 1, sniff |-> 0, shadow |-> 1]
Sizes == <<2, 1, 1>>
=============================================================================
