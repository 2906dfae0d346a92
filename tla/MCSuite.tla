------------------------------ MODULE MCSuite ------------------------------
(* Instances of Suite for TLC: two endpoints, each with a file of its own. *)
EXTENDS Suite
CONSTANTS b1, b2, b3
OwnFiles == [e \in Endpoints |-> e]
TwoBodies == {b1, b2}
ThreeBodies == {b1, b2, b3}
CloseBodies == {{b1, b2}}
=============================================================================
