----------------------------- MODULE MCDispatch -----------------------------
(* Instance of Dispatch for TLC: up to 4 endpoints, 2 slots, panics.       *)
EXTENDS Dispatch
=============================================================================
