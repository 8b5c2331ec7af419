-------------------------- MODULE MCActionDispatch --------------------------
(* Two dispatches, the monitors of two replicas. *)
EXTENDS ActionDispatch

CONSTANTS d1, d2, m1, m2
=============================================================================
