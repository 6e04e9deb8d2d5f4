----------------------------- MODULE MCDispatch -----------------------------
(* Instances of Dispatch for TLC: see the .cfg files.                      *)
EXTENDS Dispatch
=============================================================================
