------------------------------- MODULE Nothing -------------------------------
(***************************************************************************)
(* The null of the application's modules: what is not there, or not yet.   *)
(***************************************************************************)
CONSTANT NOTHING
=============================================================================
