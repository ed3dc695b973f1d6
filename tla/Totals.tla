------------------------------- MODULE Totals -------------------------------
(***************************************************************************)
(* Sums over a map, of which some keys count.                              *)
(***************************************************************************)
EXTENDS FiniteSetsExt

Total(map, keys) == MapThenSumSet(LAMBDA key : map[key], keys)
=============================================================================
