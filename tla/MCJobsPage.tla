---------------------------- MODULE MCJobsPage ----------------------------
(* The terms of the jobs that a tab of JobsPage starts with, one per stage. *)
EXTENDS JobsPage

Terms(status, provider, budget, decision) ==
    [status |-> status, provider |-> provider, budget |-> budget,
     decision |-> decision]
Hiring == [stx |-> Terms(OPEN, Provider, 50, 0), sbtc |-> Terms(OPEN, Provider, 100, 0)]
MCWorlds == {Hiring}
=============================================================================
