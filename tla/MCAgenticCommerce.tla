------------------------- MODULE MCAgenticCommerce -------------------------
(***************************************************************************)
(* Small instances of AgenticCommerce.  Each specification below keeps the *)
(* actions of Next that its question is about and, where that makes the    *)
(* state space finite enough, fixes who plays which part; the guards and   *)
(* the effects are those of AgenticCommerce.                               *)
(***************************************************************************)
EXTENDS AgenticCommerce, TLC

CONSTANTS
    Authority, Treasury, Client, Provider, Evaluator, \* the cast
    Understudy,     \* a second provider, or a second authority
    ClientFunds,    \* what the client starts with
    ExpiryHeights,  \* the expired-at values a client picks
    SubmitHorizon   \* the last burn height at which work is submitted, so early
                    \* that the bound on the heights does not leave a job
                    \* undecided: all deadlines (one review and two appeal
                    \* windows later) are below MaxBurnHeight

MCInitialSTX ==
    [p \in Principals |-> CASE p = Client -> ClientFunds
                            [] p = Treasury -> 1
                            [] OTHER -> 0]

-----------------------------------------------------------------------------
(* The whole life of a job, with a fixed cast.                             *)

Setup == \E w \in AppealWindows :
             InitializeProtocol(Deployer, w, Authority, Treasury)

Listing ==
    \/ RegistryStep(RegistryDeployer) /\ protocolCallers' # protocolCallers
       /\ \A p \in Principals \ {Escrow} : ~protocolCallers'[p]

HiringByCast ==
    \/ \E p \in {NONE, Provider}, expiredAt \in ExpiryHeights :
           CreateJob(Client, p, Evaluator, expiredAt)
    \/ \E j \in JobIds :
        \/ \E amount \in Budgets : SetBudget(Client, j, amount)
        \/ FundJob(Client, j)
        \/ \E p \in {Provider, Understudy} : AssignProvider(Client, j, p)
        \/ \E p \in {Provider, Understudy} :
               burnHeight <= SubmitHorizon /\ SubmitWork(p, j)

=============================================================================
