--------------------------- MODULE MCSbtcCommerce ---------------------------
(***************************************************************************)
(* Small instances of SbtcCommerce: two tokens, a fixed cast, and only the *)
(* actions a question is about, as in MCAgenticCommerce.                   *)
(***************************************************************************)
EXTENDS SbtcCommerce, TLC

CONSTANTS Authority, Treasury, Client, Provider, Evaluator, ClientFunds,
          Flaky, Picky, \* a token that may refuse recipients, and those
          SubmitHorizon \* as in MCAgenticCommerce

MCInitialBalances ==
    [token \in Tokens |-> [p \in Principals |->
        CASE p = Client -> ClientFunds [] p = Treasury -> 1 [] OTHER -> 0]]

Setup ==
    /\ UNCHANGED tokenVars
    /\ \E w \in AppealWindows :
        Lifecycle!InitializeProtocol(Deployer, w, Authority, Treasury)

HiringByCast ==
    \/ CreateJob(Client, Provider, Evaluator, 1)
    \/ \E j \in JobIds :
        \/ \E amount \in Budgets : SetBudget(Client, j, amount)
        \/ \E token \in Tokens : FundJob(Client, j, token)
        \/ AssignProvider(Client, j, Provider)
        \/ burnHeight <= SubmitHorizon /\ SubmitWork(Provider, j)

CastNext ==
    \/ Setup
    \/ \E token \in Tokens : SetPaymentToken(Deployer, token)
    \/ HiringByCast
    \/ \E sender \in {Client, Provider, Evaluator, Authority} : Judging(sender)
    \/ \E j \in JobIds, token \in Tokens : Permissionless(Client, j, token)
    \/ \E sender \in {Client, Treasury} : Aftermath(sender)
    \/ AdvanceBlocks
    \/ \E p \in Picky : TokenPolicy(Flaky, p)

CastSpec == Init /\ [][CastNext]_vars

\* The registry may list the escrow before the first job; the client sends a gift.
OneJobNext ==
    \/ CastNext
    \/ \E amount \in ExternalAmounts :
           ExternalTransfer(Client, Escrow, amount, Flaky)
    \/ RegistryStep(RegistryDeployer) /\ protocolCallers'[Escrow]
       /\ ~protocolCallers[Escrow] /\ jobs = EmptyMap

OneJobSpec == Init /\ [][OneJobNext]_vars /\ Fairness

=============================================================================
