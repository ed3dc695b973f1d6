---------------------------- MODULE MCCampaigns ----------------------------
(***************************************************************************)
(* Campaigns that somebody keeps resuming, one part per behaviour: their   *)
(* locks (CampaignLock) with operators who follow the runbook, with some   *)
(* who do not, and their money (Campaign).  The variables of the other     *)
(* parts keep their first values.                                          *)
(***************************************************************************)
EXTENDS CampaignLock, Campaign

CONSTANTS
    Few             \* the processes of careless operators

VARIABLES
    part,
    \* the files of careless operators
    clock, clease, cguard, ckind, ctoken, cseen, cpc

carelessVars == <<clock, clease, cguard, ckind, ctoken, cseen, cpc>>
allVars == <<part, vars, carelessVars, campaignVars>>

Careless == INSTANCE CampaignLock WITH
    Processes <- Few, CarefulOperators <- FALSE,
    lock <- clock, lease <- clease, guard <- cguard, kind <- ckind,
    token <- ctoken, seen <- cseen, pc <- cpc

Purse(client, provider, sats) ==
    [client |-> client, provider |-> provider, evaluator |-> 700,
     authority |-> 700, sats |-> sats]
\* What executionFundingRequirements asks for.
Minimum == {Purse(3250, 400, 1000)}
\* Enough with a small top-up, and the minimum with satoshis to spare.
Sufficient == {Purse(4000, 1000, 2000), Purse(3250, 400, 2000)}

OfLock(A) == part = "lock" /\ A /\ UNCHANGED <<part, carelessVars, campaignVars>>
OfCareless(A) == part = "careless" /\ A /\ UNCHANGED <<part, vars, campaignVars>>
OfMoney(A) == part = "money" /\ A /\ UNCHANGED <<part, vars, carelessVars>>

CampaignsInit ==
    /\ part \in {"lock", "careless", "money"}
    /\ Init /\ Careless!Init /\ CampaignInit
    /\ part # "money" => purse = CHOOSE first \in Purses : TRUE

LockStep(p) ==
    \/ OfLock(Start(p))
    \/ OfLock(Campaign(p))
    \/ OfLock(TakeGuard(p))
    \/ OfLock(ReleaseGuard(p))
    \/ OfLock(Takeover(p))
    \/ OfLock(Execution(p))
    \/ OfLock(Crash(p))

CarelessStep(p) ==
    \/ OfCareless(Careless!Start(p))
    \/ OfCareless(Careless!Run(p))
    \/ OfCareless(Careless!Crash(p))

MoneyStep ==
    \/ OfMoney(Begin)
    \/ OfMoney(TakeLock)
    \/ OfMoney(Collect)
    \/ OfMoney(MarkStarted)
    \/ OfMoney(Complete)
    \/ OfMoney(Release)
    \/ OfMoney(Finish)
    \/ OfMoney(OpenReceipt)
    \/ OfMoney(ReadBalances)
    \/ OfMoney(PlanTopUp)
    \/ OfMoney(CheckFunds)
    \/ OfMoney(SkipTopUp)
    \/ OfMoney(Snapshot)
    \/ OfMoney(Sign)
    \/ OfMoney(BroadcastTransaction)
    \/ OfMoney(Confirm)
    \/ OfMoney(GiveUp)
    \/ OfMoney(CloseReceipt)
    \/ OfMoney(Killed)
    \/ OfMoney(Refuse)
    \/ \E a \in {"stx", "sbtc"} : OfMoney(Mine(a))
    \/ \E a \in {"stx", "sbtc"} : OfMoney(Lose(a))
    \/ \E amount \in Payments : OfMoney(PayElsewhere(amount))

CampaignsNext ==
    \/ MoneyStep
    \/ \E p \in Processes : LockStep(p)
    \/ \E p \in Few : CarelessStep(p)

\* The fairness of CampaignLock and of Campaign.
CampaignsFairness ==
    /\ \A p \in Few :
           /\ WF_allVars(OfCareless(Careless!Run(p)))
           /\ SF_allVars(OfCareless(Careless!Close(p)))
    /\ WF_allVars(OfMoney(Begin))
    /\ WF_allVars(OfMoney(Coordinate \/ Execute))
    /\ \A a \in {"stx", "sbtc"} : WF_allVars(OfMoney(Mine(a)))

CampaignsSpec ==
    CampaignsInit /\ [][CampaignsNext]_allVars /\ CampaignsFairness

\* Every process of a campaign ends, also when operators confirm live locks.
EveryLockEnds == part = "careless" => Careless!EveryRunEnds

\* A campaign that is resumed whenever it stops passes in the end.
CampaignCompletes == part = "money" => CompletesIfResumed
=============================================================================
