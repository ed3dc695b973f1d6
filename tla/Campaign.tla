------------------------------ MODULE Campaign ------------------------------
(***************************************************************************)
(* scripts/run-service-fee-mainnet-e2e-campaign.mjs: one campaign of two   *)
(* end-to-end executions, first STX and then sBTC, under two caps that are *)
(* of the whole campaign: what it may give the provider for gas, and what  *)
(* it may pay in network fees.  The coordinator keeps a manifest and runs  *)
(* one executor (e2e-service-fee-mainnet.mjs) after the other, each with   *)
(* what is left of the caps and a receipt of its own; whatever stops is    *)
(* started again by an operator with the same paths.                       *)
(*                                                                         *)
(* An executor is here what it does with money: its funds checks, its      *)
(* top-up and the fees of its eight calls, which succeed when they are     *)
(* mined (ServiceFeeCases has what they do to the job).  CampaignLock has  *)
(* the lock, which only its presence stands for: one process at a time.    *)
(* Sums are in thousands of micro-STX, and in satoshis.                    *)
(***************************************************************************)
EXTENDS Integers, Sequences, FiniteSets, Totals

CONSTANTS
    NONE,
    Purses,         \* the balances a campaign may start with
    Payments,       \* amounts the provider's owner may pay somebody else
    MaxMishaps,     \* bound: crashes, lost transactions, refusals of a node
    MaxPayments     \* bound: such payments

VARIABLES
    manifest,       \* NONE, or the campaign's manifest
    receipts,       \* asset -> its receipt, or NONE
    locked,         \* the campaign's lock is there
    stage, asset,      \* where the process is, and with which asset
    view, needed,   \* balances and providerRequired, as the executor read them
    step,           \* the operation of the executor, 0 for the top-up
    sent,           \* asset -> what became of its last transaction
    purse,          \* the balances
    given, paid,    \* what was given to the provider, and paid in fees
    mishaps, payments

fileVars == <<manifest, receipts, locked>>
runVars == <<stage, asset, view, needed, step>>
chainVars == <<sent, purse, given, paid>>
boundVars == <<mishaps, payments>>
campaignVars == <<fileVars, runVars, chainVars, boundVars>>

MAX_CAMPAIGN_TOP_UP == 900
MAX_CAMPAIGN_NETWORK_FEES == 3500
CALL_FEE == 200
TOP_UP_TRANSFER_FEE == 150
Reserve ==
    [client |-> 500, provider |-> 500, evaluator |-> 300, authority |-> 300]

Assets == {"stx", "sbtc"}
Before(a) == IF a = "stx" THEN {} ELSE {"stx"}

\* Who signs the eight calls of an execution, in their order.
Signers == <<"client", "client", "client", "client", "provider", "evaluator",
             "provider", "authority">>
TOP_UP == 0
FUND == 3
RESOLVE == 8
Calls == 1..RESOLVE
Operations == 0..RESOLVE

\* 100,000 micro-STX of which the provider gets 98 %, or 1,000 satoshis.
BUDGET == 100
NET == 98
SATS == 1000

\* Whose balances there are, with the client's satoshis; what a receipt keeps.
Holders == {"client", "provider", "evaluator", "authority", "sats"}
Receipts ==
    [result : {"running", "passed"}, left : [topUp : Int, fees : Int],
     clean : BOOLEAN, topUp : Nat \cup {NONE}, transactions : SUBSET Operations,
     before : Int \cup {NONE}, fees : Nat \cup {NONE}]

\* null is no amount and no receipt.
ASSUME NoneAssumption == NONE \notin Nat /\ NONE \notin Receipts
ASSUME PursesAssumption == Purses \subseteq [Holders -> Int]
ASSUME PaymentsAssumption == Payments \subseteq Int

-----------------------------------------------------------------------------
(* The manifest and the receipts *)

TopUps(assets) == Total([a \in assets |-> receipts[a].topUp], assets)
Fees(assets) == Total([a \in assets |-> receipts[a].fees], assets)

\* What is left of the caps for an asset, after the receipts before it.
FeesLeft(a) == MAX_CAMPAIGN_NETWORK_FEES - Fees(Before(a))

Left_Whole(a) ==                                                    \* mutant
    [topUp |-> MAX_CAMPAIGN_TOP_UP, fees |-> FeesLeft(a)]
Left(a) ==
    [topUp |-> MAX_CAMPAIGN_TOP_UP - TopUps(Before(a)), fees |-> FeesLeft(a)]

Started(a) ==
    [state |-> "started", topUp |-> Left(a).topUp, fees |-> Left(a).fees]
Passed(a) ==
    [state |-> "passed", topUp |-> receipts[a].topUp, fees |-> receipts[a].fees]

IsPassed(a) == receipts[a] # NONE /\ receipts[a].result = "passed"
IsRecorded(a) == manifest.assets[a] # NONE

\* validateRecordedAssets: stages in order, every receipt under its marker and
\* with the caps of its position, no failed check, sums that add up.
MarkerStands(a) ==
    LET recorded == manifest.assets[a]
    IN  CASE recorded = NONE -> receipts[a] = NONE
          [] recorded # NONE /\ recorded.state = "started" ->
                /\ receipts[a] # NONE /\ receipts[a].clean
                /\ recorded = Started(a)
                /\ receipts[a].left = Left(a)
          [] OTHER -> IsPassed(a) /\ receipts[a].clean /\ recorded = Passed(a)
InOrder ==
    IsRecorded("sbtc") =>
        IsRecorded("stx") /\ manifest.assets["stx"].state = "passed"
AddsUp ==
    LET passed == {a \in Assets :
                       IsRecorded(a) /\ manifest.assets[a].state = "passed"}
    IN  manifest.topUp = TopUps(passed) /\ manifest.fees = Fees(passed)
validateRecordedAssets ==
    /\ InOrder
    /\ \A a \in Assets : MarkerStands(a)
    /\ AddsUp

NewManifest == [result |-> "running", assets |-> [a \in Assets |-> NONE],
                topUp |-> 0, fees |-> 0]

-----------------------------------------------------------------------------
(* runCampaign *)

Enter(label) == stage' = label

\* The catch clause; before the lock, an error leaves everything as it is.
Stop ==
    /\ stage' = "idle"
    /\ manifest' = [manifest EXCEPT !.result = "reconciliation-required"]

\* The operator starts the coordinator; one that finds the manifest resumes.
Begin ==
    /\ stage = "idle"
    /\ IF manifest = NONE
       THEN manifest' = NewManifest /\ ~locked
       ELSE UNCHANGED manifest /\ manifest.result # "passed"
            /\ validateRecordedAssets
    /\ Enter("locking") /\ asset' = "stx"
    /\ UNCHANGED <<receipts, locked, view, needed, step, chainVars, boundVars>>

\* Acquired, or adopted from a dead process.
TakeLock ==
    /\ stage = "locking"
    /\ locked' = TRUE
    /\ Enter("asset")
    /\ UNCHANGED <<manifest, receipts, asset, view, needed, step, chainVars,
                   boundVars>>

\* An asset whose receipt has passed is accounted for, by whichever run.
Account_Again(a) ==                                                 \* mutant
    manifest' = [manifest EXCEPT
        !.assets[a] = Passed(a), !.topUp = @ + receipts[a].topUp,
        !.fees = @ + receipts[a].fees]
Account(a) ==
    manifest' = [manifest EXCEPT
        !.assets[a] = Passed(a),
        !.topUp = TopUps(Before(a) \cup {a}), !.fees = Fees(Before(a) \cup {a})]
GoOn ==
    IF asset = "stx" THEN asset' = "sbtc" /\ Enter("asset")
    ELSE UNCHANGED asset /\ Enter("complete")

WithinLeft(r) ==
    /\ r.left = Left(asset) /\ r.clean
    /\ r.topUp <= Left(asset).topUp /\ r.fees <= Left(asset).fees

\* Its receipt passed, now or in an earlier run; it is within what it was left.
Collect ==
    /\ stage \in {"asset", "collecting"} /\ IsPassed(asset)
    /\ IF WithinLeft(receipts[asset]) THEN Account(asset) /\ GoOn
       ELSE Stop /\ UNCHANGED asset
    /\ UNCHANGED <<receipts, locked, view, needed, step, chainVars, boundVars>>

\* The marker is durable before the executor is spawned.
MarkStarted ==
    /\ stage = "asset" /\ ~IsPassed(asset)
    /\ CASE ~IsRecorded(asset) ->
                /\ manifest' = [manifest EXCEPT
                                    !.assets[asset] = Started(asset)]
                /\ Enter("spawned")
         [] manifest.assets[asset] = Started(asset) ->
                UNCHANGED manifest /\ Enter("spawned")
         [] OTHER -> Stop
    /\ UNCHANGED <<receipts, locked, asset, view, needed, step, chainVars,
                   boundVars>>

\* Three writes with a crash between any two: complete, unlocked, passed.
Complete ==
    /\ stage = "complete"
    /\ manifest' = [manifest EXCEPT !.result = "transactions-complete"]
    /\ Enter("releasing")
    /\ UNCHANGED <<receipts, locked, asset, view, needed, step, chainVars,
                   boundVars>>
Release ==
    /\ stage = "releasing"
    /\ locked' = FALSE
    /\ Enter("finishing")
    /\ UNCHANGED <<manifest, receipts, asset, view, needed, step, chainVars,
                   boundVars>>
Finish ==
    /\ stage = "finishing"
    /\ manifest' = [manifest EXCEPT !.result = "passed"]
    /\ Enter("idle")
    /\ UNCHANGED <<receipts, locked, asset, view, needed, step, chainVars,
                   boundVars>>

-----------------------------------------------------------------------------
(* The executor *)

receipt == receipts[asset]
Write(changed) == receipts' = [receipts EXCEPT ![asset] = changed]

\* A failed check is written down, for ever.
Fail == Stop /\ Write([receipt EXCEPT !.clean = FALSE])
Proceed(label) == Enter(label) /\ UNCHANGED fileVars

\* createJournal; a receipt that is there must be of the same caps and clean.
NewReceipt ==
    [result |-> "running", left |-> Left(asset), clean |-> TRUE, topUp |-> NONE,
     transactions |-> {}, before |-> NONE, fees |-> NONE]
Reopens_Never(r) == FALSE                                           \* mutant
Reopens(r) == r.left = Left(asset) /\ r.clean /\ r.result # "passed"
OpenReceipt ==
    /\ stage = "spawned"
    /\ IF receipt = NONE
       THEN Write(NewReceipt) /\ Enter("reading") /\ UNCHANGED manifest
       ELSE /\ UNCHANGED receipts
            /\ IF Reopens(receipt) THEN Enter("reading") /\ UNCHANGED manifest
               ELSE Stop
    /\ UNCHANGED <<locked, asset, view, needed, step, chainVars, boundVars>>

hasTransaction(k) == k \in receipt.transactions

\* The calls of a signer that are to come, in this execution and the one after.
remainingCalls(signer) ==
    LET own == {k \in Calls : Signers[k] = signer}
    IN  Cardinality(own \ receipt.transactions)
            + (IF asset = "stx" THEN Cardinality(own) ELSE 0)
Required(signer) == Reserve[signer] + remainingCalls(signer) * CALL_FEE

ReadBalances ==
    /\ stage = "reading"
    /\ view' = purse /\ needed' = Required("provider")
    /\ Enter("planning")
    /\ UNCHANGED <<fileVars, asset, step, chainVars, boundVars>>

\* The top-up is planned once and kept.
PlanTopUp ==
    /\ stage = "planning"
    /\ Enter("checking")
    /\ IF receipt.topUp # NONE THEN UNCHANGED receipts
       ELSE Write([receipt EXCEPT !.topUp =
                       IF view.provider < needed THEN needed - view.provider
                       ELSE 0])
    /\ UNCHANGED <<manifest, locked, asset, view, needed, step, chainVars,
                   boundVars>>

FeeOf(k) == IF k = TOP_UP THEN TOP_UP_TRANSFER_FEE ELSE CALL_FEE
FeesFor(operations) == Total([k \in operations |-> FeeOf(k)], operations)
expectedFees ==
    FeesFor(Calls \cup (IF receipt.topUp > 0 THEN {TOP_UP} ELSE {}))
freshTopUp ==
    IF receipt.topUp = 0 \/ hasTransaction(TOP_UP) THEN 0
    ELSE receipt.topUp + TOP_UP_TRANSFER_FEE
stxToEscrow == IF asset = "stx" /\ ~hasTransaction(FUND) THEN BUDGET ELSE 0

\* The satoshis are asked for also when they are in escrow already.
FundsSuffice ==
    /\ receipt.topUp <= Left(asset).topUp
    /\ expectedFees <= Left(asset).fees
    /\ \A signer \in {"evaluator", "authority"} :
           view[signer] >= Required(signer)
    /\ view.client >= Required("client") + freshTopUp + stxToEscrow
    /\ view.sats >= SATS
CheckFunds ==
    /\ stage = "checking"
    /\ IF FundsSuffice THEN Proceed("operating") ELSE Fail
    /\ step' = TOP_UP
    /\ UNCHANGED <<locked, asset, view, needed, chainVars, boundVars>>

\* With no top-up planned, the provider must have enough.
SkipTopUp ==
    /\ stage = "operating" /\ step = TOP_UP /\ receipt.topUp = 0
    /\ IF view.provider >= needed THEN Proceed("operating") /\ step' = step + 1
       ELSE Fail /\ UNCHANGED step
    /\ UNCHANGED <<locked, asset, view, needed, chainVars, boundVars>>
IsDue == stage = "operating" /\ (step = TOP_UP => receipt.topUp > 0)

\* Before the settlement the provider's balance is written down, once.
Snapshot ==
    /\ IsDue /\ step = RESOLVE /\ receipt.before = NONE
    /\ Write([receipt EXCEPT !.before = purse.provider])
    /\ UNCHANGED <<manifest, locked, runVars, chainVars, boundVars>>

\* A new transaction, if the signer can still pay and keep its reserve.
CanSign ==
    /\ step \in Calls =>
           LET signer == Signers[step]
           IN  purse[signer] >= CALL_FEE + Reserve[signer]
                                    + (IF step = FUND THEN stxToEscrow ELSE 0)
    /\ step = RESOLVE /\ asset = "stx" => purse.provider = receipt.before
Sign ==
    /\ IsDue /\ ~hasTransaction(step)
    /\ step = RESOLVE => receipt.before # NONE
    /\ IF CanSign
       THEN /\ Write([receipt EXCEPT !.transactions = @ \cup {step}])
            /\ sent' = [sent EXCEPT ![asset] = "signed"]
            /\ Enter("signed") /\ UNCHANGED manifest
       ELSE Stop /\ UNCHANGED <<receipts, sent>>
    /\ UNCHANGED <<locked, asset, view, needed, step, purse, given, paid,
                   boundVars>>
BroadcastTransaction ==
    /\ stage = "signed"
    /\ sent' = [sent EXCEPT ![asset] = "pending"]
    /\ Enter("waiting")
    /\ UNCHANGED <<fileVars, asset, view, needed, step, purse, given, paid,
                   boundVars>>

IsMined(k) ==
    /\ hasTransaction(k)
    /\ sent[asset] = "mined" \/ \E j \in receipt.transactions : j > k

\* Mined as signed. After a top-up the provider has what it needs, and if the
\* top-up was of this run, what it had before and the top-up.
Confirmed(isNew) ==
    /\ step = TOP_UP =>
           /\ purse.provider >= needed
           /\ isNew => purse.provider - view.provider = receipt.topUp
Confirm ==
    /\ \/ stage = "waiting" /\ IsMined(step)
       \/ IsDue /\ hasTransaction(step)
    /\ CASE ~IsMined(step) -> Stop /\ UNCHANGED <<receipts, step>>
         [] IsMined(step) /\ ~Confirmed(stage = "waiting") ->
                Fail /\ UNCHANGED step
         [] OTHER ->
                /\ Proceed(IF step = RESOLVE THEN "closing" ELSE "operating")
                /\ step' = step + 1
    /\ UNCHANGED <<locked, asset, view, needed, chainVars, boundVars>>

\* Nothing is waited for for ever.
GiveUp ==
    /\ stage = "waiting" /\ sent[asset] = "lost"
    /\ Stop
    /\ UNCHANGED <<receipts, locked, asset, view, needed, step, chainVars,
                   boundVars>>

\* The payout is exact, the fees are those authorized: the receipt has passed.
CloseReceipt ==
    /\ stage = "closing"
    /\ LET fees == FeesFor(receipt.transactions)
       IN  IF /\ asset = "stx" => purse.provider - receipt.before = NET
              /\ fees = expectedFees /\ fees <= Left(asset).fees
           THEN /\ Write([receipt EXCEPT !.fees = fees, !.result = "passed"])
                /\ Enter("collecting") /\ UNCHANGED manifest
           ELSE Fail
    /\ UNCHANGED <<locked, asset, view, needed, step, chainVars, boundVars>>

-----------------------------------------------------------------------------
(* The chain, the operators and the owner of the provider's account *)

Last(a) == Max(receipts[a].transactions)
SignerOf(k) == IF k = TOP_UP THEN "client" ELSE Signers[k]

\* What a transaction of asset a does to the balances.
Moves(a, k, who) ==
    LET amount == receipts[a].topUp
    IN  (IF who = SignerOf(k) THEN -FeeOf(k) ELSE 0)
        + (CASE k = TOP_UP /\ who = "client" -> -amount
             [] k = TOP_UP /\ who = "provider" -> amount
             [] k = FUND /\ a = "stx" /\ who = "client" -> -BUDGET
             [] k = FUND /\ a = "sbtc" /\ who = "sats" -> -SATS
             [] k = RESOLVE /\ a = "stx" /\ who = "provider" -> NET
             [] OTHER -> 0)
Mine(a) ==
    /\ sent[a] = "pending"
    /\ sent' = [sent EXCEPT ![a] = "mined"]
    /\ purse' = [who \in DOMAIN purse |-> purse[who] + Moves(a, Last(a), who)]
    /\ given' = given + (IF Last(a) = TOP_UP THEN receipts[a].topUp ELSE 0)
    /\ paid' = paid + FeeOf(Last(a))
    /\ UNCHANGED <<fileVars, runVars, boundVars>>

\* Dropped by the mempools. Nothing is sent again.
Lose(a) ==
    /\ sent[a] = "pending" /\ mishaps < MaxMishaps
    /\ sent' = [sent EXCEPT ![a] = "lost"]
    /\ mishaps' = mishaps + 1
    /\ UNCHANGED <<fileVars, runVars, purse, given, paid, payments>>

\* The process is killed; its files stay.
Killed ==
    /\ stage # "idle" /\ mishaps < MaxMishaps
    /\ stage' = "idle"
    /\ mishaps' = mishaps + 1
    /\ UNCHANGED <<fileVars, asset, view, needed, step, chainVars, payments>>

\* The executor stops: a node does not answer or not in time, the release is
\* not as reviewed, a broadcast is refused.
InExecutor == {"spawned", "reading", "planning", "checking", "operating",
              "signed", "waiting", "closing"}
Refuse ==
    /\ stage \in InExecutor /\ mishaps < MaxMishaps
    /\ Stop
    /\ mishaps' = mishaps + 1
    /\ UNCHANGED <<receipts, locked, asset, view, needed, step, chainVars,
                   payments>>

\* The provider's account is not the campaign's alone.
PayElsewhere(amount) ==
    /\ payments < MaxPayments /\ amount <= purse.provider
    /\ purse' = [purse EXCEPT !.provider = @ - amount]
    /\ payments' = payments + 1
    /\ UNCHANGED <<fileVars, runVars, sent, given, paid, mishaps>>

-----------------------------------------------------------------------------
CampaignInit ==
    /\ manifest = NONE /\ receipts = [a \in Assets |-> NONE] /\ locked = FALSE
    /\ stage = "idle" /\ asset = "stx" /\ step = TOP_UP
    /\ view = NONE /\ needed = NONE
    /\ sent = [a \in Assets |-> "nothing"]
    /\ purse \in Purses
    /\ given = 0 /\ paid = 0 /\ mishaps = 0 /\ payments = 0

Coordinate ==
    \/ TakeLock \/ Collect \/ MarkStarted \/ Complete \/ Release \/ Finish
Execute ==
    \/ OpenReceipt \/ ReadBalances \/ PlanTopUp \/ CheckFunds
    \/ SkipTopUp \/ Snapshot \/ Sign \/ BroadcastTransaction \/ Confirm \/ GiveUp
    \/ CloseReceipt

CampaignNext ==
    \/ Begin \/ Coordinate \/ Execute
    \/ Killed \/ Refuse
    \/ \E a \in Assets : Mine(a) \/ Lose(a)
    \/ \E amount \in Payments : PayElsewhere(amount)

CampaignSpec == CampaignInit /\ [][CampaignNext]_campaignVars

\* Operators start again what stopped and can be resumed; a process goes on;
\* what is pending is mined, or lost.
CampaignFairness ==
    /\ WF_campaignVars(Begin) /\ WF_campaignVars(Coordinate \/ Execute)
    /\ \A a \in Assets : WF_campaignVars(Mine(a))

-----------------------------------------------------------------------------
(* Properties *)

\* The caps are of the whole campaign: however often it stopped, was resumed or
\* found the provider's account emptied, it gave the provider no more than 900
\* for gas and paid no more than 3,500 in fees.
CampaignWithinCaps ==
    given <= MAX_CAMPAIGN_TOP_UP /\ paid <= MAX_CAMPAIGN_NETWORK_FEES

\* The manifest of a campaign that passed says what the chain says: every
\* transaction is in one receipt, and every receipt was counted once.
PassedIsAccounted ==
    manifest # NONE /\ manifest.result = "passed" =>
        /\ \A a \in Assets :
               IsPassed(a) /\ receipts[a].clean /\ sent[a] = "mined"
        /\ manifest.topUp = given /\ manifest.fees = paid
        /\ ~locked

\* What the runbook leaves to an operator: a marker without its receipt, and a
\* transaction that is in no mempool and will not be sent again.
NeedsReconciliation ==
    \E a \in Assets :
        \/ manifest # NONE /\ manifest.assets[a] # NONE /\ receipts[a] = NONE
        \/ sent[a] \in {"signed", "lost"}

\* A campaign that is resumed whenever it stops passes in the end, unless it
\* needs reconciliation or its provider's money went elsewhere.  One case more
\* is left out, and ends no campaign well: a resumed run that finds both
\* receipts passed first saves the manifest with the sums of the STX receipt
\* alone; if it is killed there, the next one finds sums that do not add up.
CompletesIfResumed ==
    <>(\/ manifest # NONE /\ manifest.result = "passed"
       \/ stage = "idle" /\ NeedsReconciliation
       \/ stage = "idle" /\ manifest # NONE /\ ~AddsUp
       \/ payments > 0)

\* The balances that the preflight asks for (executionFundingRequirements) are
\* enough: without other payments no receipt records a failed check.
MinimumSuffices ==
    payments = 0 => \A a \in Assets : receipts[a] # NONE => receipts[a].clean

=============================================================================
