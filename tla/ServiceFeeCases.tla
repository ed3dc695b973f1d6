-------------------------- MODULE ServiceFeeCases --------------------------
(***************************************************************************)
(* The two scripts that drive one job of the service-fee escrow through a  *)
(* whole case and close a receipt about it, against the contract itself    *)
(* (AgenticCommerce):                                                      *)
(*                                                                         *)
(*   "test"  scripts/e2e-service-fee-testnet.mjs with its library          *)
(*           scripts/service-fee-testnet-core.mjs, ten scenarios           *)
(*   "main"  scripts/e2e-service-fee-mainnet.mjs, one scenario             *)
(*                                                                         *)
(* Both write an operation into the receipt before they broadcast it, both *)
(* may be started again on the receipt of a run that stopped, and neither  *)
(* sends an operation again that the receipt names.  They differ in what   *)
(* they read before they sign, in how a later run looks at a recorded      *)
(* transaction, and in what a failed check does to the receipt.            *)
(*                                                                         *)
(* Between any two steps of a script blocks are mined, transactions are    *)
(* executed, refused or lost, strangers use what a passed deadline opens,  *)
(* the registry's owner withdraws the escrow's authorisation, the treasury *)
(* spends, and the process dies.  From some moment on (calm) this stops;   *)
(* until then it may happen any number of times.                           *)
(*                                                                         *)
(* The asset is STX; network fees, gas reserves but the provider's, texts  *)
(* and signatures are left out, and the job of the case is the escrow's    *)
(* first.  One process works on a receipt at a time (CampaignLock).        *)
(***************************************************************************)
EXTENDS AgenticCommerce, Sequences

CONSTANTS
    Actors,       \* client, provider, evaluator, authority, treasury: accounts
    Stranger,     \* an account outside the case
    CaseIds,      \* the [script, name] explored
    Budget,       \* spec.budget (100000 micro-STX, 1000 sats)
    ExpiryBlocks, \* Stacks blocks from the start of a case to the expiry (500)
    GasReserve,   \* what the mainnet script leaves its provider with
    Horizon       \* bound: burn blocks before it gets calm, so that the last
                  \* window of a case ends within MaxBurnHeight

VARIABLES
    case,         \* the case
    receipt,      \* the file
    phase, step, fresh, held,  \* the process
    sent,         \* operation -> the states of its transactions, in order
    gifted,       \* what the treasury has spent on the provider
    calm

processVars == <<phase, step, fresh, held>>
caseVars == <<case, receipt, processVars, sent, gifted, calm>>

TheJob == 1
NoReceipt == [entries |-> {}, expiredAt |-> NONE, plan |-> NONE,
              snapshot |-> NONE, failed |-> FALSE, result |-> "running"]

-----------------------------------------------------------------------------
(* The scenarios *)

Immediate(original, final) ==
    [original |-> original, final |-> final, wait |-> "none",
     waiver |-> FALSE, refund |-> FALSE]
Delayed(original, wait) ==
    [Immediate(original, original) EXCEPT !.wait = wait]

SCENARIOS ==
    [approveNoAppeal |-> Delayed(1, "appeal"),
     rejectNoAppeal |-> Delayed(2, "appeal"),
     approveAppealResolveReject |-> Immediate(1, 2),
     rejectAppealResolveApprove |-> Immediate(2, 1),
     approveAppealTimeout |-> Delayed(1, "resolution"),
     reviewTimeout |-> Delayed(0, "review"),
     waiveApprove |-> [Immediate(2, 1) EXCEPT !.waiver = TRUE],
     waiveReject |-> [Immediate(1, 2) EXCEPT !.waiver = TRUE],
     refundApprove |-> [Immediate(2, 1) EXCEPT !.refund = TRUE],
     refundReject |-> [Immediate(1, 2) EXCEPT !.refund = TRUE]]

IsMain == case.script = "main"
MainScenario == SCENARIOS.rejectAppealResolveApprove
spec == IF IsMain THEN MainScenario ELSE SCENARIOS[case.name]

\* economics: what the scenario must end in.
charged == IF spec.wait = "review" \/ spec.waiver THEN 0 ELSE Fee(Budget)
refunded == IF spec.refund THEN charged ELSE 0
recipient == IF spec.final = DECISION_REJECT THEN Actors.client ELSE Actors.provider
status == IF spec.wait = "review" THEN STATUS_TIMEOUT_PAID ELSE StatusFor(spec.final)

-----------------------------------------------------------------------------
(* The operations of a case, in order *)

Hiring_ == <<"create", "budget", "fund", "assign", "submit">>
TestJudging ==
    IF spec.wait = "review" THEN <<>>
    ELSE IF spec.wait = "appeal" THEN <<"decision">> ELSE <<"decision", "appeal">>
TestSettling == IF spec.waiver THEN <<"waiver", "settle">> ELSE <<"settle">>
TestAftermath == IF spec.refund THEN <<"waiver", "refund">> ELSE <<>>
TestOperations == Hiring_ \o TestJudging \o TestSettling \o TestAftermath

\* topUpProvider comes first, when the plan asks for it.
MainTopUp == IF receipt.plan \in {NONE, 0} THEN <<>> ELSE <<"topUp">>
MainOperations == MainTopUp \o Hiring_ \o <<"decision", "appeal", "settle">>

Operations == IF IsMain THEN MainOperations ELSE TestOperations
AllOperations == {"topUp", "create", "budget", "fund", "assign", "submit",
                  "decision", "appeal", "waiver", "settle", "refund"}
Roles == {"client", "provider", "evaluator", "authority", "treasury"}

\* The accounts of a case are distinct, which both scripts check, and sign for
\* themselves, and the contract's inputs include the amounts a case moves.
ASSUME CaseAssumption ==
    /\ Actors \in [Roles -> Users] /\ Stranger \in Users
    /\ \A r, q \in Roles : Actors[r] = Actors[q] => r = q
    /\ CaseIds \subseteq [script : {"test", "main"}, name : DOMAIN SCENARIOS]
    /\ Budget \in Budgets /\ ExpiryBlocks \in Nat /\ GasReserve \in Nat
    /\ 1..GasReserve \cup {1} \subseteq ExternalAmounts
    /\ TheJob \in JobIds

Done == step > Len(Operations)
op == Operations[step]

Role(o) ==
    CASE o \in {"topUp", "create", "budget", "fund", "assign"} -> "client"
      [] o = "submit" -> "provider"
      [] o = "decision" -> "evaluator"
      [] o = "appeal" -> IF spec.original = DECISION_APPROVE
                         THEN "client" ELSE "provider"
      [] o = "waiver" -> "authority"
      [] o = "settle" -> IF spec.wait = "none" THEN "authority" ELSE "client"
      [] o = "refund" -> "treasury"
Signer(o) == Actors[Role(o)]

-----------------------------------------------------------------------------
(* The chain: a transaction is executed once, with the call the script made *)

\* Deny mode: the named account pays exactly the amount, and nobody else pays.
PaysExactly(from, amount) ==
    \A p \in Principals : IF p = from /\ amount > 0
                          THEN stx[p] - stx'[p] = amount
                          ELSE stx'[p] >= stx[p]

TestSettles ==
    CASE spec.wait = "appeal" -> FinalizeDecision(Signer("settle"), TheJob)
      [] spec.wait = "resolution" -> SettleAppealTimeout(Signer("settle"), TheJob)
      [] spec.wait = "review" -> SettleReviewTimeout(Signer("settle"), TheJob)
      [] OTHER -> ResolveAppeal(Signer("settle"), TheJob, spec.final, "commitment")

Executes(o) ==
    LET by == Signer(o)
    IN  CASE o = "topUp" -> /\ ExternalTransfer(by, Actors.provider, receipt.plan)
                            /\ PaysExactly(by, receipt.plan)
          [] o = "create" -> CreateJob(by, NONE, Actors.evaluator, receipt.expiredAt)
          [] o = "budget" -> SetBudget(by, TheJob, Budget)
          [] o = "fund" -> FundJob(by, TheJob) /\ PaysExactly(by, Budget)
          [] o = "assign" -> AssignProvider(by, TheJob, Actors.provider)
          [] o = "submit" -> SubmitWork(by, TheJob)
          [] o = "decision" -> RecordDecision(by, TheJob, spec.original,
                                              "commitment", "commitment")
          [] o = "appeal" -> AppealDecision(by, TheJob, "commitment")
          [] o = "waiver" -> WaiveServiceFee(by, TheJob, "commitment")
          [] o = "settle" -> TestSettles /\ PaysExactly(Escrow, Budget)
          [] o = "refund" -> RefundServiceFee(by, TheJob) /\ PaysExactly(by, charged)

IsPending(o) == \E i \in DOMAIN sent[o] : sent[o][i] = "pending"
\* What the API says of the transaction the receipt names.
Observed(o) == IF sent[o] = <<>> THEN "missing" ELSE sent[o][Len(sent[o])]
Becomes(o, i, outcome) == sent' = [sent EXCEPT ![o][i] = outcome]

Refuses(o) == ~ENABLED Executes(o)

\* A call that fails is mined as an abort, and the nonce is used up.
Mine ==
    /\ \E o \in AllOperations :
        \E i \in DOMAIN sent[o] :
            /\ sent[o][i] = "pending"
            /\ \/ Executes(o) /\ Becomes(o, i, "success")
               \/ Refuses(o) /\ UNCHANGED vars /\ Becomes(o, i, "abort")
    /\ UNCHANGED <<case, receipt, processVars, gifted, calm>>

Lose ==
    /\ ~calm
    /\ \E o \in AllOperations :
        \E i \in DOMAIN sent[o] :
            sent[o][i] = "pending" /\ Becomes(o, i, "dropped")
    /\ UNCHANGED <<vars, case, receipt, processVars, gifted, calm>>

-----------------------------------------------------------------------------
(* The start of a run *)

\* preflight and verifyPublicRelease: the escrow carries the reviewed policy
\* and the registry lists it.
PolicyIsReviewed ==
    /\ protocolConfigured
    /\ serviceTreasury = Actors.treasury /\ appealAuthority = Actors.authority
    /\ protocolCallers[Escrow]

NobodyPending == \A o \in AllOperations : ~IsPending(o)

\* The testnet script refuses to start while any of its actors has a pending
\* transaction, and asks for the funds of a whole case before it opens one.
TestMayStart_Ready ==                                               \* mutant
    NobodyPending /\ stx[Actors.client] >= Budget
TestMayStart ==
    /\ NobodyPending
    /\ "create" \in receipt.entries \/ stx[Actors.client] >= Budget

TestOpens ==
    IF receipt.expiredAt # NONE THEN receipt
    ELSE [receipt EXCEPT !.expiredAt = stacksHeight + ExpiryBlocks]

\* createJournal: a closed receipt and one with a failed check are refused.
MainMayStart == receipt.result # "passed" /\ ~receipt.failed

\* The provider's top-up is planned once, from what it holds at that moment.
MainPlan_Anew == IF stx[Actors.provider] < GasReserve               \* mutant
                 THEN GasReserve - stx[Actors.provider] ELSE 0
MainPlan == IF receipt.plan # NONE THEN receipt.plan
            ELSE IF stx[Actors.provider] < GasReserve
            THEN GasReserve - stx[Actors.provider] ELSE 0
MainFunds ==
    /\ stx[Actors.client] >=
           (IF "topUp" \in receipt.entries THEN 0 ELSE MainPlan)
           + (IF "fund" \in receipt.entries THEN 0 ELSE Budget)
    /\ MainPlan = 0 => stx[Actors.provider] >= GasReserve
MainOpens == [receipt EXCEPT !.plan = MainPlan, !.failed = ~MainFunds]

Start ==
    /\ phase = "idle"
    /\ PolicyIsReviewed
    /\ IF IsMain THEN MainMayStart ELSE TestMayStart
    /\ receipt' = IF IsMain THEN MainOpens ELSE TestOpens
    /\ IF IsMain /\ receipt'.failed
       THEN UNCHANGED processVars
       ELSE /\ phase' = "next" /\ step' = 1 /\ fresh' = FALSE
            /\ held' = stx[Actors.provider]
    /\ UNCHANGED <<vars, case, sent, gifted, calm>>

\* Every failure ends the run; what the receipt holds stays.
Stop == phase' = "idle" /\ step' = 1 /\ fresh' = FALSE /\ held' = 0
Enter(next) == phase' = next /\ UNCHANGED <<step, fresh, held>>
Poison == receipt' = [receipt EXCEPT !.failed = TRUE] /\ Stop

-----------------------------------------------------------------------------
(* What a script reads before it signs an operation *)

Job_ == jobs[TheJob]
escrowed == MapGetOr(escrowBalances, TheJob, 0)
Unsettled == TheJob \notin DOMAIN serviceFeeSettlements
InTime(deadline) == burnHeight <= deadline

\* identity
RolesAreBound ==
    /\ Job_.client = Actors.client /\ Job_.evaluator = Actors.evaluator
    /\ Job_.treasury = Actors.treasury /\ Job_.appealAuthority = Actors.authority
    /\ Job_.provider \in {NONE, Actors.provider}

\* invoke, for an operation the receipt does not name
TestState(o) ==
    CASE o \in {"budget", "fund"} -> STATUS_OPEN
      [] o \in {"assign", "submit"} -> STATUS_FUNDED
      [] o = "decision" -> STATUS_SUBMITTED
      [] o = "appeal" -> STATUS_DECISION_PENDING
      [] o = "waiver" /\ spec.waiver -> STATUS_DISPUTED
      [] o = "settle" -> IF spec.wait = "review" THEN STATUS_SUBMITTED
                         ELSE IF spec.wait = "appeal" THEN STATUS_DECISION_PENDING
                         ELSE STATUS_DISPUTED
      [] OTHER -> status

TestInvokes(o) ==
    /\ RolesAreBound
    /\ Job_.status = TestState(o)
    /\ o # "budget" => Job_.budget = Budget
    /\ escrowed = IF TestState(o) \in HeldStatuses THEN Budget ELSE 0
    /\ TestState(o) >= 2 => Job_.provider = Actors.provider

\* What main asks besides, one line for each operation that has more to ask.
TestTerms == Unsettled /\ TheJob \notin serviceFeeWaivers
TestProviderTerms ==
    /\ Job_.provider = Actors.provider /\ Job_.budget = Budget
    /\ escrowed = Budget /\ TestTerms
TestDecisionIsOurs == decisions[TheJob].original = spec.original
TestAppealInTime == TestDecisionIsOurs /\ InTime(decisions[TheJob].appealDeadline)
TestResolutionInTime ==
    TestDecisionIsOurs /\ InTime(decisions[TheJob].resolutionDeadline)
TestRefundIsOwed == serviceFeeSettlements[TheJob].refundedFee = 0

TestAsks(o) ==
    CASE o = "create" -> TRUE
      [] o = "fund" -> TestTerms /\ TestInvokes(o)
      [] o = "submit" -> TestProviderTerms /\ TestInvokes(o)
      [] o = "appeal" -> TestAppealInTime /\ TestInvokes(o)
      [] o = "settle" /\ spec.wait = "none" -> TestResolutionInTime /\ TestInvokes(o)
      [] OTHER -> TestInvokes(o)

TestSigns(o) ==
    IF o = "refund" /\ ~TestRefundIsOwed THEN Poison
    ELSE /\ IF TestAsks(o) /\ stx[Signer(o)] >= (IF o = "fund" THEN Budget
                                                 ELSE IF o = "refund" THEN charged
                                                 ELSE 0)
            THEN Enter("sign") ELSE Stop
         /\ UNCHANGED receipt

\* The deadline gate of the delayed scenarios: the receipt says what is waited
\* for and the run ends.
TestDeadline ==
    CASE spec.wait = "review" -> Job_.reviewDeadline
      [] spec.wait = "appeal" -> decisions[TheJob].appealDeadline
      [] spec.wait = "resolution" -> decisions[TheJob].resolutionDeadline

TestDelayedJobStands ==
    /\ Job_.status = TestState("settle") /\ escrowed = Budget
    /\ spec.wait # "review" => TestDecisionIsOurs

TestAwaits ==
    IF ~TestDelayedJobStands THEN Stop /\ UNCHANGED receipt
    ELSE IF InTime(TestDeadline)
    THEN receipt' = [receipt EXCEPT !.result = "awaiting-deadline"] /\ Stop
    ELSE TestSigns("settle")

\* The mainnet script: a check that fails stays in the receipt, an ensure only
\* ends the run.
ExpiryIsAhead == stacksHeight < Job_.expiredAt
MainRoles == Job_.client = Actors.client /\ Job_.evaluator = Actors.evaluator

\* The job's terms are fixed before create-job, the balances of those the
\* settlement pays before resolve-appeal; both are saved once.
MainTerms ==
    IF receipt.expiredAt # NONE THEN receipt.expiredAt ELSE stacksHeight + ExpiryBlocks
Balances == [provider |-> stx[Actors.provider], treasury |-> stx[Actors.treasury]]
MainSnapshot == IF receipt.snapshot # NONE THEN receipt.snapshot ELSE Balances

MainBeforeCreate == stacksHeight < MainTerms
MainBeforeBudget == Job_.status = STATUS_OPEN /\ MainRoles /\ ExpiryIsAhead
MainBeforeFund ==
    /\ Job_.status = STATUS_OPEN /\ MainRoles /\ Job_.budget = Budget
    /\ escrowed = 0 /\ ExpiryIsAhead
MainFundedChecks == escrowed = Budget
MainBeforeAssign ==
    Job_.status = STATUS_FUNDED /\ MainRoles /\ Job_.provider = NONE /\ ExpiryIsAhead
MainBeforeSubmit ==
    /\ Job_.status = STATUS_FUNDED /\ MainRoles /\ Job_.provider = Actors.provider
    /\ escrowed = Budget /\ ExpiryIsAhead
MainSubmittedChecks == Job_.status = STATUS_SUBMITTED /\ escrowed = Budget
MainBeforeDecision ==
    MainRoles /\ Job_.provider = Actors.provider /\ InTime(Job_.reviewDeadline)
MainDecidedChecks == Job_.status = STATUS_DECISION_PENDING /\ Unsettled
MainBeforeAppeal ==
    /\ decisions[TheJob].original = DECISION_REJECT
    /\ decisions[TheJob].appealedBy = NONE /\ escrowed = Budget
    /\ InTime(decisions[TheJob].appealDeadline)
MainDisputedChecks == Job_.status = STATUS_DISPUTED /\ escrowed = Budget
MainBeforeResolve ==
    /\ RolesAreBound
    /\ decisions[TheJob].original = DECISION_REJECT
    /\ decisions[TheJob].appealedBy = Actors.provider
    /\ InTime(decisions[TheJob].resolutionDeadline)

MainChecks(o) ==
    CASE o = "assign" -> MainFundedChecks
      [] o = "decision" -> MainSubmittedChecks
      [] o = "appeal" -> MainDecidedChecks
      [] o = "settle" -> MainDisputedChecks
      [] OTHER -> TRUE
MainEnsures(o) ==
    CASE o = "topUp" -> TRUE
      [] o = "create" -> MainBeforeCreate
      [] o = "budget" -> MainBeforeBudget
      [] o = "fund" -> MainBeforeFund
      [] o = "assign" -> MainBeforeAssign
      [] o = "submit" -> MainBeforeSubmit
      [] o = "decision" -> MainBeforeDecision
      [] o = "appeal" -> MainBeforeAppeal
      [] o = "settle" -> MainBeforeResolve

MainSaves(o) ==
    CASE o = "create" -> [receipt EXCEPT !.expiredAt = MainTerms]
      [] o = "settle" /\ MainEnsures(o) -> [receipt EXCEPT !.snapshot = MainSnapshot]
      [] OTHER -> receipt
MainBalancesStand(o) == o = "settle" => MainSnapshot = Balances

MainSigns(o) ==
    IF ~MainChecks(o) THEN Poison
    ELSE /\ receipt' = MainSaves(o)
         /\ IF MainEnsures(o) /\ MainBalancesStand(o) THEN Enter("sign") ELSE Stop

-----------------------------------------------------------------------------
(* One operation *)

IsRecorded(o) == o \in receipt.entries

Review ==
    /\ phase = "next" /\ ~Done
    /\ ~IsRecorded(op)
    /\ IF IsMain THEN MainSigns(op)
       ELSE IF op = "settle" /\ spec.wait # "none" THEN TestAwaits
       ELSE TestSigns(op)
    /\ UNCHANGED <<vars, case, sent, gifted, calm>>

\* The testnet library polls a recorded transaction as it does a new one; the
\* mainnet script looks once.
Resume ==
    /\ phase = "next" /\ ~Done
    /\ IsRecorded(op)
    /\ phase' = IF IsMain THEN "reconcile" ELSE "wait"
    /\ UNCHANGED <<vars, case, receipt, step, fresh, held, sent, gifted, calm>>

SignerIsIdle(o) == \A other \in AllOperations :
                       Role(other) = Role(o) => ~IsPending(other)

\* The entry is saved before anything leaves the process.
Record_AfterSend == receipt                                         \* mutant
Record == [receipt EXCEPT !.entries = @ \cup {op}]

Sign ==
    /\ phase = "sign"
    /\ IF SignerIsIdle(op)
       THEN /\ receipt' = Record
            /\ phase' = "send" /\ fresh' = TRUE /\ UNCHANGED <<step, held>>
       ELSE Stop /\ UNCHANGED receipt
    /\ UNCHANGED <<vars, case, sent, gifted, calm>>

Broadcast ==
    /\ phase = "send"
    /\ sent' = [sent EXCEPT ![op] = Append(@, "pending")]
    /\ receipt' = [receipt EXCEPT !.entries = @ \cup {op}]
    /\ Enter("wait")
    /\ UNCHANGED <<vars, case, gifted, calm>>

\* The node refuses, or the answer is lost on the way.
BroadcastFails ==
    /\ ~calm
    /\ phase = "send"
    /\ sent' \in {sent, [sent EXCEPT ![op] = Append(@, "pending")]}
    /\ Stop
    /\ UNCHANGED <<vars, case, receipt, gifted, calm>>

\* What is checked right after an operation has succeeded.
TestAfter(o) ==
    o \in {"decision", "appeal"} /\ fresh => escrowed = Budget /\ Unsettled
MainAfter(o) ==
    o = "topUp" => /\ stx[Actors.provider] >= GasReserve
                   /\ fresh => stx[Actors.provider] - held = receipt.plan
After(o) == IF IsMain THEN MainAfter(o) ELSE TestAfter(o)

Accepts(result) == result = "success"

Confirm ==
    /\ phase \in {"wait", "reconcile"}
    /\ Accepts(Observed(op))
    /\ IF After(op)
       THEN /\ phase' = "next" /\ step' = step + 1 /\ fresh' = FALSE
            /\ UNCHANGED <<receipt, held>>
       ELSE Poison
    /\ UNCHANGED <<vars, case, sent, gifted, calm>>

\* A transaction that failed, or that cannot be found in the time the script has.
GivesUp ==
    /\ \/ phase \in {"wait", "reconcile"} /\ Observed(op) \in {"abort", "missing", "dropped"}
       \/ phase = "wait" /\ ~calm /\ Observed(op) = "pending"
       \/ phase = "reconcile" /\ Observed(op) = "pending"
    /\ Stop
    /\ UNCHANGED <<vars, case, receipt, sent, gifted, calm>>

-----------------------------------------------------------------------------
(* The end of a case *)

Settlement_ == serviceFeeSettlements[TheJob]

\* verifyLedger
TestLedger ==
    IF spec.wait = "review"
    THEN TheJob \notin DOMAIN decisions /\ TestTerms
    ELSE /\ TheJob \in DOMAIN decisions
         /\ TheJob \in serviceFeeWaivers <=> spec.waiver \/ spec.refund
         /\ Settlement_ = [gross |-> Budget, recipient |-> recipient,
                           net |-> Budget - charged, chargedFee |-> charged,
                           refundedFee |-> refunded]
TestVerdict ==
    IF spec.wait = "review"
    THEN TheJob \notin DOMAIN decisions \cup DOMAIN reputationSync
    ELSE /\ decisions[TheJob].original = spec.original
         /\ decisions[TheJob].final = spec.final
         /\ ~reputationSync[TheJob].pending
         /\ reputationSync[TheJob].outcome = spec.final
TestStatusChecks == Job_.status = status /\ escrowed = 0

TestCloses ==
    IF ~TestStatusChecks THEN Poison
    ELSE /\ receipt' = IF TestLedger /\ TestVerdict
                       THEN [receipt EXCEPT !.result = "passed"] ELSE receipt
         /\ Stop

MainDeltas ==
    /\ stx[Actors.provider] - receipt.snapshot.provider = Budget - charged
    /\ stx[Actors.treasury] - receipt.snapshot.treasury = charged
MainReputation ==
    /\ ~reputationSync[TheJob].pending
    /\ reputationSync[TheJob].outcome = DECISION_APPROVE
    /\ reputationSync[TheJob].lastError = Registry!OK
MainFinalChecks ==
    /\ Job_.status = STATUS_COMPLETED /\ escrowed = 0
    /\ decisions[TheJob].original = DECISION_REJECT
    /\ decisions[TheJob].final = DECISION_APPROVE
    /\ TheJob \notin serviceFeeWaivers
    /\ Settlement_ = [gross |-> Budget, recipient |-> Actors.provider,
                      net |-> Budget - charged, chargedFee |-> charged,
                      refundedFee |-> 0]
    /\ MainReputation

MainCloses ==
    IF MainDeltas /\ MainFinalChecks /\ ~receipt.failed
    THEN receipt' = [receipt EXCEPT !.result = "passed"] /\ Stop
    ELSE Poison

Close ==
    /\ phase = "next" /\ Done
    /\ IF IsMain THEN MainCloses ELSE TestCloses
    /\ UNCHANGED <<vars, case, sent, gifted, calm>>

Crash ==
    /\ ~calm
    /\ phase # "idle"
    /\ Stop
    /\ UNCHANGED <<vars, case, receipt, sent, gifted, calm>>

-----------------------------------------------------------------------------
(* The rest of the world *)

scriptVars == <<case, receipt, processVars, sent>>

\* deploy-service-fee-testnet.mjs and deploy-service-fee-mainnet.mjs have run.
Configure ==
    /\ \E w \in AppealWindows :
           InitializeProtocol(Deployer, w, Actors.authority, Actors.treasury)
    /\ UNCHANGED <<scriptVars, gifted, calm>>

SetAuthorised(allowed) ==
    /\ protocolCallers[Escrow] # allowed
    /\ IF allowed THEN Registry!AddProtocolCaller(RegistryDeployer, Escrow)
       ELSE Registry!RemoveProtocolCaller(RegistryDeployer, Escrow)
    /\ UNCHANGED <<commerceVars, stx, timeVars>>
    /\ UNCHANGED <<scriptVars, gifted, calm>>
Authorise == SetAuthorised(TRUE)
\* An earlier withdrawal only keeps a script from starting.
Withdraw == ~calm /\ TheJob \in DOMAIN decisions /\ SetAuthorised(FALSE)

StrangerActs ==
    /\ ~calm
    /\ Permissionless(Stranger, TheJob) \/ RetryReputationSync(Stranger, TheJob)
    /\ UNCHANGED <<scriptVars, gifted, calm>>

\* Bound: one micro-STX.
TreasurySpends ==
    /\ ~calm /\ IsMain /\ gifted = 0
    /\ ExternalTransfer(Actors.treasury, Actors.provider, 1)
    /\ gifted' = 1
    /\ UNCHANGED <<scriptVars, calm>>

\* Nobody reads block-height of a job that is submitted.
StacksBlock ==
    /\ ~calm
    /\ TheJob \in DOMAIN jobs => Job_.status \in {STATUS_OPEN, STATUS_FUNDED}
    /\ AdvanceStacksBlock
    /\ UNCHANGED <<scriptVars, gifted, calm>>

\* In calm times a script is faster than a burn block, unless it waits for one.
AwaitsBlock ==
    /\ receipt.result = "awaiting-deadline"
    /\ TestDelayedJobStands /\ InTime(TestDeadline)
BurnBlock ==
    /\ IF calm THEN AwaitsBlock ELSE burnHeight < Horizon
    /\ AdvanceBurnBlock
    /\ UNCHANGED <<scriptVars, gifted, calm>>

CalmDown == ~calm /\ calm' = TRUE /\ UNCHANGED <<vars, scriptVars, gifted>>

-----------------------------------------------------------------------------
CaseInit ==
    /\ Init
    /\ case \in CaseIds
    /\ receipt = NoReceipt
    /\ phase = "idle" /\ step = 1 /\ fresh = FALSE /\ held = 0
    /\ sent = [o \in AllOperations |-> <<>>]
    /\ gifted = 0 /\ calm = FALSE

CaseRun == Review \/ Resume \/ Sign \/ Broadcast \/ Confirm \/ GivesUp \/ Close
CaseWorld ==
    \/ Mine \/ Lose \/ Configure \/ Authorise \/ Withdraw \/ StrangerActs
    \/ TreasurySpends \/ StacksBlock \/ BurnBlock \/ CalmDown
CaseNext == Start \/ CaseRun \/ BroadcastFails \/ Crash \/ CaseWorld

allCaseVars == <<vars, caseVars>>

\* A process that is started again whenever it has stopped takes its steps, the
\* network mines what it has, the deployment takes place, and it gets calm.
CaseFairness ==
    /\ WF_allCaseVars(Start) /\ WF_allCaseVars(CaseRun)
    /\ WF_allCaseVars(Mine) /\ WF_allCaseVars(BurnBlock)
    /\ WF_allCaseVars(Configure) /\ WF_allCaseVars(Authorise)
    /\ WF_allCaseVars(CalmDown)

CaseSpec == CaseInit /\ [][CaseNext]_allCaseVars /\ CaseFairness

-----------------------------------------------------------------------------
(* Properties *)

Receipt ==
    [entries : SUBSET AllOperations, expiredAt : Nat \cup {NONE},
     plan : 0..GasReserve \cup {NONE}, snapshot : [provider : Nat, treasury : Nat] \cup {NONE},
     failed : BOOLEAN, result : {"running", "awaiting-deadline", "passed"}]

CaseTypeOK ==
    /\ case \in CaseIds /\ receipt \in Receipt
    /\ phase \in {"idle", "next", "sign", "send", "wait", "reconcile"}
    /\ step \in Nat \ {0} /\ fresh \in BOOLEAN /\ held \in Nat
    /\ sent \in [AllOperations -> Seq({"pending", "success", "abort", "dropped"})]
    /\ gifted \in Nat /\ calm \in BOOLEAN

InitialOf(role) == InitialSTX[Actors[role]]

\* A receipt that says passed is about a case that took place as its scenario
\* says: every operation was executed once, by the one transaction the receipt
\* names, and client, provider and treasury hold to the last micro-STX what the
\* scenario owes them, the outcome is in the registry, and nothing is escrowed,
\* whatever was interrupted, lost, overtaken or withdrawn on the way.
FeePassedMeansSettled ==
    receipt.result = "passed" =>
        LET due == Budget - charged + refunded
            topUp == IF IsMain THEN receipt.plan ELSE 0
            earned(role) == IF recipient = Actors[role] THEN due ELSE 0
            key == [source |-> Escrow, jobId |-> TheJob]
        IN  /\ \A i \in DOMAIN Operations : sent[Operations[i]] = <<"success">>
            /\ Job_.status = status /\ TheJob \notin DOMAIN escrowBalances
            /\ spec.wait # "review" =>
                /\ stx[Actors.client] =
                       InitialOf("client") - Budget - topUp + earned("client")
                /\ stx[Actors.provider] =
                       InitialOf("provider") + topUp + gifted + earned("provider")
                /\ stx[Actors.treasury] =
                       InitialOf("treasury") + charged - refunded - gifted
                /\ key \in DOMAIN jobOutcomes
                /\ jobOutcomes[key].completed = (spec.final = DECISION_APPROVE)
            /\ spec.wait = "review" =>
                /\ stx[Actors.provider] = InitialOf("provider") + Budget
                /\ stx[Actors.treasury] = InitialOf("treasury")
                /\ key \notin DOMAIN jobOutcomes

\* An operation is handed to the network at most once in the life of a receipt,
\* and never one the receipt does not name: a run that takes over from one that
\* died, timed out or got no answer finds every transaction there may be.
FeeSentOnce ==
    \A o \in AllOperations :
        Len(sent[o]) <= (IF o \in receipt.entries THEN 1 ELSE 0)

\* What a case cannot recover from, by design: a recorded transaction that never
\* took effect, a job someone else settled or that expired, a deadline that
\* passed first, balances that moved, an outcome the registry did not take and, on
\* mainnet, a failed check.
IsLost == \E o \in receipt.entries : Observed(o) \in {"missing", "dropped", "abort"}
IsOvertaken == /\ TheJob \in DOMAIN jobs
               /\ Job_.status \notin HeldStatuses \cup {STATUS_OPEN}
               /\ Observed("settle") # "success"
IsLate ==
    \/ /\ receipt.expiredAt # NONE /\ stacksHeight >= receipt.expiredAt
       /\ ~({"fund", "submit"} \subseteq receipt.entries)
    \/ /\ TheJob \in DOMAIN jobs /\ Job_.status = STATUS_SUBMITTED
       /\ spec.wait # "review" /\ ~InTime(Job_.reviewDeadline)
    \/ /\ TheJob \in DOMAIN jobs /\ Job_.status = STATUS_DECISION_PENDING
       /\ spec.wait # "appeal" /\ ~InTime(decisions[TheJob].appealDeadline)
    \/ /\ TheJob \in DOMAIN jobs /\ Job_.status = STATUS_DISPUTED
       /\ spec.wait = "none" /\ ~InTime(decisions[TheJob].resolutionDeadline)
BalancesMoved == /\ receipt.snapshot # NONE /\ "settle" \notin receipt.entries
                 /\ receipt.snapshot # Balances
OutcomeIsMissing == /\ TheJob \in DOMAIN reputationSync
                    /\ reputationSync[TheJob].pending
IsBeyondRecovery ==
    \/ IsLost \/ IsOvertaken \/ IsLate \/ BalancesMoved \/ OutcomeIsMissing
    \/ IsMain /\ receipt.failed

\* A case that is started again after every stop is closed as passed, unless the
\* chain made that impossible: no stop, wherever it falls, leaves a receipt that
\* the next run refuses or misreads.
FeeCaseEnds == <>[](receipt.result = "passed" \/ IsBeyondRecovery)

=============================================================================
