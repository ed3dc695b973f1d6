-------------------------- MODULE AgenticCommerce --------------------------
(***************************************************************************)
(* contracts/agentic-commerce-v6.clar: the STX escrow of a job between a   *)
(* client and a provider, decided by an evaluator, appealed to an          *)
(* authority and settled with a two percent service fee, together with the *)
(* STX ledger, the two block heights the contract reads and the reputation *)
(* registry it reports to.                                                 *)
(*                                                                         *)
(* Every public function is one action.  A Clarity transaction is atomic,  *)
(* transactions are serialised and a contract cannot be re-entered, so an  *)
(* action is a whole call; a call that fails an asserts!, an unwrap! or a  *)
(* try! is rolled back and is a stuttering step.  sender is tx-sender: any *)
(* principal but the escrow itself, which signs no transaction.  Texts     *)
(* (description, deliverable, comment) and the values of the 32-byte       *)
(* commitments are left out: the contract stores them and reads none back. *)
(***************************************************************************)
EXTENDS Integers, ClarityMaps, ServiceFee

CONSTANTS
    Principals,         \* every account and contract of the chain
    Escrow,             \* this contract's own principal
    Deployer,           \* tx-sender of its deployment
    RegistryDeployer,   \* tx-sender of the registry's deployment
    NONE,               \* Clarity's none
    InitialSTX,         \* the STX balances at deployment
    ReviewWindow,       \* REVIEW_WINDOW_BURN_BLOCKS (12)
    AppealWindows,      \* the QA and the mainnet appeal window (3, 144)
    Budgets,            \* the amounts a caller may pass to set-budget
    Scores,             \* the scores a caller may pass to rate-provider
    ExternalAmounts,    \* the amounts moved by transfers outside the contract
    MaxJobs,            \* bound on job-counter
    MaxStacksHeight,    \* bound on block-height
    MaxBurnHeight       \* bound on burn-block-height

ASSUME PrincipalsAssumption ==
    /\ {Escrow, Deployer, RegistryDeployer} \subseteq Principals
    /\ Escrow \notin {Deployer, RegistryDeployer}
    /\ NONE \notin Principals \cup Int
ASSUME NoneAssumption ==
    NONE \notin [payer : Principals, amount : Nat, worker : Principals \cup {NONE}]
ASSUME LedgerAssumption == InitialSTX \in [Principals -> Nat] /\ InitialSTX[Escrow] = 0
ASSUME WindowAssumption == ReviewWindow \in Nat /\ AppealWindows \subseteq Nat
ASSUME InputAssumption ==
    Budgets \subseteq Nat /\ Scores \subseteq Nat /\ ExternalAmounts \subseteq Nat
ASSUME BoundAssumption ==
    MaxJobs \in Nat /\ MaxStacksHeight \in Nat /\ MaxBurnHeight \in Nat

VARIABLES
    \* governance
    contractOwner, pendingOwner, protocolConfigured, appealWindow,
    appealAuthority, pendingAppealAuthority, serviceTreasury,
    \* the contract's maps; a key is absent while Clarity reads none
    jobCounter, jobs, decisions, serviceFeeWaivers, serviceFeeSettlements,
    escrowBalances, jobRatings, reputationSync,
    \* the chain
    stx, stacksHeight, burnHeight,
    \* the reputation registry
    registryOwner, pendingRegistryOwner, protocolCallers, agentReputation,
    ratings, jobOutcomes

JobIds == 1..MaxJobs
Users == Principals \ {Escrow}
ZERO_HASH_32 == "zero hash"
Hashes == {ZERO_HASH_32, "commitment"}

Registry == INSTANCE ReputationRegistry WITH SourceJobs <- JobIds

ownerVars == <<contractOwner, pendingOwner>>
authorityVars == <<appealAuthority, pendingAppealAuthority>>
configVars == <<protocolConfigured, appealWindow, serviceTreasury>>
governanceVars == <<ownerVars, authorityVars, configVars>>
jobVars == <<jobCounter, jobs>>
feeVars == <<serviceFeeWaivers, serviceFeeSettlements>>
moneyVars == <<escrowBalances, stx>>
reputationVars == <<jobRatings, reputationSync>>
timeVars == <<stacksHeight, burnHeight>>
registryVars == <<registryOwner, pendingRegistryOwner, protocolCallers,
                  agentReputation, ratings, jobOutcomes>>
vars == <<governanceVars, jobVars, decisions, feeVars, moneyVars,
          reputationVars, timeVars, registryVars>>

STATUS_OPEN == 0
STATUS_FUNDED == 1
STATUS_SUBMITTED == 2
STATUS_COMPLETED == 3
STATUS_REJECTED == 4
STATUS_EXPIRED == 5
STATUS_TIMEOUT_PAID == 6
STATUS_DECISION_PENDING == 7
STATUS_DISPUTED == 8
DECISION_APPROVE == 1
DECISION_REJECT == 2
OUTCOME_COMPLETED == 1
OUTCOME_DISPUTED == 2

Job == [client : Principals, provider : Principals \cup {NONE},
        evaluator : Principals, appealAuthority : Principals,
        treasury : Principals, budget : Nat, expiredAt : Nat, status : 0..8,
        submittedAtBurn : Nat \cup {NONE}, reviewDeadline : Nat \cup {NONE}]
Decision == [original : {DECISION_APPROVE, DECISION_REJECT},
             final : {DECISION_APPROVE, DECISION_REJECT, NONE},
             decidedAtBurn : Nat, appealDeadline : Nat,
             appealedBy : Principals \cup {NONE},
             resolutionDeadline : Nat \cup {NONE},
             finalizedBy : Principals \cup {NONE},
             finalizedAtBurn : Nat \cup {NONE}]
Settlement == [gross : Nat, recipient : Principals, net : Nat,
               chargedFee : Nat, refundedFee : Nat]
Sync == [outcome : {OUTCOME_COMPLETED, OUTCOME_DISPUTED}, pending : BOOLEAN,
         lastError : Nat]

-----------------------------------------------------------------------------
(* Private helpers *)

IsValidDecision_Any(decision) == decision > 0                        \* mutant
IsValidDecision(decision) == decision \in {DECISION_APPROVE, DECISION_REJECT}
IsValidHash(hash) == hash # ZERO_HASH_32

\* A burn-height deadline belongs to the party it limits: that party may act at
\* the deadline, the permissionless settlement only after it.
Passed_Early(deadline) == burnHeight >= deadline                    \* mutant
Passed_Once(deadline) == burnHeight = deadline + 1                  \* mutant
Passed(deadline) == burnHeight > deadline

MayTakeAuthority_Stale(p) == p # serviceTreasury                    \* mutant
MayTakeAuthority(p) == p \notin {contractOwner, serviceTreasury}

MayProvide_Judge(p, job) ==                                         \* mutant
    p \notin {job.client, job.evaluator, job.treasury}
MayProvide(p, job) ==
    p \notin {job.client, job.evaluator, job.appealAuthority, job.treasury}

ProviderIsOpen_Late(job) ==                                         \* mutant
    job.status \in {STATUS_FUNDED, STATUS_SUBMITTED}
ProviderIsOpen(job) == job.status = STATUS_FUNDED

\* stx-transfer? fails on a zero amount, on a self-transfer and on a balance
\* too small; otherwise it moves the amount.
CanTransfer(balances, amount, from, to) ==
    amount > 0 /\ from # to /\ balances[from] >= amount
Transfer(balances, amount, from, to) ==
    [balances EXCEPT ![from] = @ - amount, ![to] = @ + amount]

StxTransfer(amount, from, to) ==
    /\ CanTransfer(stx, amount, from, to)
    /\ stx' = Transfer(stx, amount, from, to)

\* What every payment out of the escrow leaves of the escrow-balances map.
EscrowWithout_Kept(j) == escrowBalances                             \* mutant
EscrowWithout(j) == MapDelete(escrowBalances, j)

Recipient_Swapped(job, decision) ==                                 \* mutant
    IF decision = DECISION_APPROVE THEN job.client ELSE job.provider
Recipient(job, decision) ==
    IF decision = DECISION_APPROVE THEN job.provider ELSE job.client
StatusFor(decision) ==
    IF decision = DECISION_APPROVE THEN STATUS_COMPLETED ELSE STATUS_REJECTED
OutcomeFor(decision) ==
    IF decision = DECISION_APPROVE THEN OUTCOME_COMPLETED ELSE OUTCOME_DISPUTED

\* The fee is waived or a fiftieth of the budget; a zero fee is no transfer.
ChargedFee_RoundedUp(j) ==                                          \* mutant
    IF j \in serviceFeeWaivers THEN 0
    ELSE Fee(jobs[j].budget + SERVICE_FEE_DIVISOR - 1)
ChargedFee(j) == IF j \in serviceFeeWaivers THEN 0 ELSE Fee(jobs[j].budget)

FeeIsDue_OffByOne(fee) == fee > 1                                   \* mutant
FeeIsDue(fee) == fee > 0

\* The ledger after both legs of a settlement.
AfterSettlement(balances, j, recipient) ==
    LET fee == ChargedFee(j)
        afterNet == Transfer(balances, jobs[j].budget - fee, Escrow, recipient)
    IN  IF FeeIsDue(fee)
        THEN Transfer(afterNet, fee, Escrow, jobs[j].treasury)
        ELSE afterNet

\* settle-service-payment: both legs and the settlement row, or nothing.
SettleServicePayment(j, recipient) ==
    LET job == jobs[j]
        gross == job.budget
        fee == ChargedFee(j)
        net == gross - fee
        afterNet == Transfer(stx, net, Escrow, recipient)
    IN  /\ j \in DOMAIN decisions
        /\ gross > 0 /\ gross = MapGetOr(escrowBalances, j, 0)
        /\ j \notin DOMAIN serviceFeeSettlements
        /\ job.treasury # recipient
        /\ CanTransfer(stx, net, Escrow, recipient)
        /\ FeeIsDue(fee) => CanTransfer(afterNet, fee, Escrow, job.treasury)
        /\ stx' = AfterSettlement(stx, j, recipient)
        /\ serviceFeeSettlements' = MapSet(serviceFeeSettlements, j,
               [gross |-> gross, recipient |-> recipient, net |-> net,
                chargedFee |-> fee, refundedFee |-> 0])

SyncRow_Dropped(outcome, result) ==                                 \* mutant
    [outcome |-> outcome, lastError |-> result,
     pending |-> result = Registry!ErrOutcomeAlreadyRecorded]
SyncRow(outcome, result) ==
    [outcome |-> outcome, lastError |-> result, pending |-> result # Registry!OK]

\* sync-reputation: a registry error is stored for a retry, never propagated.
SyncReputation(j, agent, outcome) ==
    LET completed == outcome = OUTCOME_COMPLETED
        disputed == outcome = OUTCOME_DISPUTED
        result == Registry!RecordOutcomeResult(Escrow, j, completed, disputed)
    IN  /\ reputationSync' = MapSet(reputationSync, j, SyncRow(outcome, result))
        /\ IF result = Registry!OK
           THEN Registry!RecordJobOutcome(Escrow, agent, j, completed, disputed)
           ELSE UNCHANGED registryVars

-----------------------------------------------------------------------------
(* One-time configuration and the two-step rotations *)

InitializeProtocol(sender, window, newAuthority, treasury) ==
    /\ sender = contractOwner
    /\ ~protocolConfigured
    /\ jobCounter = 0
    /\ window \in AppealWindows
    /\ newAuthority # sender
    /\ treasury \notin {sender, Escrow, newAuthority}
    /\ serviceTreasury' = treasury
    /\ appealWindow' = window
    /\ appealAuthority' = newAuthority
    /\ protocolConfigured' = TRUE
    /\ UNCHANGED <<ownerVars, pendingAppealAuthority, jobVars, decisions,
                   feeVars, moneyVars, reputationVars, timeVars, registryVars>>

ProposeOwner(sender, newOwner) ==
    /\ sender = contractOwner
    /\ newOwner \notin {contractOwner, appealAuthority, serviceTreasury}
    /\ pendingOwner' = newOwner
    /\ UNCHANGED <<contractOwner, authorityVars, configVars, jobVars, decisions,
                   feeVars, moneyVars, reputationVars, timeVars, registryVars>>

AcceptOwner(sender) ==
    /\ sender = pendingOwner
    /\ pendingOwner \notin {appealAuthority, serviceTreasury}
    /\ contractOwner' = pendingOwner
    /\ pendingOwner' = NONE
    /\ UNCHANGED <<authorityVars, configVars, jobVars, decisions, feeVars,
                   moneyVars, reputationVars, timeVars, registryVars>>

CancelOwnerProposal(sender) ==
    /\ sender = contractOwner
    /\ pendingOwner' = NONE
    /\ UNCHANGED <<contractOwner, authorityVars, configVars, jobVars, decisions,
                   feeVars, moneyVars, reputationVars, timeVars, registryVars>>

ProposeAppealAuthority(sender, newAuthority) ==
    /\ sender = contractOwner
    /\ protocolConfigured
    /\ newAuthority \notin {contractOwner, appealAuthority, serviceTreasury}
    /\ pendingAppealAuthority' = newAuthority
    /\ UNCHANGED <<ownerVars, appealAuthority, configVars, jobVars, decisions,
                   feeVars, moneyVars, reputationVars, timeVars, registryVars>>

AcceptAppealAuthority(sender) ==
    /\ sender = pendingAppealAuthority
    /\ MayTakeAuthority(pendingAppealAuthority)
    /\ appealAuthority' = pendingAppealAuthority
    /\ pendingAppealAuthority' = NONE
    /\ UNCHANGED <<ownerVars, configVars, jobVars, decisions, feeVars,
                   moneyVars, reputationVars, timeVars, registryVars>>

CancelAppealAuthorityProposal(sender) ==
    /\ sender = contractOwner
    /\ pendingAppealAuthority' = NONE
    /\ UNCHANGED <<ownerVars, appealAuthority, configVars, jobVars, decisions,
                   feeVars, moneyVars, reputationVars, timeVars, registryVars>>

-----------------------------------------------------------------------------
(* Job lifecycle *)

CreateJob(sender, provider, evaluator, expiredAt) ==
    LET newId == jobCounter + 1
    IN  /\ jobCounter < MaxJobs
        /\ protocolConfigured
        /\ expiredAt > stacksHeight
        /\ evaluator \notin {sender, appealAuthority, provider, serviceTreasury}
        /\ sender \notin {appealAuthority, provider, serviceTreasury}
        /\ provider \notin {appealAuthority, serviceTreasury}
        /\ jobs' = MapSet(jobs, newId,
               [client |-> sender, provider |-> provider,
                evaluator |-> evaluator, appealAuthority |-> appealAuthority,
                treasury |-> serviceTreasury, budget |-> 0,
                expiredAt |-> expiredAt, status |-> STATUS_OPEN,
                submittedAtBurn |-> NONE, reviewDeadline |-> NONE])
        /\ jobCounter' = newId
        /\ UNCHANGED <<governanceVars, decisions, feeVars, moneyVars,
                       reputationVars, timeVars, registryVars>>

SetBudget(sender, j, amount) ==
    /\ j \in DOMAIN jobs
    /\ jobs[j].status = STATUS_OPEN
    /\ jobs[j].client = sender
    /\ amount > 0
    /\ jobs' = [jobs EXCEPT ![j].budget = amount]
    /\ UNCHANGED <<governanceVars, jobCounter, decisions, feeVars, moneyVars,
                   reputationVars, timeVars, registryVars>>

FundJob(sender, j) ==
    /\ j \in DOMAIN jobs
    /\ jobs[j].status = STATUS_OPEN
    /\ jobs[j].client = sender
    /\ jobs[j].budget > 0
    /\ j \notin DOMAIN escrowBalances
    /\ stacksHeight < jobs[j].expiredAt
    /\ StxTransfer(jobs[j].budget, sender, Escrow)
    /\ escrowBalances' = MapSet(escrowBalances, j, jobs[j].budget)
    /\ jobs' = [jobs EXCEPT ![j].status = STATUS_FUNDED]
    /\ UNCHANGED <<governanceVars, jobCounter, decisions, feeVars,
                   reputationVars, timeVars, registryVars>>

\* The client may name another provider as long as no work is submitted.
AssignProvider(sender, j, provider) ==
    /\ j \in DOMAIN jobs
    /\ ProviderIsOpen(jobs[j])
    /\ jobs[j].client = sender
    /\ MayProvide(provider, jobs[j])
    /\ jobs' = [jobs EXCEPT ![j].provider = provider]
    /\ UNCHANGED <<governanceVars, jobCounter, decisions, feeVars, moneyVars,
                   reputationVars, timeVars, registryVars>>

SubmitWork(sender, j) ==
    /\ j \in DOMAIN jobs
    /\ jobs[j].status = STATUS_FUNDED
    /\ sender = jobs[j].provider
    /\ stacksHeight < jobs[j].expiredAt
    /\ jobs' = [jobs EXCEPT ![j].status = STATUS_SUBMITTED,
                            ![j].submittedAtBurn = burnHeight,
                            ![j].reviewDeadline = burnHeight + ReviewWindow]
    /\ UNCHANGED <<governanceVars, jobCounter, decisions, feeVars, moneyVars,
                   reputationVars, timeVars, registryVars>>

RecordDecision(sender, j, decision, evidenceHash, explanationHash) ==
    /\ j \in DOMAIN jobs
    /\ jobs[j].status = STATUS_SUBMITTED
    /\ jobs[j].evaluator = sender
    /\ ~Passed(jobs[j].reviewDeadline)
    /\ IsValidDecision(decision)
    /\ IsValidHash(evidenceHash) /\ IsValidHash(explanationHash)
    /\ decisions' = MapSet(decisions, j,
           [original |-> decision, final |-> NONE,
            decidedAtBurn |-> burnHeight,
            appealDeadline |-> burnHeight + appealWindow,
            appealedBy |-> NONE, resolutionDeadline |-> NONE,
            finalizedBy |-> NONE, finalizedAtBurn |-> NONE])
    /\ jobs' = [jobs EXCEPT ![j].status = STATUS_DECISION_PENDING]
    /\ UNCHANGED <<governanceVars, jobCounter, feeVars, moneyVars,
                   reputationVars, timeVars, registryVars>>

\* Only the party the decision went against may appeal.
AppealDecision(sender, j, appealEvidenceHash) ==
    /\ j \in DOMAIN jobs /\ j \in DOMAIN decisions
    /\ jobs[j].provider # NONE
    /\ jobs[j].status = STATUS_DECISION_PENDING
    /\ ~Passed(decisions[j].appealDeadline)
    /\ IsValidHash(appealEvidenceHash)
    /\ sender = IF decisions[j].original = DECISION_APPROVE
                THEN jobs[j].client ELSE jobs[j].provider
    /\ decisions' = [decisions EXCEPT
           ![j].appealedBy = sender,
           ![j].resolutionDeadline = burnHeight + appealWindow]
    /\ jobs' = [jobs EXCEPT ![j].status = STATUS_DISPUTED]
    /\ UNCHANGED <<governanceVars, jobCounter, feeVars, moneyVars,
                   reputationVars, timeVars, registryVars>>

\* The body shared by finalize-decision, resolve-appeal and
\* settle-appeal-timeout: pay, clear the escrow, close the job and the
\* decision, report the outcome.
Settle(sender, j, decision) ==
    /\ SettleServicePayment(j, Recipient(jobs[j], decision))
    /\ escrowBalances' = EscrowWithout(j)
    /\ jobs' = [jobs EXCEPT ![j].status = StatusFor(decision)]
    /\ decisions' = [decisions EXCEPT ![j].final = decision,
                                      ![j].finalizedBy = sender,
                                      ![j].finalizedAtBurn = burnHeight]
    /\ SyncReputation(j, jobs[j].provider, OutcomeFor(decision))
    /\ UNCHANGED <<governanceVars, jobCounter, serviceFeeWaivers, jobRatings,
                   timeVars>>

FinalizeDecision(sender, j) ==
    /\ j \in DOMAIN jobs /\ j \in DOMAIN decisions
    /\ jobs[j].provider # NONE
    /\ jobs[j].status = STATUS_DECISION_PENDING
    /\ Passed(decisions[j].appealDeadline)
    /\ Settle(sender, j, decisions[j].original)

ResolveAppeal(sender, j, finalDecision, resolutionHash) ==
    /\ j \in DOMAIN jobs /\ j \in DOMAIN decisions
    /\ decisions[j].resolutionDeadline # NONE
    /\ jobs[j].provider # NONE
    /\ jobs[j].status = STATUS_DISPUTED
    /\ sender = jobs[j].appealAuthority
    /\ ~Passed(decisions[j].resolutionDeadline)
    /\ IsValidDecision(finalDecision)
    /\ IsValidHash(resolutionHash)
    /\ Settle(sender, j, finalDecision)

SettleAppealTimeout(sender, j) ==
    /\ j \in DOMAIN jobs /\ j \in DOMAIN decisions
    /\ decisions[j].resolutionDeadline # NONE
    /\ jobs[j].provider # NONE
    /\ jobs[j].status = STATUS_DISPUTED
    /\ Passed(decisions[j].resolutionDeadline)
    /\ Settle(sender, j, decisions[j].original)

\* No decision, no fee, no outcome: the provider gets the gross budget.
SettleReviewTimeout(sender, j) ==
    /\ j \in DOMAIN jobs
    /\ jobs[j].provider # NONE
    /\ jobs[j].reviewDeadline # NONE
    /\ jobs[j].status = STATUS_SUBMITTED
    /\ Passed(jobs[j].reviewDeadline)
    /\ StxTransfer(jobs[j].budget, Escrow, jobs[j].provider)
    /\ escrowBalances' = EscrowWithout(j)
    /\ jobs' = [jobs EXCEPT ![j].status = STATUS_TIMEOUT_PAID]
    /\ UNCHANGED <<governanceVars, jobCounter, decisions, feeVars,
                   reputationVars, timeVars, registryVars>>

ExpireJob(sender, j) ==
    LET escrowed == MapGetOr(escrowBalances, j, 0)
    IN  /\ j \in DOMAIN jobs
        /\ stacksHeight >= jobs[j].expiredAt
        /\ jobs[j].status \in {STATUS_OPEN, STATUS_FUNDED}
        /\ IF escrowed > 0
           THEN /\ StxTransfer(escrowed, Escrow, jobs[j].client)
                /\ escrowBalances' = EscrowWithout(j)
           ELSE UNCHANGED moneyVars
        /\ jobs' = [jobs EXCEPT ![j].status = STATUS_EXPIRED]
        /\ UNCHANGED <<governanceVars, jobCounter, decisions, feeVars,
                       reputationVars, timeVars, registryVars>>

-----------------------------------------------------------------------------
(* Fee waiver and refund *)

WaiveServiceFee(sender, j, evidenceHash) ==
    /\ j \in DOMAIN jobs
    /\ sender = jobs[j].appealAuthority
    /\ IsValidHash(evidenceHash)
    /\ j \in DOMAIN decisions
    /\ j \notin serviceFeeWaivers
    /\ serviceFeeWaivers' = serviceFeeWaivers \cup {j}
    /\ UNCHANGED <<governanceVars, jobVars, decisions, serviceFeeSettlements,
                   moneyVars, reputationVars, timeVars, registryVars>>

\* The pinned treasury pays the fee back out of its own balance.
RefundPayer_Pooled(j) == Escrow                                     \* mutant
RefundPayer(j) == jobs[j].treasury
RefundServiceFee(sender, j) ==
    /\ j \in DOMAIN jobs /\ j \in DOMAIN serviceFeeSettlements
    /\ sender = jobs[j].treasury
    /\ j \in serviceFeeWaivers
    /\ LET s == serviceFeeSettlements[j]
       IN  StxTransfer(s.chargedFee - s.refundedFee, RefundPayer(j), s.recipient)
    /\ serviceFeeSettlements' = [serviceFeeSettlements EXCEPT
           ![j].refundedFee = serviceFeeSettlements[j].chargedFee]
    /\ UNCHANGED <<governanceVars, jobVars, decisions, serviceFeeWaivers,
                   escrowBalances, reputationVars, timeVars, registryVars>>

-----------------------------------------------------------------------------
(* Reputation *)

RetryReputationSync(sender, j) ==
    /\ j \in DOMAIN jobs /\ j \in DOMAIN reputationSync
    /\ jobs[j].provider # NONE
    /\ reputationSync[j].pending
    /\ jobs[j].status \in {STATUS_COMPLETED, STATUS_REJECTED}
    /\ SyncReputation(j, jobs[j].provider, reputationSync[j].outcome)
    /\ UNCHANGED <<governanceVars, jobVars, decisions, feeVars, moneyVars,
                   jobRatings, timeVars>>

\* Unlike an outcome, a rating the registry refuses is rolled back.
RateProvider(sender, j, score) ==
    LET key == [jobId |-> j, rater |-> sender]
    IN  /\ j \in DOMAIN jobs
        /\ jobs[j].provider # NONE
        /\ jobs[j].status = STATUS_COMPLETED
        /\ sender \in {jobs[j].client, jobs[j].evaluator}
        /\ score >= 1 /\ score <= 5
        /\ key \notin DOMAIN jobRatings
        /\ jobRatings' = MapSet(jobRatings, key, score)
        /\ Registry!SubmitRating(Escrow, jobs[j].provider, sender, score, j)
        /\ UNCHANGED <<governanceVars, jobVars, decisions, feeVars, moneyVars,
                       reputationSync, timeVars>>

-----------------------------------------------------------------------------
(* The chain and the rest of the world *)

commerceVars == <<governanceVars, jobVars, decisions, feeVars, reputationVars,
                  escrowBalances>>

\* The two heights are independent clocks: block-height bounds funding and
\* submission, burn-block-height bounds review, appeal and resolution.
AdvanceStacksBlock ==
    /\ stacksHeight < MaxStacksHeight
    /\ stacksHeight' = stacksHeight + 1
    /\ UNCHANGED <<commerceVars, stx, burnHeight, registryVars>>

AdvanceBurnBlock ==
    /\ burnHeight < MaxBurnHeight
    /\ burnHeight' = burnHeight + 1
    /\ UNCHANGED <<commerceVars, stx, stacksHeight, registryVars>>

\* An ordinary STX transfer signed by any account, the escrow's address
\* included among the payees.
ExternalTransfer(sender, to, amount) ==
    /\ StxTransfer(amount, sender, to)
    /\ UNCHANGED <<commerceVars, timeVars, registryVars>>

\* The registry's owner, and the other sources it may have authorised.
RegistryStep(sender) ==
    /\ Registry!Administration(sender) \/ Registry!Report(sender)
    /\ UNCHANGED <<commerceVars, stx, timeVars>>

-----------------------------------------------------------------------------
Init ==
    /\ contractOwner = Deployer /\ pendingOwner = NONE
    /\ protocolConfigured = FALSE /\ appealWindow = 0
    /\ appealAuthority = Deployer /\ pendingAppealAuthority = NONE
    /\ serviceTreasury = Deployer
    /\ jobCounter = 0 /\ jobs = EmptyMap /\ decisions = EmptyMap
    /\ serviceFeeWaivers = {} /\ serviceFeeSettlements = EmptyMap
    /\ escrowBalances = EmptyMap
    /\ jobRatings = EmptyMap /\ reputationSync = EmptyMap
    /\ stx = InitialSTX /\ stacksHeight = 0 /\ burnHeight = 0
    /\ Registry!RegistryInit

Governance(sender) ==
    \/ \E w \in AppealWindows, authority, treasury \in Principals :
           InitializeProtocol(sender, w, authority, treasury)
    \/ \E p \in Principals : ProposeOwner(sender, p)
    \/ AcceptOwner(sender)
    \/ CancelOwnerProposal(sender)
    \/ \E p \in Principals : ProposeAppealAuthority(sender, p)
    \/ AcceptAppealAuthority(sender)
    \/ CancelAppealAuthorityProposal(sender)

Hiring(sender) ==
    \/ \E p \in Principals \cup {NONE}, e \in Principals,
          expiredAt \in Nat : CreateJob(sender, p, e, expiredAt)
    \/ \E j \in JobIds :
        \/ \E amount \in Budgets : SetBudget(sender, j, amount)
        \/ FundJob(sender, j)
        \/ \E p \in Principals : AssignProvider(sender, j, p)
        \/ SubmitWork(sender, j)

Judging(sender) ==
    \E j \in JobIds, hash \in Hashes :
        \/ \E decision \in 0..3, explanationHash \in Hashes :
               RecordDecision(sender, j, decision, hash, explanationHash)
        \/ AppealDecision(sender, j, hash)
        \/ \E decision \in 0..3 : ResolveAppeal(sender, j, decision, hash)
        \/ WaiveServiceFee(sender, j, hash)

\* The calls any account may make once a deadline has passed.
Permissionless(sender, j) ==
    \/ FinalizeDecision(sender, j)
    \/ SettleAppealTimeout(sender, j)
    \/ SettleReviewTimeout(sender, j)
    \/ ExpireJob(sender, j)

Aftermath(sender) ==
    \E j \in JobIds :
        \/ RefundServiceFee(sender, j)
        \/ RetryReputationSync(sender, j)
        \/ \E score \in Scores : RateProvider(sender, j, score)

World ==
    \/ AdvanceStacksBlock
    \/ AdvanceBurnBlock
    \/ \E sender \in Users, to \in Principals, amount \in ExternalAmounts :
           ExternalTransfer(sender, to, amount)
    \/ \E sender \in Users : RegistryStep(sender)

Next ==
    \/ \E sender \in Users :
        \/ Governance(sender)
        \/ Hiring(sender)
        \/ Judging(sender)
        \/ \E j \in JobIds : Permissionless(sender, j)
        \/ Aftermath(sender)
    \/ World

Spec == Init /\ [][Next]_vars

GovernanceTypeOK ==
    /\ {contractOwner, appealAuthority, serviceTreasury} \subseteq Principals
    /\ {pendingOwner, pendingAppealAuthority} \subseteq Principals \cup {NONE}
    /\ protocolConfigured \in BOOLEAN
    /\ appealWindow \in Nat

JobsTypeOK ==
    /\ jobCounter \in 0..MaxJobs
    /\ jobs \in [1..jobCounter -> Job]

MapsTypeOK ==
    /\ IsMap(decisions, 1..jobCounter, Decision)
    /\ serviceFeeWaivers \subseteq 1..jobCounter
    /\ IsMap(serviceFeeSettlements, 1..jobCounter, Settlement)
    /\ IsMap(escrowBalances, 1..jobCounter, Nat)
    /\ IsMap(jobRatings, [jobId : 1..jobCounter, rater : Principals], 1..5)
    /\ IsMap(reputationSync, 1..jobCounter, Sync)

ChainTypeOK ==
    /\ stx \in [Principals -> Nat]
    /\ stacksHeight \in 0..MaxStacksHeight
    /\ burnHeight \in 0..MaxBurnHeight

TypeOK == GovernanceTypeOK /\ JobsTypeOK /\ MapsTypeOK /\ ChainTypeOK
          /\ Registry!TypeOK

-----------------------------------------------------------------------------
(* Invariants *)

\* The statuses in which the contract keeps the job's money.
HeldStatuses == {STATUS_FUNDED, STATUS_SUBMITTED, STATUS_DECISION_PENDING,
                 STATUS_DISPUTED}
SettledStatuses == {STATUS_COMPLETED, STATUS_REJECTED}
DecidedStatuses == SettledStatuses \cup {STATUS_DECISION_PENDING, STATUS_DISPUTED}

\* What an escrow-balances map owes for all jobs together.
Owed(balances) ==
    LET upTo[n \in 0..MaxJobs] ==
            IF n = 0 THEN 0 ELSE upTo[n - 1] + MapGetOr(balances, n, 0)
    IN  upTo[MaxJobs]

\* The STX the contract holds covers the recorded escrow of every job at once:
\* no settlement, timeout, expiry or refund of one job is paid out of another's.
EscrowBacked == stx[Escrow] >= Owed(escrowBalances)

\* The escrow row of a job exists exactly while its status says the money is
\* held, and it is the budget the parties agreed on: the three maps that
\* describe the money of a job (jobs, escrow-balances, decisions) never disagree.
EscrowMatchesStatus ==
    \A j \in DOMAIN jobs :
        /\ j \in DOMAIN escrowBalances <=> jobs[j].status \in HeldStatuses
        /\ j \in DOMAIN escrowBalances =>
               escrowBalances[j] = jobs[j].budget /\ jobs[j].budget > 0

\* Once configured, owner, appeal authority and treasury are three different
\* principals, whatever the order in which two overlapping rotations (and a
\* proposal made before the configuration) are accepted.
GovernanceSeparated ==
    protocolConfigured =>
        /\ contractOwner # appealAuthority
        /\ contractOwner # serviceTreasury
        /\ appealAuthority # serviceTreasury

\* In every job the client, the evaluator, the pinned authority, the pinned
\* treasury and the provider (when named) are different principals, also when
\* the authority rotated or the client changed the provider in between: nobody
\* judges or is paid twice in a case of their own.
JobPartiesSeparated ==
    \A j \in DOMAIN jobs :
        LET job == jobs[j]
        IN  /\ job.client \notin {job.evaluator, job.appealAuthority, job.treasury}
            /\ job.evaluator \notin {job.appealAuthority, job.treasury}
            /\ job.appealAuthority # job.treasury
            /\ job.provider \notin {job.client, job.evaluator,
                                    job.appealAuthority, job.treasury}

\* Nobody judges or is paid in two roles: neither of the protocol nor of a job,
\* although its rotations and the assignments of providers interleave.
RolesSeparated == GovernanceSeparated /\ JobPartiesSeparated

\* A decision is reached in time and becomes final in due process: an unappealed
\* one after its appeal window, an appealed one by the job's own authority or
\* after the resolution window; only the loser appeals, and only an appeal
\* decided by the authority inside its window overturns the evaluator.
DueProcess ==
    \A j \in DOMAIN decisions :
        LET d == decisions[j]
            loser == IF d.original = DECISION_APPROVE
                     THEN jobs[j].client ELSE jobs[j].provider
            byAuthority == /\ d.appealedBy # NONE
                           /\ d.finalizedBy = jobs[j].appealAuthority
                           /\ d.finalizedAtBurn <= d.resolutionDeadline
        IN  /\ d.decidedAtBurn <= jobs[j].reviewDeadline
            /\ d.appealedBy \in {NONE, loser}
            /\ d.final # NONE =>
                \/ byAuthority
                \/ /\ d.final = d.original
                   /\ d.finalizedAtBurn > (IF d.appealedBy = NONE
                                           THEN d.appealDeadline
                                           ELSE d.resolutionDeadline)

\* What App/src/services/service-fees.ts demands of get-job-service-fee before
\* it shows or signs anything (parseServiceFeeState throws otherwise): every
\* state the contract can reach passes the app's consistency check.
FeeStateReadable ==
    \A j \in DOMAIN jobs :
        LET job == jobs[j]
            settled == j \in DOMAIN serviceFeeSettlements
            waived == j \in serviceFeeWaivers
            s == serviceFeeSettlements[j]
        IN  /\ job.treasury = serviceTreasury
            /\ serviceTreasury \notin {job.client, job.provider, job.evaluator,
                                       job.appealAuthority, appealAuthority}
            /\ j \in DOMAIN decisions <=> job.status \in DecidedStatuses
            /\ waived => j \in DOMAIN decisions
            /\ settled <=> job.status \in SettledStatuses
            /\ settled =>
                /\ job.budget > 0 /\ s.gross = job.budget
                /\ s.net + s.chargedFee = s.gross
                /\ s.recipient = IF job.status = STATUS_COMPLETED
                                 THEN job.provider ELSE job.client
                /\ s.chargedFee = Fee(job.budget) \/ (waived /\ s.chargedFee = 0)
                /\ s.refundedFee = 0 \/ (waived /\ s.refundedFee = s.chargedFee)

\* The retry queue and the registry agree: a settled job is pending exactly
\* while the registry has no outcome of it, for the one reason that the escrow
\* is not an authorised caller, and a recorded outcome names the paid provider
\* and the final decision.  A retry can therefore neither be refused as a
\* duplicate nor count a job twice.
ReputationFollowsOutcome ==
    \A j \in DOMAIN jobs :
        LET job == jobs[j]
            key == [source |-> Escrow, jobId |-> j]
            sync == reputationSync[j]
        IN  /\ j \in DOMAIN reputationSync <=> job.status \in SettledStatuses
            /\ j \in DOMAIN reputationSync =>
                /\ sync.pending <=> key \notin DOMAIN jobOutcomes
                /\ sync.pending => sync.lastError = Registry!ErrNotAuthorized
                /\ sync.outcome = IF job.status = STATUS_COMPLETED
                                  THEN OUTCOME_COMPLETED ELSE OUTCOME_DISPUTED
            /\ key \in DOMAIN jobOutcomes =>
                /\ job.status \in SettledStatuses
                /\ jobOutcomes[key] =
                       [agent |-> job.provider,
                        completed |-> job.status = STATUS_COMPLETED,
                        disputed |-> job.status = STATUS_REJECTED]

-----------------------------------------------------------------------------
(* Action properties *)

\* A step moves the contract's STX by exactly what it changes in the recorded
\* escrow, except for a gift from outside, which changes no record.
EscrowConservation ==
    [][\/ stx'[Escrow] - stx[Escrow] = Owed(escrowBalances') - Owed(escrowBalances)
       \/ stx'[Escrow] > stx[Escrow] /\ UNCHANGED commerceVars]_vars

\* What a party relied on when it acted cannot be changed under it: roles and
\* expiry from creation, the budget from funding, the provider from submission,
\* the decision, its deadlines and the appeal from recording, and the final
\* decision, the settlement and the waiver for ever.
CommitmentsAreKept ==
    [][/\ \A j \in DOMAIN jobs :
            LET old == jobs[j]
                new == jobs'[j]
            IN  /\ old.client = new.client /\ old.evaluator = new.evaluator
                /\ old.appealAuthority = new.appealAuthority
                /\ old.treasury = new.treasury /\ old.expiredAt = new.expiredAt
                /\ old.budget = new.budget \/ new.status = STATUS_OPEN
                /\ old.provider = new.provider \/ new.status = STATUS_FUNDED
                /\ old.reviewDeadline \in {NONE, new.reviewDeadline}
                /\ old.status \notin HeldStatuses \cup {STATUS_OPEN}
                   => new.status = old.status
       /\ \A j \in DOMAIN decisions :
            LET old == decisions[j]
                new == decisions'[j]
            IN  /\ old.original = new.original
                /\ old.appealDeadline = new.appealDeadline
                /\ old.appealedBy \in {NONE, new.appealedBy}
                /\ old.resolutionDeadline \in {NONE, new.resolutionDeadline}
                /\ old.final # NONE => new = old
       /\ \A j \in DOMAIN serviceFeeSettlements :
            LET old == serviceFeeSettlements[j]
                new == serviceFeeSettlements'[j]
            IN  new \in {old, [old EXCEPT !.refundedFee = old.chargedFee]}
       /\ serviceFeeWaivers \subseteq serviceFeeWaivers']_vars

-----------------------------------------------------------------------------
(* Liveness *)

\* Blocks keep coming, and for every job some account eventually makes the call
\* that its passed deadline opened to everyone.  Nothing is assumed of the
\* client, the provider, the evaluator, the authority or the treasury.
Fairness ==
    /\ WF_vars(AdvanceStacksBlock) /\ WF_vars(AdvanceBurnBlock)
    /\ \A j \in JobIds : WF_vars(\E sender \in Users : Permissionless(sender, j))

FairSpec == Spec /\ Fairness

\* No escrow is held for ever, whichever of its parties stops acting.
EscrowIsReleased ==
    \A j \in JobIds : j \in DOMAIN escrowBalances ~> j \notin DOMAIN escrowBalances

-----------------------------------------------------------------------------
(* The contract keeps the promise of EscrowPromise *)

DepositOf(j) ==
    IF j \notin DOMAIN escrowBalances THEN NONE
    ELSE [payer |-> jobs[j].client, amount |-> escrowBalances[j],
          worker |-> IF jobs[j].status = STATUS_FUNDED
                     THEN NONE ELSE jobs[j].provider]

Closed == {j \in DOMAIN jobs :
               jobs[j].status \notin HeldStatuses \cup {STATUS_OPEN}}

Promise == INSTANCE EscrowPromise WITH
               Vault <- Escrow, Jobs <- JobIds, closed <- Closed,
               deposit <- [j \in JobIds |-> DepositOf(j)]

\* Whatever the interleaving of the parties, the clocks, the rotations and the
\* registry, the money of a job moves as EscrowPromise says.
KeepsPromise == Promise!Spec

=============================================================================
