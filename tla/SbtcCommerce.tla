---------------------------- MODULE SbtcCommerce ----------------------------
(***************************************************************************)
(* contracts/sbtc-commerce-v5.clar: the same job lifecycle as              *)
(* agentic-commerce-v6, paid in SIP-010 tokens.  The owner names a default *)
(* token for jobs funded from now on; a job pins the default of its        *)
(* funding and is settled, refunded and expired in that token only.        *)
(*                                                                         *)
(* The two contracts share their rules word for word except for the money, *)
(* so this module instantiates AgenticCommerce with the ledger of a token  *)
(* in place of the STX ledger and adds what a token changes.  A token is   *)
(* external code: it keeps honest balances, and it may refuse to pay a     *)
(* recipient (an error or ok false), which rolls the whole call back.      *)
(***************************************************************************)
EXTENDS Integers, FiniteSets, ClarityMaps, ServiceFee

CONSTANTS
    Principals, Escrow, Deployer, RegistryDeployer, NONE, \* as in
    ReviewWindow, AppealWindows, Budgets, Scores,         \* AgenticCommerce
    ExternalAmounts, MaxJobs, MaxStacksHeight, MaxBurnHeight,
    Tokens,             \* the principals that are SIP-010 tokens
    InitialBalances     \* per token, the balances at deployment

ASSUME TokensAssumption ==
    Tokens \subseteq Principals /\ Tokens # {} /\ IsFiniteSet(Tokens)
ASSUME SbtcPrincipalsAssumption ==
    /\ {Escrow, Deployer, RegistryDeployer} \subseteq Principals
    /\ Escrow \notin {Deployer, RegistryDeployer}
    /\ NONE \notin Principals \cup Int
ASSUME BalancesAssumption ==
    /\ InitialBalances \in [Tokens -> [Principals -> Nat]]
    /\ \A token \in Tokens : InitialBalances[token][Escrow] = 0
\* The rest as in AgenticCommerce.
ASSUME SbtcNoneAssumption ==
    NONE \notin [payer : Principals, amount : Nat, worker : Principals \cup {NONE}]
ASSUME SbtcWindowAssumption == ReviewWindow \in Nat /\ AppealWindows \subseteq Nat
ASSUME SbtcInputAssumption ==
    Budgets \subseteq Nat /\ Scores \subseteq Nat /\ ExternalAmounts \subseteq Nat
ASSUME SbtcBoundAssumption ==
    MaxJobs \in Nat /\ MaxStacksHeight \in Nat /\ MaxBurnHeight \in Nat

VARIABLES
    contractOwner, pendingOwner, protocolConfigured, appealWindow,
    appealAuthority, pendingAppealAuthority, serviceTreasury,
    jobCounter, jobs, decisions, serviceFeeWaivers, serviceFeeSettlements,
    escrowBalances, jobRatings, reputationSync, stacksHeight, burnHeight,
    registryOwner, pendingRegistryOwner, protocolCallers, agentReputation,
    ratings, jobOutcomes,
    \* what is new here
    paymentToken,       \* the default for future funding only
    jobPaymentTokens,   \* job -> the token it was funded with
    balances,           \* token -> the balances it keeps
    refused             \* the <<token, recipient>> pairs a token rejects now

tokenVars == <<paymentToken, jobPaymentTokens, balances, refused>>

\* The job lifecycle, paid in one token.
In(token) == INSTANCE AgenticCommerce WITH
                 stx <- balances[token], InitialSTX <- InitialBalances[token]

\* The calls that move no money: any token's view of them is the same.
AnyToken == CHOOSE token \in Tokens : TRUE
Lifecycle == INSTANCE AgenticCommerce WITH
                 stx <- balances[AnyToken], InitialSTX <- InitialBalances[AnyToken]

JobIds == Lifecycle!JobIds
Users == Lifecycle!Users
Hashes == Lifecycle!Hashes
lifecycleVars ==
    <<contractOwner, pendingOwner, protocolConfigured, appealWindow,
      appealAuthority, pendingAppealAuthority, serviceTreasury,
      jobCounter, jobs, decisions, serviceFeeWaivers, serviceFeeSettlements,
      escrowBalances, jobRatings, reputationSync, stacksHeight, burnHeight,
      registryOwner, pendingRegistryOwner, protocolCallers, agentReputation,
      ratings, jobOutcomes>>
vars == <<lifecycleVars, tokenVars>>

-----------------------------------------------------------------------------
(* Tokens *)

Accepts(token, recipient) == <<token, recipient>> \notin refused

CheckJobToken_Default(j, token) == token = paymentToken             \* mutant
CheckJobToken(j, token) ==
    j \in DOMAIN jobPaymentTokens /\ jobPaymentTokens[j] = token

\* The token's ledger becomes the given one; no other token's does.
Moves(token, ledger) ==
    /\ balances' = [balances EXCEPT ![token] = ledger]
    /\ UNCHANGED <<paymentToken, refused>>

SetPaymentToken(sender, token) ==
    /\ sender = contractOwner
    /\ paymentToken' = token
    /\ UNCHANGED <<lifecycleVars, jobPaymentTokens, balances, refused>>

-----------------------------------------------------------------------------
(* The calls that move no token *)

Governance(sender) == Lifecycle!Governance(sender) /\ UNCHANGED tokenVars

CreateJob(sender, provider, evaluator, expiredAt) ==
    /\ UNCHANGED tokenVars
    /\ Lifecycle!CreateJob(sender, provider, evaluator, expiredAt)

SetBudget(sender, j, amount) ==
    UNCHANGED tokenVars /\ Lifecycle!SetBudget(sender, j, amount)

AssignProvider(sender, j, provider) ==
    UNCHANGED tokenVars /\ Lifecycle!AssignProvider(sender, j, provider)

SubmitWork(sender, j) == UNCHANGED tokenVars /\ Lifecycle!SubmitWork(sender, j)

RecordDecision(sender, j, decision, evidenceHash, explanationHash) ==
    /\ UNCHANGED tokenVars
    /\ Lifecycle!RecordDecision(sender, j, decision, evidenceHash, explanationHash)

AppealDecision(sender, j, hash) ==
    UNCHANGED tokenVars /\ Lifecycle!AppealDecision(sender, j, hash)

WaiveServiceFee(sender, j, hash) ==
    UNCHANGED tokenVars /\ Lifecycle!WaiveServiceFee(sender, j, hash)

RetryReputationSync(sender, j) ==
    UNCHANGED tokenVars /\ Lifecycle!RetryReputationSync(sender, j)

RateProvider(sender, j, score) ==
    UNCHANGED tokenVars /\ Lifecycle!RateProvider(sender, j, score)

-----------------------------------------------------------------------------
(* The calls that move a token; the caller passes the token contract *)

FundJob(sender, j, token) ==
    /\ token = paymentToken
    /\ j \in DOMAIN jobs
    /\ Accepts(token, Escrow)
    /\ Moves(token, In(token)!Transfer(balances[token], jobs[j].budget, sender, Escrow))
    /\ jobPaymentTokens' = MapSet(jobPaymentTokens, j, token)
    /\ In(token)!FundJob(sender, j)

\* settle-service-payment: a refusal of either leg rolls both back.
SettleServicePayment(j, decision, token) ==
    LET recipient == Lifecycle!Recipient(jobs[j], decision)
    IN  /\ CheckJobToken(j, token)
        /\ Accepts(token, recipient)
        /\ Lifecycle!FeeIsDue(Lifecycle!ChargedFee(j)) =>
               Accepts(token, jobs[j].treasury)
        /\ Moves(token, In(token)!AfterSettlement(balances[token], j, recipient))
        /\ UNCHANGED jobPaymentTokens

FinalizeDecision(sender, j, token) ==
    /\ j \in DOMAIN decisions
    /\ SettleServicePayment(j, decisions[j].original, token)
    /\ In(token)!FinalizeDecision(sender, j)

ResolveAppeal(sender, j, finalDecision, hash, token) ==
    /\ j \in DOMAIN decisions
    /\ SettleServicePayment(j, finalDecision, token)
    /\ In(token)!ResolveAppeal(sender, j, finalDecision, hash)

SettleAppealTimeout(sender, j, token) ==
    /\ j \in DOMAIN decisions
    /\ SettleServicePayment(j, decisions[j].original, token)
    /\ In(token)!SettleAppealTimeout(sender, j)

SettleReviewTimeout(sender, j, token) ==
    /\ j \in DOMAIN jobs /\ jobs[j].provider # NONE
    /\ CheckJobToken(j, token)
    /\ Accepts(token, jobs[j].provider)
    /\ Moves(token, In(token)!Transfer(balances[token], jobs[j].budget,
                                       Escrow, jobs[j].provider))
    /\ UNCHANGED jobPaymentTokens
    /\ In(token)!SettleReviewTimeout(sender, j)

\* An expired job that was never funded has no token to check.
ExpireJob(sender, j, token) ==
    LET escrowed == MapGetOr(escrowBalances, j, 0)
    IN  /\ j \in DOMAIN jobs
        /\ IF escrowed > 0
           THEN /\ CheckJobToken(j, token)
                /\ Accepts(token, jobs[j].client)
                /\ Moves(token, In(token)!Transfer(balances[token], escrowed,
                                                   Escrow, jobs[j].client))
                /\ UNCHANGED jobPaymentTokens
           ELSE UNCHANGED tokenVars
        /\ In(token)!ExpireJob(sender, j)

\* Refunded in the token that was charged, whatever the default is by then.
RefundServiceFee(sender, j, token) ==
    LET s == serviceFeeSettlements[j]
    IN  /\ j \in DOMAIN jobs /\ j \in DOMAIN serviceFeeSettlements
        /\ CheckJobToken(j, token)
        /\ Accepts(token, s.recipient)
        /\ Moves(token, In(token)!Transfer(balances[token],
                            s.chargedFee - s.refundedFee, sender, s.recipient))
        /\ UNCHANGED jobPaymentTokens
        /\ In(token)!RefundServiceFee(sender, j)

-----------------------------------------------------------------------------
(* The chain and the tokens *)

AdvanceBlocks ==
    /\ UNCHANGED tokenVars
    /\ Lifecycle!AdvanceStacksBlock \/ Lifecycle!AdvanceBurnBlock

\* A transfer of a token outside the contract.
ExternalTransfer(sender, to, amount, token) ==
    /\ In(token)!CanTransfer(balances[token], amount, sender, to)
    /\ Accepts(token, to)
    /\ Moves(token, In(token)!Transfer(balances[token], amount, sender, to))
    /\ UNCHANGED <<lifecycleVars, jobPaymentTokens>>

\* A token starts or stops refusing a recipient.
TokenPolicy(token, recipient) ==
    /\ refused' = (IF Accepts(token, recipient)
                   THEN refused \cup {<<token, recipient>>}
                   ELSE refused \ {<<token, recipient>>})
    /\ UNCHANGED <<lifecycleVars, paymentToken, jobPaymentTokens, balances>>

RegistryStep(sender) == UNCHANGED tokenVars /\ Lifecycle!RegistryStep(sender)

-----------------------------------------------------------------------------
Init ==
    /\ balances = InitialBalances
    /\ Lifecycle!Init
    /\ paymentToken = Deployer /\ jobPaymentTokens = EmptyMap /\ refused = {}

Hiring(sender) ==
    \/ \E p \in Principals \cup {NONE}, e \in Principals,
          expiredAt \in Nat : CreateJob(sender, p, e, expiredAt)
    \/ \E j \in JobIds :
        \/ \E amount \in Budgets : SetBudget(sender, j, amount)
        \/ \E token \in Tokens : FundJob(sender, j, token)
        \/ \E p \in Principals : AssignProvider(sender, j, p)
        \/ SubmitWork(sender, j)

Judging(sender) ==
    \E j \in JobIds, hash \in Hashes :
        \/ \E decision \in 0..3, explanationHash \in Hashes :
               RecordDecision(sender, j, decision, hash, explanationHash)
        \/ AppealDecision(sender, j, hash)
        \/ \E decision \in 0..3, token \in Tokens :
               ResolveAppeal(sender, j, decision, hash, token)
        \/ WaiveServiceFee(sender, j, hash)

Permissionless(sender, j, token) ==
    \/ FinalizeDecision(sender, j, token)
    \/ SettleAppealTimeout(sender, j, token)
    \/ SettleReviewTimeout(sender, j, token)
    \/ ExpireJob(sender, j, token)

Aftermath(sender) ==
    \E j \in JobIds :
        \/ \E token \in Tokens : RefundServiceFee(sender, j, token)
        \/ RetryReputationSync(sender, j)
        \/ \E score \in Scores : RateProvider(sender, j, score)

World ==
    \/ AdvanceBlocks
    \/ \E sender \in Users, to \in Principals, amount \in ExternalAmounts,
          token \in Tokens : ExternalTransfer(sender, to, amount, token)
    \/ \E token \in Tokens, p \in Principals : TokenPolicy(token, p)
    \/ \E sender \in Users : RegistryStep(sender)

Next ==
    \/ \E sender \in Users :
        \/ Governance(sender)
        \/ \E p \in Principals : SetPaymentToken(sender, p)
        \/ Hiring(sender)
        \/ Judging(sender)
        \/ \E j \in JobIds, token \in Tokens : Permissionless(sender, j, token)
        \/ Aftermath(sender)
    \/ World

Spec == Init /\ [][Next]_vars

TypeOK ==
    /\ \A token \in Tokens : In(token)!TypeOK
    /\ paymentToken \in Principals
    /\ IsMap(jobPaymentTokens, 1..jobCounter, Tokens)
    /\ refused \subseteq Tokens \X Principals

-----------------------------------------------------------------------------
(* Properties *)

\* The escrow rows of the jobs funded in a token, added up.
EscrowIn(token, rows, pins) ==
    Lifecycle!Owed(Restrict(rows, {j \in DOMAIN rows : pins[j] = token}))

\* Every held job has a token, and the contract's balance of each token covers
\* the jobs funded in it: no job is paid in another's token, however often the
\* owner changed the default in between.
TokensBacked ==
    /\ DOMAIN escrowBalances \subseteq DOMAIN jobPaymentTokens
    /\ \A token \in Tokens :
        balances[token][Escrow] >= EscrowIn(token, escrowBalances, jobPaymentTokens)

FundedIn(token) ==
    {j \in DOMAIN jobPaymentTokens : jobPaymentTokens[j] = token}
Promise(token) == INSTANCE EscrowPromise WITH
    stx <- balances[token], Vault <- Escrow, Jobs <- JobIds,
    closed <- Lifecycle!Closed \cap FundedIn(token),
    deposit <- [j \in JobIds |-> IF j \in FundedIn(token)
                                 THEN Lifecycle!DepositOf(j) ELSE NONE]

\* For each token on its own, the money of the jobs funded in it moves as
\* EscrowPromise says, while the default changes and tokens refuse recipients.
KeepsPromise ==
    /\ \A token \in Tokens : Promise(token)!Init
    /\ [][\A token \in Tokens :
             Promise(token)!Next \/ UNCHANGED Promise(token)!promiseVars]_vars

-----------------------------------------------------------------------------
(* Liveness *)

\* As for AgenticCommerce: blocks keep coming, and for every job somebody makes
\* the open call, naming the job's token (get-job-payment-token tells it).
Fairness ==
    /\ WF_vars(AdvanceBlocks /\ stacksHeight' > stacksHeight)
    /\ WF_vars(AdvanceBlocks /\ burnHeight' > burnHeight)
    /\ \A j \in JobIds :
        WF_vars(\E sender \in Users, token \in Tokens :
                    Permissionless(sender, j, token))

\* Provided the tokens stop refusing recipients for good, every escrow is
\* released: a refusal delays a settlement and never makes it impossible.
EscrowIsReleased ==
    <>[](refused = {}) =>
        \A j \in JobIds : j \in DOMAIN escrowBalances ~> j \notin DOMAIN escrowBalances

=============================================================================
