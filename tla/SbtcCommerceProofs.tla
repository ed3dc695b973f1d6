------------------------- MODULE SbtcCommerceProofs -------------------------
(***************************************************************************)
(* Theorems about the token escrow, with their proofs.                     *)
(***************************************************************************)
EXTENDS SbtcCommerce, TotalsProofs

-----------------------------------------------------------------------------
(* All tokens in one pool *)

\* What each principal holds of all tokens together.
Holdings(ledgers, p) == [token \in Tokens |-> ledgers[token][p]]
PoolOf(ledgers) == [p \in Principals |-> Total(Holdings(ledgers, p), Tokens)]

\* The STX escrow whose ledger is the pool, and what is proved of it.
Pooled == INSTANCE AgenticCommerceProofs WITH
              stx <- PoolOf(balances), InitialSTX <- PoolOf(InitialBalances)

Ledger == [Principals -> Nat]
Ledgers == [Tokens -> Ledger]
With(ledgers, token, ledger) == [ledgers EXCEPT ![token] = ledger]

LEMMA PoolHolds ==
    ASSUME NEW b \in Ledgers
    PROVE  /\ PoolOf(b) \in Ledger
           /\ \A token \in Tokens, p \in Principals : PoolOf(b)[p] >= b[token][p]
           /\ \A p \in Principals : (\A token \in Tokens : b[token][p] = 0) => PoolOf(b)[p] = 0
<1>1. ASSUME NEW p \in Principals
      PROVE  /\ Total(Holdings(b, p), Tokens) \in Nat
             /\ (\A token \in Tokens : b[token][p] = 0) => Total(Holdings(b, p), Tokens) = 0
             /\ \A token \in Tokens : Total(Holdings(b, p), Tokens) >= b[token][p]
  <2> DEFINE f == Holdings(b, p)
  <2>1. \A token \in Tokens : f[token] = b[token][p] /\ f[token] \in Nat
    BY DEF Holdings, Ledgers, Ledger
  <2> HIDE DEF f
  <2>2. Total(f, Tokens) \in Nat /\ ((\A x \in Tokens : f[x] = 0) => Total(f, Tokens) = 0)
    BY <2>1, TotalIsNat, TokensAssumption
  <2>3. ASSUME NEW token \in Tokens PROVE Total(f, Tokens) >= f[token]
    <3> DEFINE S == Tokens \ {token}
    <3>1. IsFiniteSet(S) /\ token \notin S /\ S \cup {token} = Tokens
      BY TokensAssumption, FS_Subset
    <3>2. \A x \in S : f[x] \in Nat
      BY <2>1
    <3> HIDE DEF S
    <3>3. Total(f, S) \in Nat
      BY <3>1, <3>2, TotalIsNat
    <3>4. Total(f, S \cup {token}) = Total(f, S) + f[token]
      BY <2>1, <3>1, TotalAdds
    <3>5. Total(f, Tokens) = Total(f, S) + f[token]
      BY <3>1, <3>4, Zenon
    <3> QED
      BY <2>1, <3>3, <3>5
  <2> QED
    BY <2>1, <2>2, <2>3 DEF f
<1> QED
  BY <1>1 DEF PoolOf, Ledger

\* A change of one ledger changes the pool by as much.
LEMMA PoolChanges ==
    ASSUME NEW b \in [Tokens -> [Principals -> Int]], NEW token \in Tokens,
           NEW ledger \in [Principals -> Int], NEW p \in Principals
    PROVE  /\ PoolOf(b)[p] \in Int
           /\ PoolOf(With(b, token, ledger))[p] = PoolOf(b)[p] + (ledger[p] - b[token][p])
<1> DEFINE S == Tokens \ {token}
           f == Holdings(b, p)
           g == Holdings(With(b, token, ledger), p)
<1>1. IsFiniteSet(S) /\ token \notin S /\ S \cup {token} = Tokens
  BY TokensAssumption, FS_Subset
<1>2. /\ \A x \in Tokens : f[x] \in Int /\ g[x] \in Int
      /\ \A x \in S : g[x] = f[x]
      /\ f[token] = b[token][p] /\ g[token] = ledger[p]
  BY DEF Holdings, With
<1> HIDE DEF S, f, g
<1>3. Total(f, S) \in Int /\ Total(f, S \cup {token}) = Total(f, S) + f[token]
  BY <1>1, <1>2, TotalAdds
<1>4. Total(g, S \cup {token}) = Total(f, S) + g[token]
  <2>1. \A x \in S : f[x] = g[x]
    BY <1>2
  <2>2. \A x \in S \cup {token} : g[x] \in Int
    BY <1>1, <1>2
  <2> QED
    BY <1>1, <2>1, <2>2, TotalAdds
<1>5. PoolOf(b)[p] = Total(f, Tokens) /\ PoolOf(With(b, token, ledger))[p] = Total(g, Tokens)
  BY DEF PoolOf, f, g
<1>6. f[token] \in Int /\ g[token] \in Int
  BY <1>2
<1>7. Total(f, Tokens) = Total(f, S) + f[token] /\ Total(g, Tokens) = Total(f, S) + g[token]
  BY <1>1, <1>3, <1>4, Zenon
<1>8. Total(f, S) \in Int
  BY <1>3
<1> QED
  BY <1>2, <1>5, <1>6, <1>7, <1>8

\* A transfer of one token is one of the pool.
LEMMA TransferPooled ==
    ASSUME NEW b \in Ledgers, NEW token \in Tokens, NEW ledger \in Ledger,
           NEW from \in Principals, NEW to \in Principals, NEW amount \in Int
    PROVE  PoolOf(With(b, token, In(token)!Transfer(ledger, amount, from, to))) =
               Pooled!Transfer(PoolOf(With(b, token, ledger)), amount, from, to)
<1> DEFINE pool == PoolOf(With(b, token, ledger))
           after == In(token)!Transfer(ledger, amount, from, to)
           pooled == Pooled!Transfer(pool, amount, from, to)
<1>1. b \in [Tokens -> [Principals -> Int]] /\ ledger \in [Principals -> Int]
  BY DEF Ledgers, Ledger
<1>2. after \in [Principals -> Int]
  BY <1>1 DEF In!Transfer
<1>3. ASSUME NEW p \in Principals
      PROVE  PoolOf(With(b, token, after))[p] = pool[p] + (after[p] - ledger[p])
  <2> HIDE DEF after
  <2>1. /\ PoolOf(With(b, token, after))[p] = PoolOf(b)[p] + (after[p] - b[token][p])
        /\ pool[p] = PoolOf(b)[p] + (ledger[p] - b[token][p])
        /\ PoolOf(b)[p] \in Int
    BY <1>1, <1>2, PoolChanges
  <2>2. after[p] \in Int /\ ledger[p] \in Int /\ b[token][p] \in Int
    BY <1>1, <1>2
  <2> QED
    BY <2>1, <2>2
<1>4. pool \in [Principals -> Int]
  BY <1>1, PoolChanges DEF PoolOf
<1>5. ASSUME NEW p \in Principals
      PROVE  pooled[p] = pool[p] + (after[p] - ledger[p])
  BY <1>1, <1>4 DEF In!Transfer, Pooled!Transfer
<1>6. DOMAIN PoolOf(With(b, token, after)) = Principals /\ DOMAIN pooled = Principals
  BY DEF PoolOf, Pooled!Transfer
<1> QED
  BY <1>3, <1>5, <1>6 DEF PoolOf, Pooled!Transfer

-----------------------------------------------------------------------------
(* Every step of the token escrow is one of the escrow of the pool *)

USE DEF Lifecycle!ownerVars, Lifecycle!authorityVars, Lifecycle!configVars,
        Lifecycle!governanceVars, Lifecycle!jobVars, Lifecycle!feeVars,
        Lifecycle!moneyVars, Lifecycle!reputationVars, Lifecycle!timeVars,
        Lifecycle!registryVars, Lifecycle!commerceVars,
        In!ownerVars, In!authorityVars, In!configVars, In!governanceVars,
        In!jobVars, In!feeVars, In!moneyVars, In!reputationVars, In!timeVars,
        In!registryVars, In!commerceVars,
        Pooled!ownerVars, Pooled!authorityVars, Pooled!configVars,
        Pooled!governanceVars, Pooled!jobVars, Pooled!feeVars, Pooled!moneyVars,
        Pooled!reputationVars, Pooled!timeVars, Pooled!registryVars,
        Pooled!commerceVars

PoolInv == Pooled!TypeOK /\ balances \in Ledgers

\* The calls that move no money.
LEMMA GovernancePooled ==
    ASSUME NEW sender, Governance(sender)
    PROVE  Pooled!Governance(sender) /\ UNCHANGED balances
BY DEF Governance, tokenVars, Lifecycle!Governance, Pooled!Governance,
       Lifecycle!InitializeProtocol, Pooled!InitializeProtocol,
       Lifecycle!ProposeOwner, Pooled!ProposeOwner,
       Lifecycle!AcceptOwner, Pooled!AcceptOwner,
       Lifecycle!CancelOwnerProposal, Pooled!CancelOwnerProposal,
       Lifecycle!ProposeAppealAuthority, Pooled!ProposeAppealAuthority,
       Lifecycle!AcceptAppealAuthority, Pooled!AcceptAppealAuthority,
       Lifecycle!MayTakeAuthority, Pooled!MayTakeAuthority,
       Lifecycle!CancelAppealAuthorityProposal, Pooled!CancelAppealAuthorityProposal

LEMMA CreateJobPooled ==
    ASSUME NEW sender, NEW p, NEW e, NEW x, CreateJob(sender, p, e, x)
    PROVE  Pooled!CreateJob(sender, p, e, x) /\ UNCHANGED balances
BY DEF CreateJob, tokenVars, Lifecycle!CreateJob, Pooled!CreateJob,
       Lifecycle!MapSet, Pooled!MapSet, Lifecycle!STATUS_OPEN, Pooled!STATUS_OPEN

LEMMA SetBudgetPooled ==
    ASSUME NEW sender, NEW j, NEW amount, SetBudget(sender, j, amount)
    PROVE  Pooled!SetBudget(sender, j, amount) /\ UNCHANGED balances
BY DEF SetBudget, tokenVars, Lifecycle!SetBudget, Pooled!SetBudget,
       Lifecycle!STATUS_OPEN, Pooled!STATUS_OPEN

LEMMA AssignProviderPooled ==
    ASSUME NEW sender, NEW j, NEW p, AssignProvider(sender, j, p)
    PROVE  Pooled!AssignProvider(sender, j, p) /\ UNCHANGED balances
BY DEF AssignProvider, tokenVars, Lifecycle!AssignProvider, Pooled!AssignProvider,
       Lifecycle!ProviderIsOpen, Pooled!ProviderIsOpen, Lifecycle!STATUS_FUNDED,
       Pooled!STATUS_FUNDED, Lifecycle!MayProvide, Pooled!MayProvide

LEMMA SubmitWorkPooled ==
    ASSUME NEW sender, NEW j, SubmitWork(sender, j)
    PROVE  Pooled!SubmitWork(sender, j) /\ UNCHANGED balances
BY DEF SubmitWork, tokenVars, Lifecycle!SubmitWork, Pooled!SubmitWork,
       Lifecycle!STATUS_FUNDED, Pooled!STATUS_FUNDED,
       Lifecycle!STATUS_SUBMITTED, Pooled!STATUS_SUBMITTED

LEMMA RecordDecisionPooled ==
    ASSUME NEW sender, NEW j, NEW d, NEW h, NEW g, RecordDecision(sender, j, d, h, g)
    PROVE  Pooled!RecordDecision(sender, j, d, h, g) /\ UNCHANGED balances
BY DEF RecordDecision, tokenVars, Lifecycle!RecordDecision, Pooled!RecordDecision,
       Lifecycle!STATUS_SUBMITTED, Pooled!STATUS_SUBMITTED,
       Lifecycle!STATUS_DECISION_PENDING, Pooled!STATUS_DECISION_PENDING,
       Lifecycle!Passed, Pooled!Passed, Lifecycle!IsValidDecision, Pooled!IsValidDecision,
       Lifecycle!DECISION_APPROVE, Pooled!DECISION_APPROVE,
       Lifecycle!DECISION_REJECT, Pooled!DECISION_REJECT,
       Lifecycle!IsValidHash, Pooled!IsValidHash,
       Lifecycle!ZERO_HASH_32, Pooled!ZERO_HASH_32, Lifecycle!MapSet, Pooled!MapSet

LEMMA AppealDecisionPooled ==
    ASSUME NEW sender, NEW j, NEW h, AppealDecision(sender, j, h)
    PROVE  Pooled!AppealDecision(sender, j, h) /\ UNCHANGED balances
BY DEF AppealDecision, tokenVars, Lifecycle!AppealDecision, Pooled!AppealDecision,
       Lifecycle!STATUS_DECISION_PENDING, Pooled!STATUS_DECISION_PENDING,
       Lifecycle!STATUS_DISPUTED, Pooled!STATUS_DISPUTED,
       Lifecycle!Passed, Pooled!Passed,
       Lifecycle!DECISION_APPROVE, Pooled!DECISION_APPROVE,
       Lifecycle!IsValidHash, Pooled!IsValidHash,
       Lifecycle!ZERO_HASH_32, Pooled!ZERO_HASH_32

LEMMA WaiveServiceFeePooled ==
    ASSUME NEW sender, NEW j, NEW h, WaiveServiceFee(sender, j, h)
    PROVE  Pooled!WaiveServiceFee(sender, j, h) /\ UNCHANGED balances
BY DEF WaiveServiceFee, tokenVars, Lifecycle!WaiveServiceFee, Pooled!WaiveServiceFee,
       Lifecycle!IsValidHash, Pooled!IsValidHash,
       Lifecycle!ZERO_HASH_32, Pooled!ZERO_HASH_32

\* There is one registry, whatever the escrow is paid in.
LEMMA OneRegistry ==
    ASSUME NEW token, NEW source, NEW agent, NEW j, NEW c, NEW d
    PROVE  /\ Lifecycle!Registry!OK = 0 /\ In(token)!Registry!OK = 0 /\ Pooled!Registry!OK = 0
           /\ Lifecycle!Registry!RecordOutcomeResult(source, j, c, d) =
                  Pooled!Registry!RecordOutcomeResult(source, j, c, d)
           /\ In(token)!Registry!RecordOutcomeResult(source, j, c, d) =
                  Pooled!Registry!RecordOutcomeResult(source, j, c, d)
           /\ Lifecycle!Registry!RecordJobOutcome(source, agent, j, c, d) =>
                  Pooled!Registry!RecordJobOutcome(source, agent, j, c, d)
           /\ In(token)!Registry!RecordJobOutcome(source, agent, j, c, d) =>
                  Pooled!Registry!RecordJobOutcome(source, agent, j, c, d)
<1>1. Lifecycle!Registry!OK = 0 /\ In(token)!Registry!OK = 0 /\ Pooled!Registry!OK = 0
  BY DEF Lifecycle!Registry!OK, In!Registry!OK, Pooled!Registry!OK
<1>2. /\ Lifecycle!Registry!RecordOutcomeResult(source, j, c, d) =
             Pooled!Registry!RecordOutcomeResult(source, j, c, d)
      /\ In(token)!Registry!RecordOutcomeResult(source, j, c, d) =
             Pooled!Registry!RecordOutcomeResult(source, j, c, d)
  BY DEF Lifecycle!Registry!RecordOutcomeResult, Pooled!Registry!RecordOutcomeResult,
         In!Registry!RecordOutcomeResult, Lifecycle!Registry!ErrNotAuthorized,
         Lifecycle!Registry!ErrInvalidOutcome, Lifecycle!Registry!ErrOutcomeAlreadyRecorded,
         Lifecycle!Registry!OK, In!Registry!ErrNotAuthorized,
         In!Registry!ErrInvalidOutcome, In!Registry!ErrOutcomeAlreadyRecorded,
         In!Registry!OK, Pooled!Registry!ErrNotAuthorized,
         Pooled!Registry!ErrInvalidOutcome, Pooled!Registry!ErrOutcomeAlreadyRecorded,
         Pooled!Registry!OK
<1>3. Lifecycle!Registry!RecordJobOutcome(source, agent, j, c, d) =>
          Pooled!Registry!RecordJobOutcome(source, agent, j, c, d)
  BY <1>1, <1>2
  DEF Lifecycle!Registry!RecordJobOutcome, Pooled!Registry!RecordJobOutcome,
      Lifecycle!Registry!MapSet, Pooled!Registry!MapSet,
      Lifecycle!Registry!registryOwnerVars, Pooled!Registry!registryOwnerVars
<1>4. In(token)!Registry!RecordJobOutcome(source, agent, j, c, d) =>
          Pooled!Registry!RecordJobOutcome(source, agent, j, c, d)
  BY <1>1, <1>2
  DEF In!Registry!RecordJobOutcome, Pooled!Registry!RecordJobOutcome,
      In!Registry!MapSet, Pooled!Registry!MapSet,
      In!Registry!registryOwnerVars, Pooled!Registry!registryOwnerVars
<1> QED
  BY <1>1, <1>2, <1>3, <1>4

LEMMA SubmitRatingPooled ==
    ASSUME NEW source, NEW agent, NEW rater, NEW score, NEW j,
           Lifecycle!Registry!SubmitRating(source, agent, rater, score, j)
    PROVE  Pooled!Registry!SubmitRating(source, agent, rater, score, j)
BY DEF Lifecycle!Registry!SubmitRating, Pooled!Registry!SubmitRating,
       Lifecycle!Registry!KeyOfRating, Pooled!Registry!KeyOfRating,
       Lifecycle!Registry!IsValidScore, Pooled!Registry!IsValidScore,
       Lifecycle!Registry!IsNewRating, Pooled!Registry!IsNewRating,
       Lifecycle!Registry!MapSet, Pooled!Registry!MapSet,
       Lifecycle!Registry!registryOwnerVars, Pooled!Registry!registryOwnerVars

LEMMA SyncReputationPooled ==
    ASSUME NEW token, NEW j, NEW agent, NEW outcome,
           \/ Lifecycle!SyncReputation(j, agent, outcome)
           \/ In(token)!SyncReputation(j, agent, outcome)
    PROVE  Pooled!SyncReputation(j, agent, outcome)
<1> DEFINE c == outcome = 1
           d == outcome = 2
<1>1. /\ Lifecycle!OUTCOME_COMPLETED = 1 /\ Lifecycle!OUTCOME_DISPUTED = 2
      /\ In(token)!OUTCOME_COMPLETED = 1 /\ In(token)!OUTCOME_DISPUTED = 2
      /\ Pooled!OUTCOME_COMPLETED = 1 /\ Pooled!OUTCOME_DISPUTED = 2
  BY DEF Lifecycle!OUTCOME_COMPLETED, Lifecycle!OUTCOME_DISPUTED, In!OUTCOME_COMPLETED,
         In!OUTCOME_DISPUTED, Pooled!OUTCOME_COMPLETED, Pooled!OUTCOME_DISPUTED
<1>2. \A o, r : /\ Lifecycle!SyncRow(o, r) = Pooled!SyncRow(o, r)
                /\ In(token)!SyncRow(o, r) = Pooled!SyncRow(o, r)
  BY OneRegistry DEF Lifecycle!SyncRow, In!SyncRow, Pooled!SyncRow
<1>3. \A m, k, v : /\ Lifecycle!MapSet(m, k, v) = Pooled!MapSet(m, k, v)
                   /\ In(token)!MapSet(m, k, v) = Pooled!MapSet(m, k, v)
  BY DEF Lifecycle!MapSet, In!MapSet, Pooled!MapSet
<1>4. /\ Lifecycle!Registry!RecordOutcomeResult(Escrow, j, c, d) =
             Pooled!Registry!RecordOutcomeResult(Escrow, j, c, d)
      /\ In(token)!Registry!RecordOutcomeResult(Escrow, j, c, d) =
             Pooled!Registry!RecordOutcomeResult(Escrow, j, c, d)
      /\ Lifecycle!Registry!RecordJobOutcome(Escrow, agent, j, c, d) =>
             Pooled!Registry!RecordJobOutcome(Escrow, agent, j, c, d)
      /\ In(token)!Registry!RecordJobOutcome(Escrow, agent, j, c, d) =>
             Pooled!Registry!RecordJobOutcome(Escrow, agent, j, c, d)
  BY OneRegistry
<1>5. CASE Lifecycle!SyncReputation(j, agent, outcome)
  BY <1>1, <1>2, <1>3, <1>4, <1>5, OneRegistry
  DEF Lifecycle!SyncReputation, Pooled!SyncReputation
<1>6. CASE In(token)!SyncReputation(j, agent, outcome)
  BY <1>1, <1>2, <1>3, <1>4, <1>6, OneRegistry DEF In!SyncReputation, Pooled!SyncReputation
<1> QED
  BY <1>5, <1>6

LEMMA RetryReputationSyncPooled ==
    ASSUME NEW sender, NEW j, RetryReputationSync(sender, j)
    PROVE  Pooled!RetryReputationSync(sender, j) /\ UNCHANGED balances
BY SyncReputationPooled
DEF RetryReputationSync, tokenVars, Lifecycle!RetryReputationSync,
    Pooled!RetryReputationSync, Lifecycle!STATUS_COMPLETED, Pooled!STATUS_COMPLETED,
    Lifecycle!STATUS_REJECTED, Pooled!STATUS_REJECTED

LEMMA RateProviderPooled ==
    ASSUME NEW sender, NEW j, NEW score, RateProvider(sender, j, score)
    PROVE  Pooled!RateProvider(sender, j, score) /\ UNCHANGED balances
BY SubmitRatingPooled
DEF RateProvider, tokenVars, Lifecycle!RateProvider, Pooled!RateProvider,
       Lifecycle!STATUS_COMPLETED, Pooled!STATUS_COMPLETED, Lifecycle!MapSet, Pooled!MapSet

LEMMA AdvanceBlocksPooled ==
    ASSUME AdvanceBlocks
    PROVE  (Pooled!AdvanceStacksBlock \/ Pooled!AdvanceBurnBlock) /\ UNCHANGED balances
BY DEF AdvanceBlocks, tokenVars, Lifecycle!AdvanceStacksBlock, Pooled!AdvanceStacksBlock,
       Lifecycle!AdvanceBurnBlock, Pooled!AdvanceBurnBlock

LEMMA RegistryStepPooled ==
    ASSUME NEW sender, RegistryStep(sender)
    PROVE  Pooled!RegistryStep(sender) /\ UNCHANGED balances
<1>1. Lifecycle!Registry!Administration(sender) => Pooled!Registry!Administration(sender)
  BY DEF Lifecycle!Registry!Administration, Pooled!Registry!Administration,
         Lifecycle!Registry!ProposeOwner, Pooled!Registry!ProposeOwner,
         Lifecycle!Registry!AcceptOwner, Pooled!Registry!AcceptOwner,
         Lifecycle!Registry!CancelOwnerProposal, Pooled!Registry!CancelOwnerProposal,
         Lifecycle!Registry!AddProtocolCaller, Pooled!Registry!AddProtocolCaller,
         Lifecycle!Registry!RemoveProtocolCaller, Pooled!Registry!RemoveProtocolCaller,
         Lifecycle!Registry!aggregateVars, Pooled!Registry!aggregateVars,
         Lifecycle!Registry!registryOwnerVars, Pooled!Registry!registryOwnerVars
<1>2. Lifecycle!Registry!Report(sender) => Pooled!Registry!Report(sender)
  BY OneRegistry, SubmitRatingPooled
  DEF Lifecycle!Registry!Report, Pooled!Registry!Report, Lifecycle!JobIds, Pooled!JobIds
<1> QED
  BY <1>1, <1>2
  DEF RegistryStep, tokenVars, Lifecycle!RegistryStep, Pooled!RegistryStep

\* The calls that move a token.
LEMMA LedgersStayNat ==
    ASSUME NEW ledger \in Ledger, NEW token, NEW from \in Principals,
           NEW to \in Principals, NEW amount \in Int,
           In(token)!CanTransfer(ledger, amount, from, to)
    PROVE  In(token)!Transfer(ledger, amount, from, to) \in Ledger
<1>1. amount > 0 /\ from # to /\ ledger[from] >= amount
  BY DEF In!CanTransfer
<1>2. ledger[from] \in Nat /\ ledger[to] \in Nat
  BY DEF Ledger
<1>3. ledger[from] - amount \in Nat /\ ledger[to] + amount \in Nat
  BY <1>1, <1>2
<1> QED
  BY <1>1, <1>3 DEF In!Transfer, Ledger

LEMMA PaymentPooled ==
    ASSUME balances \in Ledgers, NEW token \in Tokens, NEW from \in Principals,
           NEW to \in Principals, NEW amount \in Int,
           In(token)!CanTransfer(balances[token], amount, from, to),
           balances' = With(balances, token,
                            In(token)!Transfer(balances[token], amount, from, to))
    PROVE  Pooled!StxTransfer(amount, from, to) /\ balances' \in Ledgers
<1>1. balances = With(balances, token, balances[token]) /\ balances[token] \in Ledger
  BY DEF With, Ledgers
<1>2. PoolOf(balances') = Pooled!Transfer(PoolOf(balances), amount, from, to)
  BY <1>1, TransferPooled
<1>3. amount > 0 /\ from # to /\ balances[token][from] >= amount
  BY DEF In!CanTransfer
<1>4. PoolOf(balances)[from] >= amount
  <2>1. /\ PoolOf(balances)[from] >= balances[token][from]
        /\ PoolOf(balances)[from] \in Nat /\ balances[token][from] \in Nat
    BY <1>1, PoolHolds DEF Ledger
  <2> QED
    BY <1>3, <2>1
<1>5. In(token)!Transfer(balances[token], amount, from, to) \in Ledger
  BY <1>1, LedgersStayNat
<1>6. balances' \in Ledgers
  BY <1>5 DEF With, Ledgers
<1> QED
  BY <1>2, <1>3, <1>4, <1>6 DEF Pooled!StxTransfer, Pooled!CanTransfer

LEMMA BudgetsAreNat ==
    ASSUME PoolInv, NEW j \in DOMAIN jobs
    PROVE  /\ jobs[j].budget \in Nat /\ jobs[j].client \in Principals
           /\ jobs[j].treasury \in Principals /\ jobs[j].provider \in Principals \cup {NONE}
BY DEF PoolInv, Pooled!TypeOK, Pooled!JobsTypeOK, Pooled!Job

LEMMA PrincipalsAreKnown == Escrow \in Principals /\ Users \subseteq Principals
BY SbtcPrincipalsAssumption DEF Users, Lifecycle!Users

LEMMA FundJobPooled ==
    ASSUME PoolInv, NEW sender \in Users, NEW j, NEW token \in Tokens,
           FundJob(sender, j, token)
    PROVE  Pooled!FundJob(sender, j) /\ balances' \in Ledgers
<1>1. /\ j \in DOMAIN jobs
      /\ In(token)!CanTransfer(balances[token], jobs[j].budget, sender, Escrow)
      /\ balances' = With(balances, token,
                          In(token)!Transfer(balances[token], jobs[j].budget, sender, Escrow))
  BY DEF FundJob, Moves, With, In!FundJob, In!StxTransfer
<1>2. Pooled!StxTransfer(jobs[j].budget, sender, Escrow) /\ balances' \in Ledgers
  BY <1>1, PaymentPooled, BudgetsAreNat, PrincipalsAreKnown DEF PoolInv
<1> QED
  BY <1>2
  DEF FundJob, In!FundJob, Pooled!FundJob, In!STATUS_OPEN, Pooled!STATUS_OPEN,
      In!STATUS_FUNDED, Pooled!STATUS_FUNDED, In!MapSet, Pooled!MapSet

LEMMA SettleReviewTimeoutPooled ==
    ASSUME PoolInv, NEW sender \in Users, NEW j, NEW token \in Tokens,
           SettleReviewTimeout(sender, j, token)
    PROVE  Pooled!SettleReviewTimeout(sender, j) /\ balances' \in Ledgers
<1>1. /\ j \in DOMAIN jobs /\ jobs[j].provider # NONE
      /\ In(token)!CanTransfer(balances[token], jobs[j].budget, Escrow, jobs[j].provider)
      /\ balances' = With(balances, token, In(token)!Transfer(balances[token],
                              jobs[j].budget, Escrow, jobs[j].provider))
  BY DEF SettleReviewTimeout, Moves, With, In!SettleReviewTimeout, In!StxTransfer
<1>2. Pooled!StxTransfer(jobs[j].budget, Escrow, jobs[j].provider) /\ balances' \in Ledgers
  BY <1>1, PaymentPooled, BudgetsAreNat, PrincipalsAreKnown DEF PoolInv
<1> QED
  BY <1>2
  DEF SettleReviewTimeout, In!SettleReviewTimeout, Pooled!SettleReviewTimeout,
      In!STATUS_SUBMITTED, Pooled!STATUS_SUBMITTED, In!STATUS_TIMEOUT_PAID,
      Pooled!STATUS_TIMEOUT_PAID, In!Passed, Pooled!Passed,
      In!EscrowWithout, Pooled!EscrowWithout, In!MapDelete, Pooled!MapDelete,
      In!Restrict, Pooled!Restrict

LEMMA ExpireJobPooled ==
    ASSUME PoolInv, NEW sender \in Users, NEW j, NEW token \in Tokens,
           ExpireJob(sender, j, token)
    PROVE  Pooled!ExpireJob(sender, j) /\ balances' \in Ledgers
<1> DEFINE escrowed == MapGetOr(escrowBalances, j, 0)
<1>1. /\ j \in DOMAIN jobs
      /\ escrowed = In(token)!MapGetOr(escrowBalances, j, 0)
      /\ escrowed = Pooled!MapGetOr(escrowBalances, j, 0)
  BY DEF ExpireJob, MapGetOr, In!MapGetOr, Pooled!MapGetOr
<1>2. escrowed \in Nat
  BY DEF PoolInv, Pooled!TypeOK, Pooled!MapsTypeOK, Pooled!IsMap, MapGetOr
<1> HIDE DEF escrowed
<1>3. CASE escrowed > 0
  <2>1. /\ In(token)!CanTransfer(balances[token], escrowed, Escrow, jobs[j].client)
        /\ balances' = With(balances, token, In(token)!Transfer(balances[token],
                                escrowed, Escrow, jobs[j].client))
    BY <1>1, <1>3 DEF ExpireJob, Moves, With, In!ExpireJob, In!StxTransfer, escrowed
  <2>2. Pooled!StxTransfer(escrowed, Escrow, jobs[j].client) /\ balances' \in Ledgers
    BY <1>1, <1>2, <2>1, PaymentPooled, BudgetsAreNat, PrincipalsAreKnown DEF PoolInv
  <2> QED
    BY <1>1, <1>3, <2>2
    DEF ExpireJob, In!ExpireJob, Pooled!ExpireJob, In!STATUS_OPEN, Pooled!STATUS_OPEN,
        In!STATUS_FUNDED, Pooled!STATUS_FUNDED, In!STATUS_EXPIRED, Pooled!STATUS_EXPIRED,
        In!EscrowWithout, Pooled!EscrowWithout, In!MapDelete, Pooled!MapDelete,
        In!Restrict, Pooled!Restrict
<1>4. CASE ~ (escrowed > 0)
  <2>1. UNCHANGED balances
    BY <1>4 DEF ExpireJob, tokenVars, escrowed
  <2> QED
    BY <1>1, <1>4, <2>1
    DEF ExpireJob, In!ExpireJob, Pooled!ExpireJob, In!STATUS_OPEN, Pooled!STATUS_OPEN,
        In!STATUS_FUNDED, Pooled!STATUS_FUNDED, In!STATUS_EXPIRED, Pooled!STATUS_EXPIRED,
        PoolInv
<1> QED
  BY <1>3, <1>4

LEMMA RefundServiceFeePooled ==
    ASSUME PoolInv, NEW sender \in Users, NEW j, NEW token \in Tokens,
           RefundServiceFee(sender, j, token)
    PROVE  Pooled!RefundServiceFee(sender, j) /\ balances' \in Ledgers
<1> DEFINE s == serviceFeeSettlements[j]
           due == s.chargedFee - s.refundedFee
<1>1. /\ j \in DOMAIN jobs /\ j \in DOMAIN serviceFeeSettlements
      /\ In(token)!RefundPayer(j) = sender /\ Pooled!RefundPayer(j) = sender
      /\ In(token)!CanTransfer(balances[token], due, sender, s.recipient)
      /\ balances' = With(balances, token,
                          In(token)!Transfer(balances[token], due, sender, s.recipient))
  BY DEF RefundServiceFee, Moves, With, In!RefundServiceFee, In!StxTransfer,
         In!RefundPayer, Pooled!RefundPayer
<1>2. due \in Int /\ s.recipient \in Principals
  BY <1>1 DEF PoolInv, Pooled!TypeOK, Pooled!MapsTypeOK, Pooled!IsMap, Pooled!Settlement
<1>3. Pooled!StxTransfer(due, sender, s.recipient) /\ balances' \in Ledgers
  BY <1>1, <1>2, PaymentPooled, PrincipalsAreKnown DEF PoolInv
<1> QED
  BY <1>1, <1>3 DEF RefundServiceFee, In!RefundServiceFee, Pooled!RefundServiceFee

LEMMA ExternalTransferPooled ==
    ASSUME PoolInv, NEW sender \in Users, NEW to \in Principals,
           NEW amount \in ExternalAmounts, NEW token \in Tokens,
           ExternalTransfer(sender, to, amount, token)
    PROVE  Pooled!ExternalTransfer(sender, to, amount) /\ balances' \in Ledgers
<1>1. amount \in Int
  BY SbtcInputAssumption
<1>2. Pooled!StxTransfer(amount, sender, to) /\ balances' \in Ledgers
  BY <1>1, PaymentPooled, PrincipalsAreKnown DEF PoolInv, ExternalTransfer, Moves, With
<1> QED
  BY <1>2 DEF ExternalTransfer, lifecycleVars, Pooled!ExternalTransfer

LEMMA SettlementPooled ==
    ASSUME PoolInv, NEW j \in DOMAIN jobs, NEW to \in Principals, NEW token \in Tokens,
           In(token)!SettleServicePayment(j, to),
           balances' = With(balances, token,
                            In(token)!AfterSettlement(balances[token], j, to))
    PROVE  Pooled!SettleServicePayment(j, to) /\ balances' \in Ledgers
<1> DEFINE fee == Pooled!ChargedFee(j)
           net == jobs[j].budget - fee
           treasury == jobs[j].treasury
           afterNet == In(token)!Transfer(balances[token], net, Escrow, to)
           pooledNet == Pooled!Transfer(PoolOf(balances), net, Escrow, to)
<1>1. fee = In(token)!ChargedFee(j)
  BY DEF In!ChargedFee, Pooled!ChargedFee, In!Fee, Pooled!Fee,
         In!SERVICE_FEE_DIVISOR, Pooled!SERVICE_FEE_DIVISOR
<1>2. /\ jobs[j].budget \in Nat /\ fee \in Int /\ net \in Int
      /\ treasury \in Principals /\ Escrow \in Principals
  BY BudgetsAreNat, PrincipalsAreKnown
  DEF Pooled!ChargedFee, Pooled!Fee, Pooled!SERVICE_FEE_DIVISOR
<1> HIDE DEF fee
<1>3. /\ j \in DOMAIN decisions
      /\ jobs[j].budget > 0 /\ jobs[j].budget = Pooled!MapGetOr(escrowBalances, j, 0)
      /\ j \notin DOMAIN serviceFeeSettlements
      /\ treasury # to
      /\ In(token)!CanTransfer(balances[token], net, Escrow, to)
      /\ fee > 0 => In(token)!CanTransfer(afterNet, fee, Escrow, treasury)
      /\ serviceFeeSettlements' = Pooled!MapSet(serviceFeeSettlements, j,
             [gross |-> jobs[j].budget, recipient |-> to, net |-> net,
              chargedFee |-> fee, refundedFee |-> 0])
  BY <1>1
  DEF In!SettleServicePayment, In!MapGetOr, Pooled!MapGetOr, In!MapSet, Pooled!MapSet,
      In!FeeIsDue
<1>4. balances' = With(balances, token,
                       IF fee > 0 THEN In(token)!Transfer(afterNet, fee, Escrow, treasury)
                       ELSE afterNet)
  BY <1>1 DEF In!AfterSettlement, In!FeeIsDue
<1>5. /\ balances \in Ledgers /\ balances[token] \in Ledger
      /\ balances = With(balances, token, balances[token])
  BY DEF PoolInv, Ledgers, With
<1>6. afterNet \in Ledger
  BY <1>2, <1>3, <1>5, LedgersStayNat
<1>7. pooledNet = PoolOf(With(balances, token, afterNet))
  BY <1>2, <1>5, TransferPooled
<1> HIDE DEF net, treasury
<1>8. Pooled!CanTransfer(PoolOf(balances), net, Escrow, to)
  <2>1. /\ PoolOf(balances)[Escrow] >= balances[token][Escrow]
        /\ PoolOf(balances)[Escrow] \in Nat /\ balances[token][Escrow] \in Nat
    BY <1>2, <1>5, PoolHolds DEF Ledger
  <2> QED
    BY <1>2, <1>3, <2>1 DEF In!CanTransfer, Pooled!CanTransfer
<1> HIDE DEF afterNet
<1>9. ASSUME fee > 0
      PROVE  /\ In(token)!Transfer(afterNet, fee, Escrow, treasury) \in Ledger
             /\ PoolOf(With(balances, token,
                            In(token)!Transfer(afterNet, fee, Escrow, treasury))) =
                    Pooled!Transfer(pooledNet, fee, Escrow, treasury)
             /\ Pooled!CanTransfer(pooledNet, fee, Escrow, treasury)
  <2>1. With(balances, token, afterNet) \in Ledgers
        /\ With(balances, token, afterNet)[token] = afterNet
    BY <1>5, <1>6 DEF With, Ledgers
  <2>2. In(token)!Transfer(afterNet, fee, Escrow, treasury) \in Ledger
    BY <1>2, <1>3, <1>6, <1>9, LedgersStayNat
  <2>3. PoolOf(With(balances, token, In(token)!Transfer(afterNet, fee, Escrow, treasury))) =
            Pooled!Transfer(PoolOf(With(balances, token, afterNet)), fee, Escrow, treasury)
    BY <1>2, <1>5, <1>6, TransferPooled
  <2>4. /\ pooledNet[Escrow] >= afterNet[Escrow]
        /\ pooledNet[Escrow] \in Nat /\ afterNet[Escrow] \in Nat
    BY <1>2, <1>6, <1>7, <2>1, PoolHolds DEF Ledger
  <2> HIDE DEF pooledNet
  <2>5. Pooled!CanTransfer(pooledNet, fee, Escrow, treasury)
    BY <1>2, <1>3, <1>9, <2>4 DEF In!CanTransfer, Pooled!CanTransfer
  <2> QED
    BY <1>7, <2>2, <2>3, <2>5
<1>10. PoolOf(balances') = IF fee > 0 THEN Pooled!Transfer(pooledNet, fee, Escrow, treasury)
                           ELSE pooledNet
  BY <1>4, <1>7, <1>9
<1>11. PoolOf(balances') = Pooled!AfterSettlement(PoolOf(balances), j, to)
  BY <1>10 DEF Pooled!AfterSettlement, Pooled!FeeIsDue, fee, net, treasury
<1>12. balances' \in Ledgers
  BY <1>4, <1>5, <1>6, <1>9 DEF With, Ledgers
<1> QED
  BY <1>3, <1>8, <1>9, <1>11, <1>12
  DEF Pooled!SettleServicePayment, Pooled!FeeIsDue, fee, net, treasury

LEMMA SettlePooled ==
    ASSUME PoolInv, NEW sender, NEW j \in DOMAIN jobs, NEW token \in Tokens,
           NEW d \in {1, 2}, jobs[j].provider # NONE,
           SettleServicePayment(j, d, token), In(token)!Settle(sender, j, d)
    PROVE  Pooled!Settle(sender, j, d) /\ balances' \in Ledgers
<1> DEFINE to == Pooled!Recipient(jobs[j], d)
<1>1. to = In(token)!Recipient(jobs[j], d) /\ to = Lifecycle!Recipient(jobs[j], d)
  BY DEF In!Recipient, Pooled!Recipient, Lifecycle!Recipient, In!DECISION_APPROVE,
         Pooled!DECISION_APPROVE, Lifecycle!DECISION_APPROVE
<1>2. to \in Principals
  BY BudgetsAreNat DEF Pooled!Recipient
<1> HIDE DEF to
<1>3. /\ In(token)!SettleServicePayment(j, to)
      /\ balances' = With(balances, token,
                          In(token)!AfterSettlement(balances[token], j, to))
  BY <1>1 DEF SettleServicePayment, Moves, With, In!Settle
<1>4. Pooled!SettleServicePayment(j, to) /\ balances' \in Ledgers
  BY <1>2, <1>3, SettlementPooled
<1>5. Pooled!SyncReputation(j, jobs[j].provider, Pooled!OutcomeFor(d))
  BY SyncReputationPooled
  DEF In!Settle, In!OutcomeFor, Pooled!OutcomeFor, In!DECISION_APPROVE,
      Pooled!DECISION_APPROVE, In!OUTCOME_COMPLETED, Pooled!OUTCOME_COMPLETED,
      In!OUTCOME_DISPUTED, Pooled!OUTCOME_DISPUTED
<1> QED
  BY <1>4, <1>5
  DEF In!Settle, Pooled!Settle, In!EscrowWithout, Pooled!EscrowWithout, In!MapDelete,
      Pooled!MapDelete, In!Restrict, Pooled!Restrict, In!StatusFor, Pooled!StatusFor,
      In!DECISION_APPROVE, Pooled!DECISION_APPROVE, In!STATUS_COMPLETED,
      Pooled!STATUS_COMPLETED, In!STATUS_REJECTED, Pooled!STATUS_REJECTED, to

LEMMA DecisionsAreValid ==
    ASSUME PoolInv, NEW j \in DOMAIN decisions
    PROVE  decisions[j].original \in {1, 2}
BY DEF PoolInv, Pooled!TypeOK, Pooled!MapsTypeOK, Pooled!IsMap, Pooled!Decision,
       Pooled!DECISION_APPROVE, Pooled!DECISION_REJECT

LEMMA SettlementsPooled ==
    ASSUME PoolInv, NEW sender \in Users, NEW j, NEW token \in Tokens
    PROVE  /\ FinalizeDecision(sender, j, token) =>
                  Pooled!FinalizeDecision(sender, j) /\ balances' \in Ledgers
           /\ SettleAppealTimeout(sender, j, token) =>
                  Pooled!SettleAppealTimeout(sender, j) /\ balances' \in Ledgers
           /\ \A d, h : ResolveAppeal(sender, j, d, h, token) =>
                  Pooled!ResolveAppeal(sender, j, d, h) /\ balances' \in Ledgers
<1>1. ASSUME FinalizeDecision(sender, j, token)
      PROVE  Pooled!FinalizeDecision(sender, j) /\ balances' \in Ledgers
  <2>1. /\ j \in DOMAIN jobs /\ j \in DOMAIN decisions /\ jobs[j].provider # NONE
        /\ SettleServicePayment(j, decisions[j].original, token)
        /\ In(token)!Settle(sender, j, decisions[j].original)
    BY <1>1 DEF FinalizeDecision, In!FinalizeDecision
  <2>2. Pooled!Settle(sender, j, decisions[j].original) /\ balances' \in Ledgers
    BY <2>1, DecisionsAreValid, SettlePooled
  <2> QED
    BY <1>1, <2>2
    DEF FinalizeDecision, In!FinalizeDecision, Pooled!FinalizeDecision,
        In!STATUS_DECISION_PENDING, Pooled!STATUS_DECISION_PENDING, In!Passed, Pooled!Passed
<1>2. ASSUME SettleAppealTimeout(sender, j, token)
      PROVE  Pooled!SettleAppealTimeout(sender, j) /\ balances' \in Ledgers
  <2>1. /\ j \in DOMAIN jobs /\ j \in DOMAIN decisions /\ jobs[j].provider # NONE
        /\ SettleServicePayment(j, decisions[j].original, token)
        /\ In(token)!Settle(sender, j, decisions[j].original)
    BY <1>2 DEF SettleAppealTimeout, In!SettleAppealTimeout
  <2>2. Pooled!Settle(sender, j, decisions[j].original) /\ balances' \in Ledgers
    BY <2>1, DecisionsAreValid, SettlePooled
  <2> QED
    BY <1>2, <2>2
    DEF SettleAppealTimeout, In!SettleAppealTimeout, Pooled!SettleAppealTimeout,
        In!STATUS_DISPUTED, Pooled!STATUS_DISPUTED, In!Passed, Pooled!Passed
<1>3. ASSUME NEW d, NEW h, ResolveAppeal(sender, j, d, h, token)
      PROVE  Pooled!ResolveAppeal(sender, j, d, h) /\ balances' \in Ledgers
  <2>1. /\ j \in DOMAIN jobs /\ jobs[j].provider # NONE /\ d \in {1, 2}
        /\ SettleServicePayment(j, d, token)
        /\ In(token)!Settle(sender, j, d)
    BY <1>3 DEF ResolveAppeal, In!ResolveAppeal, In!IsValidDecision,
                In!DECISION_APPROVE, In!DECISION_REJECT
  <2>2. Pooled!Settle(sender, j, d) /\ balances' \in Ledgers
    BY <2>1, SettlePooled
  <2> QED
    BY <1>3, <2>2
    DEF ResolveAppeal, In!ResolveAppeal, Pooled!ResolveAppeal, In!STATUS_DISPUTED,
        Pooled!STATUS_DISPUTED, In!Passed, Pooled!Passed, In!IsValidDecision,
        Pooled!IsValidDecision, In!DECISION_APPROVE, Pooled!DECISION_APPROVE,
        In!DECISION_REJECT, Pooled!DECISION_REJECT, In!IsValidHash, Pooled!IsValidHash,
        In!ZERO_HASH_32, Pooled!ZERO_HASH_32
<1> QED
  BY <1>1, <1>2, <1>3

LEMMA SameNames ==
    Pooled!Users = Users /\ Pooled!JobIds = JobIds /\ Pooled!Hashes = Hashes
BY DEF Users, JobIds, Hashes, Lifecycle!Users, Lifecycle!JobIds, Lifecycle!Hashes,
       Pooled!Users, Pooled!JobIds, Pooled!Hashes, Lifecycle!ZERO_HASH_32,
       Pooled!ZERO_HASH_32

LEMMA HiringPooled ==
    ASSUME PoolInv, NEW sender \in Users, Hiring(sender)
    PROVE  Pooled!Hiring(sender) /\ balances' \in Ledgers
BY CreateJobPooled, SetBudgetPooled, FundJobPooled, AssignProviderPooled,
   SubmitWorkPooled, SameNames DEF Hiring, Pooled!Hiring, PoolInv

LEMMA JudgingPooled ==
    ASSUME PoolInv, NEW sender \in Users, Judging(sender)
    PROVE  Pooled!Judging(sender) /\ balances' \in Ledgers
BY RecordDecisionPooled, AppealDecisionPooled, SettlementsPooled,
   WaiveServiceFeePooled, SameNames DEF Judging, Pooled!Judging, PoolInv

LEMMA PermissionlessPooled ==
    ASSUME PoolInv, NEW sender \in Users, NEW j, NEW token \in Tokens,
           Permissionless(sender, j, token)
    PROVE  Pooled!Permissionless(sender, j) /\ balances' \in Ledgers
BY SettlementsPooled, SettleReviewTimeoutPooled, ExpireJobPooled
DEF Permissionless, Pooled!Permissionless

LEMMA AftermathPooled ==
    ASSUME PoolInv, NEW sender \in Users, Aftermath(sender)
    PROVE  Pooled!Aftermath(sender) /\ balances' \in Ledgers
BY RefundServiceFeePooled, RetryReputationSyncPooled, RateProviderPooled, SameNames
DEF Aftermath, Pooled!Aftermath, PoolInv

\* Of what happens without the contract, a token's policy moves nothing.
LEMMA WorldPooled ==
    ASSUME PoolInv, World
    PROVE  (Pooled!World \/ UNCHANGED Pooled!vars) /\ balances' \in Ledgers
<1>1. CASE AdvanceBlocks
  BY <1>1, AdvanceBlocksPooled DEF Pooled!World, PoolInv
<1>2. ASSUME NEW sender \in Users, NEW to \in Principals, NEW amount \in ExternalAmounts,
             NEW token \in Tokens, ExternalTransfer(sender, to, amount, token)
      PROVE  Pooled!World /\ balances' \in Ledgers
  BY <1>2, ExternalTransferPooled, SameNames DEF Pooled!World
<1>3. ASSUME NEW token \in Tokens, NEW p \in Principals, TokenPolicy(token, p)
      PROVE  UNCHANGED Pooled!vars /\ balances' \in Ledgers
  BY <1>3 DEF TokenPolicy, lifecycleVars, Pooled!vars, PoolInv
<1>4. ASSUME NEW sender \in Users, RegistryStep(sender)
      PROVE  Pooled!World /\ balances' \in Ledgers
  BY <1>4, RegistryStepPooled, SameNames DEF Pooled!World, PoolInv
<1> QED
  BY <1>1, <1>2, <1>3, <1>4 DEF World

LEMMA NextPooled ==
    PoolInv /\ [Next]_vars => [Pooled!Next]_(Pooled!vars) /\ balances' \in Ledgers
<1> SUFFICES ASSUME PoolInv, [Next]_vars
             PROVE  [Pooled!Next]_(Pooled!vars) /\ balances' \in Ledgers
  OBVIOUS
<1>1. ASSUME NEW sender \in Users, Governance(sender)
      PROVE  Pooled!Next /\ balances' \in Ledgers
  BY <1>1, GovernancePooled, SameNames DEF Pooled!Next, PoolInv
<1>2. ASSUME NEW sender \in Users, NEW p \in Principals, SetPaymentToken(sender, p)
      PROVE  UNCHANGED Pooled!vars /\ balances' \in Ledgers
  BY <1>2 DEF SetPaymentToken, lifecycleVars, Pooled!vars, PoolInv
<1>3. ASSUME NEW sender \in Users,
             \/ Hiring(sender) \/ Judging(sender) \/ Aftermath(sender)
             \/ \E j \in JobIds, token \in Tokens : Permissionless(sender, j, token)
      PROVE  Pooled!Next /\ balances' \in Ledgers
  BY <1>3, HiringPooled, JudgingPooled, PermissionlessPooled, AftermathPooled, SameNames
  DEF Pooled!Next
<1>4. CASE World
  BY <1>4, WorldPooled DEF Pooled!Next
<1>5. CASE UNCHANGED vars
  BY <1>5 DEF vars, lifecycleVars, tokenVars, Pooled!vars, PoolInv
<1> QED
  BY <1>1, <1>2, <1>3, <1>4, <1>5 DEF Next

\* What AgenticCommerce assumes of its constants holds of the pool.
LEMMA PoolAssumptions ==
    /\ {Escrow, Deployer, RegistryDeployer} \subseteq Principals
    /\ Escrow \notin {Deployer, RegistryDeployer}
    /\ NONE \notin Principals \cup Int
    /\ NONE \notin [payer : Principals, amount : Nat, worker : Principals \cup {NONE}]
    /\ PoolOf(InitialBalances) \in [Principals -> Nat] /\ PoolOf(InitialBalances)[Escrow] = 0
    /\ ReviewWindow \in Nat /\ AppealWindows \subseteq Nat
    /\ Budgets \subseteq Nat /\ Scores \subseteq Nat /\ ExternalAmounts \subseteq Nat
    /\ MaxJobs \in Nat /\ MaxStacksHeight \in Nat /\ MaxBurnHeight \in Nat
<1>1. InitialBalances \in Ledgers
  BY BalancesAssumption DEF Ledgers, Ledger
<1>2. PoolOf(InitialBalances) \in [Principals -> Nat] /\ PoolOf(InitialBalances)[Escrow] = 0
  BY <1>1, PoolHolds, BalancesAssumption, SbtcPrincipalsAssumption DEF Ledger
<1> QED
  BY <1>2, SbtcPrincipalsAssumption, SbtcNoneAssumption, SbtcWindowAssumption,
     SbtcInputAssumption, SbtcBoundAssumption

LEMMA InitPooled == Init => Pooled!Init /\ balances \in Ledgers
BY BalancesAssumption
DEF Init, Lifecycle!Init, Pooled!Init, Lifecycle!EmptyMap, Pooled!EmptyMap,
    Lifecycle!Registry!RegistryInit, Pooled!Registry!RegistryInit, Lifecycle!Registry!EmptyMap,
    Pooled!Registry!EmptyMap, Lifecycle!Registry!EmptyReputation,
    Pooled!Registry!EmptyReputation, Ledgers, Ledger

LEMMA PoolInvHolds == Spec => []PoolInv
<1>1. Init => PoolInv
  <2>1. Pooled!Init => Pooled!TypeOK
    BY Pooled!InitTypeOK, PoolAssumptions
  <2> QED
    BY <2>1, InitPooled DEF PoolInv
<1>2. PoolInv /\ [Next]_vars => PoolInv'
  <2>1. Pooled!TypeOK /\ [Pooled!Next]_(Pooled!vars) => Pooled!TypeOK'
    BY Pooled!NextTypeOK, PoolAssumptions
  <2> QED
    BY <2>1, NextPooled DEF PoolInv
<1> QED
  BY <1>1, <1>2, PTL DEF Spec

\* The token escrow is an STX escrow that is paid out of one pool: whatever
\* the tokens, the defaults and the refusals, its jobs, decisions, fees, reports
\* and roles take only the steps that agentic-commerce-v6 takes.
THEOREM TokensArePooled == Spec => Pooled!Spec
<1>1. Init => Pooled!Init
  BY InitPooled
<1>2. PoolInv /\ [Next]_vars => [Pooled!Next]_(Pooled!vars)
  BY NextPooled
<1> QED
  BY <1>1, <1>2, PoolInvHolds, PTL DEF Spec, Pooled!Spec

-----------------------------------------------------------------------------
(* What holds of the pool holds of the token escrow *)

LEMMA PoolPromiseInv == Spec => []Pooled!PromiseInv
<1>1. Pooled!Spec => []Pooled!PromiseInv
  BY Pooled!PromiseInvHolds, PoolAssumptions
<1> QED
  BY <1>1, TokensArePooled, PTL

-----------------------------------------------------------------------------
(* What a call does to the promise of one token *)

\* The mapped variables of a token, and a mapped step.
DepositsIn(token) == [j \in JobIds |-> IF j \in FundedIn(token)
                                       THEN Lifecycle!DepositOf(j) ELSE NONE]
ClosedIn(token) == Lifecycle!Closed \cap FundedIn(token)
TokenStutters(token) ==
    UNCHANGED <<balances[token], DepositsIn(token), ClosedIn(token)>>
TokenStep(token) == Promise(token)!Next \/ TokenStutters(token)

LEMMA SameDeposits ==
    /\ \A j \in JobIds : Pooled!Deposits[j] = Lifecycle!DepositOf(j)
    /\ Pooled!Closed = Lifecycle!Closed
    /\ \A j \in JobIds : Pooled!Deposits'[j] = Lifecycle!DepositOf(j)'
    /\ Pooled!Closed' = Lifecycle!Closed'
    /\ Pooled!Deposits = [j \in JobIds |-> Pooled!Deposits[j]]
    /\ Pooled!Deposits' = [j \in JobIds |-> Pooled!Deposits'[j]]
<1>1. /\ \A j : Pooled!DepositOf(j) = Lifecycle!DepositOf(j)
      /\ \A j : Pooled!DepositOf(j)' = Lifecycle!DepositOf(j)'
  BY DEF Pooled!DepositOf, Lifecycle!DepositOf, Pooled!STATUS_FUNDED, Lifecycle!STATUS_FUNDED
<1>2. /\ Pooled!Deposits = [j \in JobIds |-> Lifecycle!DepositOf(j)]
      /\ Pooled!Deposits' = [j \in JobIds |-> Lifecycle!DepositOf(j)']
  BY <1>1, SameNames DEF Pooled!Deposits, JobIds, Lifecycle!JobIds
<1>3. Pooled!Closed = Lifecycle!Closed /\ Pooled!Closed' = Lifecycle!Closed'
  BY DEF Pooled!Closed, Lifecycle!Closed, Pooled!HeldStatuses, Lifecycle!HeldStatuses,
         Pooled!STATUS_FUNDED, Lifecycle!STATUS_FUNDED, Pooled!STATUS_SUBMITTED,
         Lifecycle!STATUS_SUBMITTED, Pooled!STATUS_DECISION_PENDING,
         Lifecycle!STATUS_DECISION_PENDING, Pooled!STATUS_DISPUTED,
         Lifecycle!STATUS_DISPUTED, Pooled!STATUS_OPEN, Lifecycle!STATUS_OPEN
<1> QED
  BY <1>2, <1>3

\* The deposits of a token are those of the pool that were paid in it.
LEMMA DepositsByToken ==
    ASSUME NEW token
    PROVE  /\ DepositsIn(token) = [j \in JobIds |-> IF j \in FundedIn(token)
                                       THEN Pooled!Deposits[j] ELSE NONE]
           /\ DepositsIn(token)' = [j \in JobIds |-> IF j \in FundedIn(token)'
                                       THEN Pooled!Deposits'[j] ELSE NONE]
           /\ ClosedIn(token) = Pooled!Closed \cap FundedIn(token)
           /\ ClosedIn(token)' = Pooled!Closed' \cap FundedIn(token)'
BY SameDeposits DEF DepositsIn, ClosedIn, JobIds, Lifecycle!JobIds

\* What the pool does when no money moves.
LEMMA QuietPool ==
    ASSUME Pooled!PromiseStep, UNCHANGED balances
    PROVE  \/ Pooled!Deposits' = Pooled!Deposits /\ Pooled!Closed' = Pooled!Closed
           \/ \E j \in JobIds, worker \in Principals \ {Escrow} :
                /\ Pooled!Deposits[j] # NONE /\ Pooled!Deposits[j].worker = NONE
                /\ worker # Pooled!Deposits[j].payer
                /\ Pooled!Deposits' = [Pooled!Deposits EXCEPT ![j].worker = worker]
                /\ Pooled!Closed' = Pooled!Closed
           \/ \E j \in JobIds :
                /\ Pooled!Deposits[j] = NONE /\ j \notin Pooled!Closed
                /\ Pooled!Deposits' = Pooled!Deposits
                /\ Pooled!Closed' = Pooled!Closed \cup {j}
<1>1. CASE Pooled!Stutter
  BY <1>1 DEF Pooled!Stutter
<1>2. CASE Pooled!Promise!Next
  <2>1. ~ Pooled!Promise!MoneyMoves
    BY DEF Pooled!Promise!MoneyMoves
  <2>2. \/ \E j \in JobIds, worker \in Principals \ {Escrow} : Pooled!Promise!Engage(j, worker)
        \/ \E j \in JobIds : Pooled!Promise!Abandon(j)
    BY <1>2, <2>1, SameNames DEF Pooled!Promise!Next, Pooled!Promise!Others
  <2> QED
    BY <2>2 DEF Pooled!Promise!Engage, Pooled!Promise!Abandon, Pooled!Deposits
<1> QED
  BY <1>1, <1>2 DEF Pooled!PromiseStep

\* A call that moves no token engages a worker, abandons a job or does nothing
\* to the money.
LEMMA QuietStep ==
    ASSUME Pooled!PromiseStep, UNCHANGED <<balances, jobPaymentTokens>>, NEW token
    PROVE  TokenStep(token)
<1> DEFINE D == Pooled!Deposits
           E == Pooled!Deposits'
           C == Pooled!Closed
           F == FundedIn(token)
<1>1. FundedIn(token)' = F /\ balances'[token] = balances[token]
  BY DEF FundedIn
<1>2. /\ DepositsIn(token) = [x \in JobIds |-> IF x \in F THEN D[x] ELSE NONE]
      /\ DepositsIn(token)' = [x \in JobIds |-> IF x \in F THEN E[x] ELSE NONE]
      /\ ClosedIn(token) = C \cap F /\ ClosedIn(token)' = Pooled!Closed' \cap F
      /\ D = [x \in JobIds |-> D[x]] /\ E = [x \in JobIds |-> E[x]]
  BY <1>1, DepositsByToken, SameDeposits
<1> HIDE DEF F, D, E, C
<1>3. CASE E = D /\ Pooled!Closed' = C
  BY <1>1, <1>2, <1>3 DEF TokenStep, TokenStutters
<1>4. ASSUME NEW j \in JobIds, NEW worker \in Principals \ {Escrow},
             D[j] # NONE, D[j].worker = NONE, worker # D[j].payer,
             E = [D EXCEPT ![j].worker = worker], Pooled!Closed' = C
      PROVE  TokenStep(token)
  <2>1. E[j] = [D[j] EXCEPT !.worker = worker] /\ \A x \in JobIds : x # j => E[x] = D[x]
    BY <1>2, <1>4
  <2>2. CASE j \in F
    <3>1. DepositsIn(token)' = [DepositsIn(token) EXCEPT ![j].worker = worker]
      BY <1>2, <2>1, <2>2
    <3>2. DepositsIn(token)[j] = D[j]
      BY <1>2, <2>2
    <3>3. Promise(token)!Engage(j, worker)
      BY <1>1, <1>2, <1>4, <3>1, <3>2 DEF Promise!Engage, DepositsIn, ClosedIn
    <3> QED
      BY <3>3 DEF TokenStep, Promise!Next, Promise!Others
  <2>3. CASE j \notin F
    BY <1>1, <1>2, <1>4, <2>1, <2>3 DEF TokenStep, TokenStutters
  <2> QED
    BY <2>2, <2>3
<1>5. ASSUME NEW j \in JobIds, D[j] = NONE, j \notin C, E = D, Pooled!Closed' = C \cup {j}
      PROVE  TokenStep(token)
  <2>1. CASE j \in F
    <3>1. /\ DepositsIn(token)' = DepositsIn(token) /\ DepositsIn(token)[j] = NONE
          /\ ClosedIn(token)' = ClosedIn(token) \cup {j} /\ j \notin ClosedIn(token)
      BY <1>2, <1>5, <2>1
    <3>2. Promise(token)!Abandon(j)
      BY <1>1, <3>1 DEF Promise!Abandon, DepositsIn, ClosedIn
    <3> QED
      BY <3>2 DEF TokenStep, Promise!Next
  <2>2. CASE j \notin F
    BY <1>1, <1>2, <1>5, <2>2 DEF TokenStep, TokenStutters
  <2> QED
    BY <2>1, <2>2
<1> QED
  BY <1>3, <1>4, <1>5, QuietPool DEF D, E, C

\* A job is paid in with the token it is funded in; no other token notices.
LEMMA FundStep ==
    ASSUME PoolInv, Pooled!PromiseInv, NEW sender \in Users, NEW j \in JobIds,
           NEW paid \in Tokens, FundJob(sender, j, paid), NEW token \in Tokens
    PROVE  TokenStep(token)
<1> DEFINE budget == jobs[j].budget
           F == FundedIn(token)
           row == [payer |-> sender, amount |-> budget, worker |-> NONE]
           ledger == balances[token]
<1>1. /\ j \in DOMAIN jobs
      /\ In(paid)!CanTransfer(balances[paid], budget, sender, Escrow)
      /\ balances' = With(balances, paid,
                          In(paid)!Transfer(balances[paid], budget, sender, Escrow))
      /\ jobPaymentTokens' = MapSet(jobPaymentTokens, j, paid)
  BY DEF FundJob, Moves, With, In!FundJob, In!StxTransfer
<1>2. /\ Pooled!Deposits[j] = NONE /\ j \notin Pooled!Closed
      /\ Pooled!Deposits' = [Pooled!Deposits EXCEPT ![j] = row]
      /\ Pooled!Closed' = Pooled!Closed
  BY FundJobPooled, Pooled!FundOpensDeposit, PoolAssumptions, SameNames
<1>3. FundedIn(token)' = IF paid = token THEN F \cup {j} ELSE F \ {j}
  BY <1>1 DEF FundedIn, MapSet
<1>4. /\ \A x \in JobIds : x # j => Pooled!Deposits'[x] = Pooled!Deposits[x]
      /\ Pooled!Deposits'[j] = row
  BY <1>2, SameDeposits
<1>5. /\ DepositsIn(token) = [x \in JobIds |-> IF x \in F THEN Pooled!Deposits[x] ELSE NONE]
      /\ DepositsIn(token)' = [x \in JobIds |-> IF x \in FundedIn(token)'
                                   THEN Pooled!Deposits'[x] ELSE NONE]
      /\ ClosedIn(token)' = ClosedIn(token) /\ j \notin ClosedIn(token)
  BY <1>2, <1>3, DepositsByToken
<1>6. CASE paid # token
  <2>1. DepositsIn(token)' = DepositsIn(token)
    BY <1>2, <1>3, <1>4, <1>5, <1>6
  <2>2. balances'[token] = balances[token]
    BY <1>1, <1>6 DEF With
  <2> QED
    BY <1>5, <2>1, <2>2 DEF TokenStep, TokenStutters
<1>7. CASE paid = token
  <2>1. /\ budget \in Nat /\ budget > 0 /\ ledger[sender] >= budget
        /\ sender \in Principals \ {Escrow} /\ ledger \in Ledger
        /\ balances'[token] = In(token)!Transfer(ledger, budget, sender, Escrow)
    BY <1>1, <1>7, BudgetsAreNat, PrincipalsAreKnown
    DEF In!CanTransfer, With, PoolInv, Ledgers
  <2>2. /\ DepositsIn(token)[j] = NONE
        /\ DepositsIn(token)' = [DepositsIn(token) EXCEPT ![j] = row]
    BY <1>2, <1>3, <1>4, <1>5, <1>7
  <2>3. ledger[sender] \in Nat /\ budget \in 1..ledger[sender]
    BY <2>1 DEF Ledger
  <2>4. balances'[token] = Promise(token)!Pay(ledger, budget, sender, Escrow)
    BY <2>1 DEF In!Transfer, Promise!Pay
  <2>5. balances'[token] # ledger
    <3>1. balances'[token][sender] = ledger[sender] - budget
      BY <2>1 DEF In!Transfer, Ledger
    <3> QED
      BY <2>1, <2>3, <3>1
  <2>6. Promise(token)!Deposit(j, sender)
    BY <1>5, <2>2, <2>3, <2>4 DEF Promise!Deposit, DepositsIn, ClosedIn
  <2> QED
    BY <2>1, <2>5, <2>6 DEF TokenStep, Promise!Next, Promise!MoneyMoves, Promise!Others
<1> QED
  BY <1>6, <1>7

\* A job is closed and its budget paid out, less a fee, in the token it was
\* funded in; no other token notices.
LEMMA ReleaseStep ==
    ASSUME PoolInv, Pooled!PromiseInv, NEW j \in DOMAIN jobs,
           jobs[j].status \in Pooled!HeldStatuses,
           NEW s, s \notin Pooled!LiveStatuses, jobs' = [jobs EXCEPT ![j].status = s],
           escrowBalances' = Pooled!EscrowWithout(j), UNCHANGED jobPaymentTokens,
           NEW paid \in Tokens, CheckJobToken(j, paid),
           NEW to \in Principals, to # Escrow, to \in {jobs[j].client, jobs[j].provider},
           jobs[j].status = Pooled!STATUS_FUNDED => to = jobs[j].client,
           NEW fee \in {0, Fee(jobs[j].budget)}, fee \in 0..jobs[j].budget,
           fee > 0 => jobs[j].status # Pooled!STATUS_FUNDED /\ jobs[j].provider # NONE,
           jobs[j].budget > 0,
           balances' = With(balances, paid, Promise(paid)!Pay(Promise(paid)!Pay(
                           balances[paid], jobs[j].budget - fee, Escrow, to),
                           fee, Escrow, jobs[j].treasury)),
           NEW token \in Tokens
    PROVE  TokenStep(token)
<1> DEFINE F == FundedIn(token)
           D == DepositsIn(token)
           budget == jobs[j].budget
           treasury == jobs[j].treasury
           ledger == balances[token]
<1>1. /\ j \in JobIds /\ treasury \in Users /\ Pooled!Deposits[j] # NONE
      /\ treasury \notin {Pooled!Deposits[j].payer, Pooled!Deposits[j].worker}
      /\ Pooled!Deposits[j].amount = budget
      /\ Pooled!Deposits[j].payer = jobs[j].client
      /\ Pooled!Deposits[j].worker = IF jobs[j].status = Pooled!STATUS_FUNDED
                                     THEN NONE ELSE jobs[j].provider
  BY Pooled!HeldDeposit, PoolAssumptions, SameNames
<1>2. /\ Pooled!Deposits' = [Pooled!Deposits EXCEPT ![j] = NONE]
      /\ Pooled!Closed' = Pooled!Closed \cup {j}
  BY Pooled!CloseEndsDeposit, PoolAssumptions
<1>3. FundedIn(token)' = F /\ (j \in F <=> paid = token)
  BY DEF FundedIn, CheckJobToken
<1>4. /\ \A x \in JobIds : x # j => Pooled!Deposits'[x] = Pooled!Deposits[x]
      /\ Pooled!Deposits'[j] = NONE
  BY <1>1, <1>2, SameDeposits
<1>5. /\ D = [x \in JobIds |-> IF x \in F THEN Pooled!Deposits[x] ELSE NONE]
      /\ D' = [x \in JobIds |-> IF x \in F THEN Pooled!Deposits'[x] ELSE NONE]
      /\ ClosedIn(token) = Pooled!Closed \cap F
      /\ ClosedIn(token)' = (Pooled!Closed \cup {j}) \cap F
  BY <1>2, <1>3, DepositsByToken
<1>6. CASE paid # token
  <2>1. D' = D /\ ClosedIn(token)' = ClosedIn(token)
    BY <1>3, <1>4, <1>5, <1>6
  <2>2. balances'[token] = balances[token]
    BY <1>6 DEF With
  <2> QED
    BY <2>1, <2>2 DEF TokenStep, TokenStutters
<1>7. CASE paid = token
  <2>1. /\ D[j] = Pooled!Deposits[j] /\ D' = [D EXCEPT ![j] = NONE]
        /\ ClosedIn(token)' = ClosedIn(token) \cup {j}
    BY <1>1, <1>3, <1>4, <1>5, <1>7
  <2>2. /\ ledger \in Ledger
        /\ balances'[token] = Promise(token)!Pay(Promise(token)!Pay(
               ledger, budget - fee, Escrow, to), fee, Escrow, treasury)
    BY <1>7 DEF With, PoolInv, Ledgers
  <2>3. budget \in Nat /\ fee \in Nat /\ fee <= budget /\ treasury # Escrow
        /\ Escrow \in Principals /\ treasury \in Principals
    BY <1>1, BudgetsAreNat, PrincipalsAreKnown DEF Users, Lifecycle!Users
  <2>4. balances'[token] # ledger
    <3>1. balances'[token][Escrow] = (ledger[Escrow] - (budget - fee)) - fee
      BY <2>2, <2>3 DEF Promise!Pay, Ledger
    <3>2. ledger[Escrow] \in Nat
      BY <2>2, <2>3 DEF Ledger
    <3> QED
      BY <2>3, <3>1, <3>2
  <2>5. to \in {D[j].payer, D[j].worker} /\ treasury \notin {D[j].payer, D[j].worker}
    BY <1>1, <2>1
  <2>6. fee > 0 => D[j].worker # NONE
    BY <1>1, <2>1
  <2>7. fee \in {0, Promise(token)!Fee(D[j].amount)}
    BY <1>1, <2>1 DEF Fee, Promise!Fee, SERVICE_FEE_DIVISOR, Promise!SERVICE_FEE_DIVISOR
  <2>8. D[j] # NONE /\ D[j].amount = budget
    BY <1>1, <2>1
  <2> HIDE DEF D, budget, treasury, ledger
  <2>9. \E f \in {0, Promise(token)!Fee(D[j].amount)} :
            /\ f > 0 => D[j].worker # NONE
            /\ balances'[token] = Promise(token)!Pay(Promise(token)!Pay(
                   ledger, D[j].amount - f, Escrow, to), f, Escrow, treasury)
    BY <2>2, <2>6, <2>7, <2>8
  <2> PICK collector \in Principals : collector = treasury
    BY <2>3
  <2>10. Promise(token)!Release(j, to, collector)
    BY <2>1, <2>5, <2>8, <2>9 DEF Promise!Release, D, DepositsIn, ClosedIn, ledger
  <2> QED
    <3>1. to \in Promise(token)!Others /\ collector \in Promise(token)!Others
      BY <2>3 DEF Promise!Others
    <3>2. balances[token]' # balances[token]
      BY <2>4 DEF ledger
    <3>3. \E x \in JobIds : \E a, c \in Promise(token)!Others : Promise(token)!Release(x, a, c)
      BY <1>1, <2>10, <3>1, Zenon
    <3>4. Promise(token)!MoneyMoves
      BY <3>2, <3>3, Zenon DEF Promise!MoneyMoves
    <3> QED
      BY <3>4 DEF TokenStep, Promise!Next
<1> QED
  BY <1>6, <1>7

\* A payment of somebody else's money.
LEMMA ElsewhereStep ==
    ASSUME PoolInv, NEW from \in Users, NEW to \in Principals, NEW amount \in Int,
           NEW paid \in Tokens, In(paid)!CanTransfer(balances[paid], amount, from, to),
           balances' = With(balances, paid,
                            In(paid)!Transfer(balances[paid], amount, from, to)),
           UNCHANGED <<jobs, escrowBalances, jobPaymentTokens>>, NEW token \in Tokens
    PROVE  TokenStep(token)
<1> DEFINE ledger == balances[token]
<1>1. DepositsIn(token)' = DepositsIn(token) /\ ClosedIn(token)' = ClosedIn(token)
  BY DEF DepositsIn, ClosedIn, Lifecycle!DepositOf, Lifecycle!Closed, FundedIn
<1>2. CASE paid # token
  BY <1>1, <1>2 DEF With, TokenStep, TokenStutters
<1>3. CASE paid = token
  <2>1. /\ amount > 0 /\ from # to /\ ledger[from] >= amount
        /\ from \in Principals \ {Escrow} /\ ledger \in Ledger
        /\ balances'[token] = In(token)!Transfer(ledger, amount, from, to)
    BY <1>3 DEF In!CanTransfer, With, PoolInv, Ledgers, Users, Lifecycle!Users
  <2>2. ledger[from] \in Nat /\ amount \in 1..ledger[from]
    BY <2>1 DEF Ledger
  <2>3. balances'[token] = Promise(token)!Pay(ledger, amount, from, to)
    BY <2>1 DEF In!Transfer, Promise!Pay
  <2>4. balances'[token] # ledger
    <3>1. balances'[token][from] = ledger[from] - amount
      BY <2>1 DEF In!Transfer, Ledger
    <3> QED
      BY <2>1, <2>2, <3>1
  <2>5. Promise(token)!Elsewhere(from, to)
    BY <1>1, <2>2, <2>3 DEF Promise!Elsewhere, DepositsIn, ClosedIn
  <2> QED
    BY <2>1, <2>4, <2>5 DEF TokenStep, Promise!Next, Promise!MoneyMoves, Promise!Others
<1> QED
  BY <1>2, <1>3

\* The three ways to settle a decided job.
LEMMA SettleStep ==
    ASSUME PoolInv, Pooled!PromiseInv, NEW sender, NEW j \in DOMAIN jobs,
           jobs[j].provider # NONE,
           jobs[j].status \in {Pooled!STATUS_DECISION_PENDING, Pooled!STATUS_DISPUTED},
           NEW d \in {1, 2}, NEW paid \in Tokens,
           SettleServicePayment(j, d, paid), In(paid)!Settle(sender, j, d),
           NEW token \in Tokens
    PROVE  TokenStep(token)
<1> DEFINE recipient == Pooled!Recipient(jobs[j], d)
           treasury == jobs[j].treasury
           budget == jobs[j].budget
           ledger == balances[paid]
<1>1. /\ recipient \in Principals /\ recipient \in {jobs[j].client, jobs[j].provider}
      /\ recipient = In(paid)!Recipient(jobs[j], d)
      /\ recipient = Lifecycle!Recipient(jobs[j], d)
  BY BudgetsAreNat
  DEF In!Recipient, Pooled!Recipient, Lifecycle!Recipient, In!DECISION_APPROVE,
      Pooled!DECISION_APPROVE, Lifecycle!DECISION_APPROVE
<1> PICK to \in Principals : to = recipient
  BY <1>1
<1>2. Pooled!Settle(sender, j, d)
  BY SettlePooled
<1>3. /\ jobs' = [jobs EXCEPT ![j].status = Pooled!StatusFor(d)]
      /\ escrowBalances' = Pooled!EscrowWithout(j)
  BY <1>2 DEF Pooled!Settle
<1>4. /\ jobs[j].status \in Pooled!HeldStatuses
      /\ jobs[j].status # Pooled!STATUS_FUNDED
      /\ Pooled!StatusFor(d) \notin Pooled!LiveStatuses
  BY DEF Pooled!HeldStatuses, Pooled!LiveStatuses, Pooled!StatusFor, Pooled!STATUS_OPEN,
         Pooled!STATUS_FUNDED, Pooled!STATUS_SUBMITTED, Pooled!STATUS_COMPLETED,
         Pooled!STATUS_REJECTED, Pooled!STATUS_DECISION_PENDING, Pooled!STATUS_DISPUTED,
         Pooled!DECISION_APPROVE
<1> PICK fee : fee = Pooled!ChargedFee(j)
  OBVIOUS
<1>5. /\ CheckJobToken(j, paid) /\ UNCHANGED jobPaymentTokens
      /\ balances' = With(balances, paid, In(paid)!AfterSettlement(ledger, j, to))
  BY <1>1 DEF SettleServicePayment, Moves, With
<1>6. ledger \in Ledger
  BY DEF PoolInv, Ledgers
<1>7. /\ fee \in {0, Pooled!Fee(budget)} /\ fee \in 0..budget
      /\ Pooled!AfterSettlement(ledger, j, to) =
             Pooled!Promise!Pay(Pooled!Promise!Pay(ledger, budget - fee, Escrow, to),
                                fee, Escrow, treasury)
  BY <1>6, Pooled!SettlementShares, PoolAssumptions DEF PoolInv, Ledger
<1>8. In(paid)!AfterSettlement(ledger, j, to) = Pooled!AfterSettlement(ledger, j, to)
  BY DEF In!AfterSettlement, Pooled!AfterSettlement, In!ChargedFee, Pooled!ChargedFee,
         In!Fee, Pooled!Fee, In!FeeIsDue, Pooled!FeeIsDue, In!Transfer, Pooled!Transfer,
         In!SERVICE_FEE_DIVISOR, Pooled!SERVICE_FEE_DIVISOR
<1>9. \A f, amount, a, b :
          Pooled!Promise!Pay(f, amount, a, b) = Promise(paid)!Pay(f, amount, a, b)
  BY DEF Pooled!Promise!Pay, Promise!Pay
<1>10. balances' = With(balances, paid,
            Promise(paid)!Pay(Promise(paid)!Pay(balances[paid], budget - fee, Escrow, to),
                              fee, Escrow, treasury))
  BY <1>5, <1>7, <1>8, <1>9
<1>11. budget > 0 /\ to # Escrow
  BY <1>1 DEF In!Settle, In!SettleServicePayment, In!CanTransfer
<1>12. fee \in {0, Fee(budget)}
  BY <1>7 DEF Fee, Pooled!Fee, SERVICE_FEE_DIVISOR, Pooled!SERVICE_FEE_DIVISOR
<1>13. to \in {jobs[j].client, jobs[j].provider}
  BY <1>1
<1> PICK s : s = Pooled!StatusFor(d)
  OBVIOUS
<1>14. jobs' = [jobs EXCEPT ![j].status = s] /\ s \notin Pooled!LiveStatuses
  BY <1>3, <1>4
<1> HIDE DEF recipient, ledger
<1>15. /\ jobs[j].status \in Pooled!HeldStatuses
       /\ jobs[j].status # Pooled!STATUS_FUNDED
       /\ escrowBalances' = Pooled!EscrowWithout(j)
       /\ UNCHANGED jobPaymentTokens /\ CheckJobToken(j, paid)
       /\ fee \in 0..budget
  BY <1>3, <1>4, <1>5, <1>7
<1> QED
  BY <1>10, <1>11, <1>12, <1>13, <1>14, <1>15, ReleaseStep

\* The whole budget to one party, without a fee.
LEMMA GrossStep ==
    ASSUME PoolInv, Pooled!PromiseInv, NEW j \in DOMAIN jobs,
           jobs[j].status \in Pooled!HeldStatuses,
           NEW s, s \notin Pooled!LiveStatuses, jobs' = [jobs EXCEPT ![j].status = s],
           escrowBalances' = Pooled!EscrowWithout(j), UNCHANGED jobPaymentTokens,
           NEW paid \in Tokens, CheckJobToken(j, paid),
           NEW to \in Principals, to \in {jobs[j].client, jobs[j].provider},
           jobs[j].status = Pooled!STATUS_FUNDED => to = jobs[j].client,
           In(paid)!CanTransfer(balances[paid], jobs[j].budget, Escrow, to),
           balances' = With(balances, paid,
               In(paid)!Transfer(balances[paid], jobs[j].budget, Escrow, to)),
           NEW token \in Tokens
    PROVE  TokenStep(token)
<1> DEFINE treasury == jobs[j].treasury
           budget == jobs[j].budget
           after == In(paid)!Transfer(balances[paid], budget, Escrow, to)
<1>1. /\ budget \in Nat /\ budget > 0 /\ to # Escrow
      /\ treasury \in Principals /\ Escrow \in Principals
  BY BudgetsAreNat, PrincipalsAreKnown DEF In!CanTransfer
<1>2. balances[paid] \in Ledger
  BY DEF PoolInv, Ledgers
<1>3. after \in [Principals -> Int]
  BY <1>1, <1>2 DEF In!Transfer, Ledger
<1>4. after = Promise(paid)!Pay(balances[paid], budget, Escrow, to)
  BY DEF In!Transfer, Promise!Pay
<1>5. Promise(paid)!Pay(after, 0, Escrow, treasury) = after
  <2> HIDE DEF after, treasury
  <2> QED
    BY <1>1, <1>3 DEF Promise!Pay
<1>6. budget - 0 = budget
  BY <1>1
<1> PICK fee : fee = 0
  OBVIOUS
<1>7. balances' = With(balances, paid,
            Promise(paid)!Pay(Promise(paid)!Pay(balances[paid], budget - fee, Escrow, to),
                              fee, Escrow, treasury))
  BY <1>4, <1>5, <1>6
<1>8. fee \in {0, Fee(budget)} /\ fee \in 0..budget /\ ~ (fee > 0)
  BY <1>1
<1> HIDE DEF after
<1> QED
  BY <1>1, <1>7, <1>8, ReleaseStep

LEMMA PermissionlessStep ==
    ASSUME PoolInv, Pooled!PromiseInv, NEW sender \in Users, NEW j \in JobIds,
           NEW paid \in Tokens, Permissionless(sender, j, paid), Pooled!PromiseStep,
           NEW token \in Tokens
    PROVE  TokenStep(token)
<1>1. CASE FinalizeDecision(sender, j, paid)
  <2>1. /\ j \in DOMAIN jobs /\ j \in DOMAIN decisions /\ jobs[j].provider # NONE
        /\ jobs[j].status = Pooled!STATUS_DECISION_PENDING
        /\ SettleServicePayment(j, decisions[j].original, paid)
        /\ In(paid)!Settle(sender, j, decisions[j].original)
    BY <1>1 DEF FinalizeDecision, In!FinalizeDecision, In!STATUS_DECISION_PENDING,
                Pooled!STATUS_DECISION_PENDING
  <2> QED
    BY <2>1, DecisionsAreValid, SettleStep
<1>2. CASE SettleAppealTimeout(sender, j, paid)
  <2>1. /\ j \in DOMAIN jobs /\ j \in DOMAIN decisions /\ jobs[j].provider # NONE
        /\ jobs[j].status = Pooled!STATUS_DISPUTED
        /\ SettleServicePayment(j, decisions[j].original, paid)
        /\ In(paid)!Settle(sender, j, decisions[j].original)
    BY <1>2 DEF SettleAppealTimeout, In!SettleAppealTimeout, In!STATUS_DISPUTED,
                Pooled!STATUS_DISPUTED
  <2> QED
    BY <2>1, DecisionsAreValid, SettleStep
<1>3. CASE SettleReviewTimeout(sender, j, paid)
  <2>1. /\ j \in DOMAIN jobs /\ jobs[j].provider # NONE /\ CheckJobToken(j, paid)
        /\ In(paid)!CanTransfer(balances[paid], jobs[j].budget, Escrow, jobs[j].provider)
        /\ balances' = With(balances, paid, In(paid)!Transfer(balances[paid],
                                jobs[j].budget, Escrow, jobs[j].provider))
        /\ UNCHANGED jobPaymentTokens
    BY <1>3 DEF SettleReviewTimeout, Moves, With, In!SettleReviewTimeout, In!StxTransfer
  <2>2. /\ jobs[j].status = Pooled!STATUS_SUBMITTED
        /\ escrowBalances' = Pooled!EscrowWithout(j)
        /\ jobs' = [jobs EXCEPT ![j].status = Pooled!STATUS_TIMEOUT_PAID]
    BY <1>3, SettleReviewTimeoutPooled DEF Pooled!SettleReviewTimeout
  <2>3. /\ Pooled!STATUS_SUBMITTED \in Pooled!HeldStatuses
        /\ Pooled!STATUS_SUBMITTED # Pooled!STATUS_FUNDED
        /\ Pooled!STATUS_TIMEOUT_PAID \notin Pooled!LiveStatuses
    BY DEF Pooled!HeldStatuses, Pooled!LiveStatuses, Pooled!STATUS_OPEN,
           Pooled!STATUS_FUNDED, Pooled!STATUS_SUBMITTED, Pooled!STATUS_TIMEOUT_PAID,
           Pooled!STATUS_DECISION_PENDING, Pooled!STATUS_DISPUTED
  <2> PICK to \in Principals : to = jobs[j].provider
    BY <2>1, BudgetsAreNat
  <2> QED
    BY <2>1, <2>2, <2>3, GrossStep
<1>4. CASE ExpireJob(sender, j, paid)
  <2>1. CASE MapGetOr(escrowBalances, j, 0) > 0
    <3>1. /\ j \in DOMAIN jobs /\ CheckJobToken(j, paid)
          /\ j \in DOMAIN escrowBalances
          /\ UNCHANGED jobPaymentTokens
          /\ Pooled!ExpireJob(sender, j)
      BY <1>4, <2>1, ExpireJobPooled DEF ExpireJob, MapGetOr
    <3>2. escrowBalances[j] = jobs[j].budget /\ jobs[j].status \in Pooled!HeldStatuses
      BY <3>1 DEF Pooled!PromiseInv, Pooled!EscrowInv, Pooled!EscrowMatchesStatus
    <3>3. /\ In(paid)!CanTransfer(balances[paid], jobs[j].budget, Escrow, jobs[j].client)
          /\ balances' = With(balances, paid, In(paid)!Transfer(balances[paid],
                                  jobs[j].budget, Escrow, jobs[j].client))
      BY <1>4, <2>1, <3>1, <3>2
      DEF ExpireJob, Moves, With, In!ExpireJob, In!StxTransfer, MapGetOr, In!MapGetOr
    <3>4. /\ jobs' = [jobs EXCEPT ![j].status = Pooled!STATUS_EXPIRED]
          /\ escrowBalances' = Pooled!EscrowWithout(j)
      BY <2>1, <3>1 DEF Pooled!ExpireJob, MapGetOr, Pooled!MapGetOr
    <3>5. Pooled!STATUS_EXPIRED \notin Pooled!LiveStatuses
      BY DEF Pooled!HeldStatuses, Pooled!LiveStatuses, Pooled!STATUS_OPEN,
             Pooled!STATUS_FUNDED, Pooled!STATUS_SUBMITTED, Pooled!STATUS_EXPIRED,
             Pooled!STATUS_DECISION_PENDING, Pooled!STATUS_DISPUTED
    <3> PICK to \in Principals : to = jobs[j].client
      BY <3>1, BudgetsAreNat
    <3> QED
      BY <3>1, <3>2, <3>3, <3>4, <3>5, GrossStep
  <2>2. CASE ~ (MapGetOr(escrowBalances, j, 0) > 0)
    BY <1>4, <2>2, QuietStep DEF ExpireJob, tokenVars
  <2> QED
    BY <2>1, <2>2
<1> QED
  BY <1>1, <1>2, <1>3, <1>4 DEF Permissionless

LEMMA JudgingStep ==
    ASSUME PoolInv, Pooled!PromiseInv, NEW sender \in Users, Judging(sender),
           Pooled!PromiseStep, NEW token \in Tokens
    PROVE  TokenStep(token)
<1>1. ASSUME NEW j \in JobIds, NEW h \in Hashes, NEW d \in 0..3, NEW paid \in Tokens,
             ResolveAppeal(sender, j, d, h, paid)
      PROVE  TokenStep(token)
  <2>1. /\ j \in DOMAIN jobs /\ jobs[j].provider # NONE /\ d \in {1, 2}
        /\ jobs[j].status = Pooled!STATUS_DISPUTED
        /\ SettleServicePayment(j, d, paid) /\ In(paid)!Settle(sender, j, d)
    BY <1>1 DEF ResolveAppeal, In!ResolveAppeal, In!IsValidDecision, In!DECISION_APPROVE,
                In!DECISION_REJECT, In!STATUS_DISPUTED, Pooled!STATUS_DISPUTED
  <2> QED
    BY <2>1, SettleStep
<1> QED
  BY <1>1, QuietStep
  DEF Judging, RecordDecision, AppealDecision, WaiveServiceFee, tokenVars

LEMMA AftermathStep ==
    ASSUME PoolInv, Pooled!PromiseInv, NEW sender \in Users, Aftermath(sender),
           Pooled!PromiseStep, NEW token \in Tokens
    PROVE  TokenStep(token)
<1>1. ASSUME NEW j \in JobIds, NEW paid \in Tokens, RefundServiceFee(sender, j, paid)
      PROVE  TokenStep(token)
  <2> DEFINE row == serviceFeeSettlements[j]
  <2>1. /\ j \in DOMAIN serviceFeeSettlements
        /\ In(paid)!CanTransfer(balances[paid], row.chargedFee - row.refundedFee,
                                sender, row.recipient)
        /\ balances' = With(balances, paid, In(paid)!Transfer(balances[paid],
                            row.chargedFee - row.refundedFee, sender, row.recipient))
        /\ UNCHANGED <<jobs, escrowBalances, jobPaymentTokens>>
    BY <1>1 DEF RefundServiceFee, Moves, With, In!RefundServiceFee, In!StxTransfer, In!RefundPayer
  <2>2. row.chargedFee - row.refundedFee \in Int /\ row.recipient \in Principals
    BY <2>1 DEF PoolInv, Pooled!TypeOK, Pooled!MapsTypeOK, Pooled!IsMap, Pooled!Settlement
  <2> PICK due \in Int, to \in Principals :
          due = row.chargedFee - row.refundedFee /\ to = row.recipient
    BY <2>2
  <2> QED
    BY <2>1, ElsewhereStep
<1> QED
  BY <1>1, QuietStep DEF Aftermath, RetryReputationSync, RateProvider, tokenVars

LEMMA NextIsPromised ==
    ASSUME PoolInv, Pooled!PromiseInv, PoolInv', Pooled!PromiseInv', [Next]_vars
    PROVE  Pooled!PromiseStep
<1>1. [Pooled!Next]_(Pooled!vars)
  BY NextPooled
<1>2. Pooled!TypeOK' /\ Pooled!EscrowMatchesStatus'
  BY DEF PoolInv, Pooled!PromiseInv, Pooled!EscrowInv
<1> QED
  BY <1>1, <1>2, Pooled!NextMapped, PoolAssumptions

\* Every step keeps the promise for every token.
LEMMA NextTokenStep ==
    ASSUME PoolInv, Pooled!PromiseInv, PoolInv', Pooled!PromiseInv', [Next]_vars,
           NEW token \in Tokens
    PROVE  TokenStep(token)
<1>1. Pooled!PromiseStep
  BY NextIsPromised
<1>2. ASSUME UNCHANGED <<balances, jobPaymentTokens>> PROVE TokenStep(token)
  BY <1>1, <1>2, QuietStep
<1>3. ASSUME NEW sender \in Users, Hiring(sender) PROVE TokenStep(token)
  BY <1>2, <1>3, FundStep
  DEF Hiring, CreateJob, SetBudget, AssignProvider, SubmitWork, tokenVars
<1>4. ASSUME NEW sender \in Users,
             \/ Judging(sender) \/ Aftermath(sender)
             \/ \E j \in JobIds, paid \in Tokens : Permissionless(sender, j, paid)
      PROVE  TokenStep(token)
  BY <1>1, <1>4, JudgingStep, AftermathStep, PermissionlessStep
<1>5. CASE World
  <2>1. ASSUME NEW sender \in Users, NEW to \in Principals, NEW amount \in ExternalAmounts,
               NEW paid \in Tokens, ExternalTransfer(sender, to, amount, paid)
        PROVE  TokenStep(token)
    <3>1. /\ In(paid)!CanTransfer(balances[paid], amount, sender, to)
          /\ balances' = With(balances, paid,
                              In(paid)!Transfer(balances[paid], amount, sender, to))
          /\ UNCHANGED <<jobs, escrowBalances, jobPaymentTokens>> /\ amount \in Int
      BY <2>1, SbtcInputAssumption DEF ExternalTransfer, Moves, With, lifecycleVars
    <3> QED
      BY <3>1, ElsewhereStep
  <2> QED
    BY <1>2, <1>5, <2>1 DEF World, AdvanceBlocks, TokenPolicy, RegistryStep, tokenVars
<1>6. CASE UNCHANGED vars
  BY <1>2, <1>6 DEF vars, tokenVars
<1> QED
  BY <1>2, <1>3, <1>4, <1>5, <1>6 DEF Next, Governance, SetPaymentToken, tokenVars

\* For every token on its own the contract implements EscrowPromise: the money
\* of the jobs funded in a token is paid in once and out once, in full, in that
\* token, however often the owner changes the default and whichever recipients
\* the tokens refuse.
THEOREM PromiseIsKeptPerToken == Spec => KeepsPromise
<1>1. Init => \A token \in Tokens : Promise(token)!Init
  <2> SUFFICES ASSUME Init, NEW token \in Tokens PROVE Promise(token)!Init
    OBVIOUS
  <2>1. /\ balances[token] \in [Principals -> Nat] /\ FundedIn(token) = {}
    BY BalancesAssumption DEF Init, FundedIn, EmptyMap
  <2> QED
    BY <2>1 DEF Promise!Init
<1>2. PoolInv /\ Pooled!PromiseInv /\ PoolInv' /\ Pooled!PromiseInv' /\ [Next]_vars =>
          \A token \in Tokens :
              Promise(token)!Next \/ UNCHANGED Promise(token)!promiseVars
  <2> SUFFICES ASSUME PoolInv, Pooled!PromiseInv, PoolInv', Pooled!PromiseInv', [Next]_vars,
                      NEW token \in Tokens
               PROVE  Promise(token)!Next \/ UNCHANGED Promise(token)!promiseVars
    OBVIOUS
  <2>1. TokenStep(token)
    BY NextTokenStep
  <2> QED
    BY <2>1 DEF TokenStep, TokenStutters, Promise!promiseVars, DepositsIn, ClosedIn
<1> QED
  BY <1>1, <1>2, PoolInvHolds, PoolPromiseInv, PTL DEF Spec, KeepsPromise

-----------------------------------------------------------------------------
(* The contract's balance of a token covers the jobs funded in it *)

Row == [payer : Principals, amount : Nat, worker : Principals \cup {NONE}]
Amount(row) == IF row = NONE THEN 0 ELSE row.amount
\* The escrow map that records given deposits.
Amounts(deposits) ==
    [j \in {k \in JobIds : deposits[k] # NONE} |-> deposits[j].amount]

AllPinned == DOMAIN escrowBalances \subseteq DOMAIN jobPaymentTokens
BackedIn(token) ==
    balances[token][Escrow] >= EscrowIn(token, escrowBalances, jobPaymentTokens)

\* The escrow map and the deposits of the pool are the same rows.
LEMMA HeldRows ==
    PoolInv /\ Pooled!PromiseInv =>
        /\ DOMAIN escrowBalances = {j \in JobIds : Pooled!Deposits[j] # NONE}
        /\ \A j \in DOMAIN escrowBalances :
               Pooled!Deposits[j] \in Row /\ Pooled!Deposits[j].amount = escrowBalances[j]
<1> SUFFICES ASSUME PoolInv, Pooled!PromiseInv
             PROVE  /\ DOMAIN escrowBalances = {j \in JobIds : Pooled!Deposits[j] # NONE}
                    /\ \A j \in DOMAIN escrowBalances :
                         /\ Pooled!Deposits[j] \in Row
                         /\ Pooled!Deposits[j].amount = escrowBalances[j]
  OBVIOUS
<1>1. /\ DOMAIN escrowBalances \subseteq DOMAIN jobs /\ DOMAIN jobs \subseteq JobIds
      /\ \A j \in DOMAIN escrowBalances : escrowBalances[j] \in Nat
  BY SameNames, SbtcBoundAssumption
  DEF PoolInv, Pooled!TypeOK, Pooled!MapsTypeOK, Pooled!JobsTypeOK, Pooled!IsMap, Pooled!JobIds
<1>2. ASSUME NEW j \in DOMAIN escrowBalances
      PROVE  /\ Pooled!Deposits[j] \in Row /\ Pooled!Deposits[j] # NONE
             /\ Pooled!Deposits[j].amount = escrowBalances[j]
  <2>1. Pooled!Deposits[j] =
            [payer |-> jobs[j].client, amount |-> escrowBalances[j],
             worker |-> IF jobs[j].status = Pooled!STATUS_FUNDED
                        THEN NONE ELSE jobs[j].provider]
    BY <1>1, SameNames DEF Pooled!Deposits, Pooled!DepositOf
  <2>2. Pooled!Deposits[j] \in Row
    BY <1>1, <2>1, BudgetsAreNat DEF Row
  <2> QED
    BY <2>1, <2>2, SbtcNoneAssumption DEF Row
<1>3. ASSUME NEW j \in JobIds, j \notin DOMAIN escrowBalances PROVE Pooled!Deposits[j] = NONE
  BY <1>3, SameNames DEF Pooled!Deposits, Pooled!DepositOf
<1> QED
  BY <1>1, <1>2, <1>3

\* The rows of the jobs funded in a token record that token's deposits.
RowsRecorded ==
    \A token \in Tokens :
        /\ DepositsIn(token) \in [JobIds -> Row \cup {NONE}]
        /\ EscrowIn(token, escrowBalances, jobPaymentTokens) =
               Pooled!Owed(Amounts(DepositsIn(token)))

LEMMA RowsAreDeposits == PoolInv /\ Pooled!PromiseInv /\ AllPinned => RowsRecorded
<1> SUFFICES ASSUME PoolInv, Pooled!PromiseInv, AllPinned, NEW token \in Tokens
             PROVE  /\ DepositsIn(token) \in [JobIds -> Row \cup {NONE}]
                    /\ EscrowIn(token, escrowBalances, jobPaymentTokens) =
                           Pooled!Owed(Amounts(DepositsIn(token)))
  BY DEF RowsRecorded
<1> DEFINE S == {j \in DOMAIN escrowBalances : jobPaymentTokens[j] = token}
           D == DepositsIn(token)
           P == Pooled!Deposits
<1>1. /\ DOMAIN escrowBalances = {j \in JobIds : P[j] # NONE}
      /\ \A j \in DOMAIN escrowBalances : P[j] \in Row /\ P[j].amount = escrowBalances[j]
  BY HeldRows
<1>2. D = [j \in JobIds |-> IF j \in FundedIn(token) THEN P[j] ELSE NONE]
  BY DepositsByToken
<1>3. \A j \in DOMAIN escrowBalances : j \in FundedIn(token) <=> j \in S
  BY DEF AllPinned, FundedIn
<1> HIDE DEF D, P
<1>4. D \in [JobIds -> Row \cup {NONE}]
  BY <1>1, <1>2
<1>5. {j \in JobIds : D[j] # NONE} = S
  BY <1>1, <1>2, <1>3
<1>6. \A j \in S : D[j].amount = escrowBalances[j]
  BY <1>1, <1>2, <1>3
<1>7. Restrict(escrowBalances, S) = Amounts(D)
  <2> HIDE DEF S
  <2> QED
    BY <1>5, <1>6 DEF Restrict, Amounts
<1>8. \A b : Lifecycle!Owed(b) = Pooled!Owed(b)
  BY DEF Lifecycle!Owed, Pooled!Owed, Lifecycle!MapGetOr, Pooled!MapGetOr
<1>9. /\ DepositsIn(token) \in [JobIds -> Row \cup {NONE}]
      /\ EscrowIn(token, escrowBalances, jobPaymentTokens) =
             Pooled!Owed(Amounts(DepositsIn(token)))
  BY <1>4, <1>7, <1>8 DEF EscrowIn, D
<1> QED
  BY <1>9

\* A change of one deposit changes what is owed by as much.
LEMMA AmountsOwed ==
    ASSUME NEW d \in [JobIds -> Row \cup {NONE}], NEW e \in [JobIds -> Row \cup {NONE}],
           NEW j \in JobIds, \A k \in JobIds : k # j => e[k] = d[k]
    PROVE  /\ Pooled!Owed(Amounts(d)) \in Int /\ Pooled!Owed(Amounts(e)) \in Int
           /\ Pooled!Owed(Amounts(e)) - Pooled!Owed(Amounts(d)) = Amount(e[j]) - Amount(d[j])
<1>1. ASSUME NEW r \in [JobIds -> Row \cup {NONE}], NEW n
      PROVE  Pooled!At(Amounts(r), n) = IF n \in JobIds THEN Amount(r[n]) ELSE 0
  BY <1>1 DEF Pooled!At, Pooled!MapGetOr, Amounts, Amount
<1>2. ASSUME NEW row \in Row \cup {NONE} PROVE Amount(row) \in Int
  BY <1>2 DEF Amount, Row
<1>3. /\ \A n \in Nat : Pooled!At(Amounts(d), n) \in Int
      /\ \A n \in Nat : Pooled!At(Amounts(e), n) \in Int
      /\ \A n \in Nat : n # j => Pooled!At(Amounts(e), n) = Pooled!At(Amounts(d), n)
  BY <1>1, <1>2
<1>4. /\ Pooled!Owed(Amounts(d)) \in Int /\ Pooled!Owed(Amounts(e)) \in Int
      /\ Pooled!Owed(Amounts(e)) - Pooled!Owed(Amounts(d)) =
             Pooled!At(Amounts(e), j) - Pooled!At(Amounts(d), j)
  BY <1>3, Pooled!OwedUpdate, PoolAssumptions, SameNames
<1>5. Pooled!At(Amounts(e), j) = Amount(e[j]) /\ Pooled!At(Amounts(d), j) = Amount(d[j])
  BY <1>1
<1> QED
  BY <1>4, <1>5

\* What each step of the promise does to the vault and to what it owes.
LEMMA PromiseKeepsBacked ==
    ASSUME NEW token \in Tokens, TokenStep(token),
           balances[token] \in Ledger, balances'[token] \in Ledger,
           DepositsIn(token) \in [JobIds -> Row \cup {NONE}],
           DepositsIn(token)' \in [JobIds -> Row \cup {NONE}],
           balances[token][Escrow] >= Pooled!Owed(Amounts(DepositsIn(token)))
    PROVE  balances'[token][Escrow] >= Pooled!Owed(Amounts(DepositsIn(token)'))
<1> PICK d \in [JobIds -> Row \cup {NONE}], e \in [JobIds -> Row \cup {NONE}],
         ledger \in Ledger, after \in Ledger :
         /\ d = DepositsIn(token) /\ e = DepositsIn(token)'
         /\ ledger = balances[token] /\ after = balances'[token]
  OBVIOUS
<1> DEFINE owed == Pooled!Owed(Amounts(d))
           left == Pooled!Owed(Amounts(e))
<1>0. /\ ledger[Escrow] >= owed /\ Escrow \in Principals
      /\ ledger[Escrow] \in Nat /\ after[Escrow] \in Nat
      /\ ledger \in [Principals -> Int]
      /\ NONE \notin Row
  BY PrincipalsAreKnown, SbtcNoneAssumption DEF Ledger, Row
<1>1. ASSUME NEW j \in JobIds, \A k \in JobIds : k # j => e[k] = d[k],
             after[Escrow] - ledger[Escrow] >= Amount(e[j]) - Amount(d[j])
      PROVE  after[Escrow] >= left
  <2>1. owed \in Int /\ left \in Int /\ left - owed = Amount(e[j]) - Amount(d[j])
    BY <1>1, AmountsOwed
  <2>2. after[Escrow] - ledger[Escrow] >= left - owed
    BY <1>1, <2>1
  <2> HIDE DEF owed, left
  <2> QED
    BY <1>0, <2>1, <2>2
<1>2. ASSUME e = d, after[Escrow] >= ledger[Escrow] PROVE after[Escrow] >= left
  <2>1. CASE JobIds = {}
    <3>1. \A n : Pooled!At(Amounts(d), n) = 0
      BY <2>1 DEF Pooled!At, Pooled!MapGetOr, Amounts
    <3>2. owed = 0 /\ left = 0
      BY <1>2, <3>1, Pooled!OwedNothing, PoolAssumptions
    <3> QED
      BY <1>0, <3>2
  <2>2. ASSUME NEW j \in JobIds PROVE after[Escrow] >= left
    <3>1. Amount(e[j]) \in Int /\ Amount(d[j]) = Amount(e[j])
      BY <1>2 DEF Amount, Row
    <3>2. after[Escrow] - ledger[Escrow] >= Amount(e[j]) - Amount(d[j])
      BY <1>0, <1>2, <3>1
    <3> QED
      BY <1>1, <1>2, <3>2
  <2> QED
    BY <2>1, <2>2
<1>3. CASE TokenStutters(token)
  BY <1>0, <1>2, <1>3 DEF TokenStutters
<1>4. ASSUME NEW j \in JobIds, NEW payer \in Promise(token)!Others,
             Promise(token)!Deposit(j, payer)
      PROVE  after[Escrow] >= left
  <2>1. /\ d[j] = NONE
        /\ \E amount \in 1..ledger[payer] :
             /\ after = Promise(token)!Pay(ledger, amount, payer, Escrow)
             /\ e = [d EXCEPT ![j] = [payer |-> payer, amount |-> amount, worker |-> NONE]]
    BY <1>4 DEF Promise!Deposit, DepositsIn
  <2> PICK amount \in 1..ledger[payer] :
             /\ after = Promise(token)!Pay(ledger, amount, payer, Escrow)
             /\ e = [d EXCEPT ![j] = [payer |-> payer, amount |-> amount, worker |-> NONE]]
    BY <2>1
  <2>2. payer \in Principals \ {Escrow} /\ amount \in Int
    BY DEF Promise!Others
  <2>3. after[Escrow] = ledger[Escrow] + amount
    BY <1>0, <2>2 DEF Promise!Pay
  <2>4. e[j] # NONE /\ e[j].amount = amount /\ \A k \in JobIds : k # j => e[k] = d[k]
    <3>1. e[j] = [payer |-> payer, amount |-> amount, worker |-> NONE]
      OBVIOUS
    <3>2. amount \in Nat
      BY <2>2
    <3> QED
      BY <1>0, <2>2, <3>1, <3>2 DEF Row
  <2>5. Amount(e[j]) = amount /\ Amount(d[j]) = 0
    BY <2>1, <2>4 DEF Amount
  <2>6. after[Escrow] - ledger[Escrow] >= Amount(e[j]) - Amount(d[j])
    BY <1>0, <2>2, <2>3, <2>5
  <2> QED
    BY <1>1, <2>4, <2>6
<1>5. ASSUME NEW j \in JobIds, NEW to \in Promise(token)!Others,
             NEW collector \in Promise(token)!Others,
             Promise(token)!Release(j, to, collector)
      PROVE  after[Escrow] >= left
  <2>1. /\ d[j] # NONE /\ e = [d EXCEPT ![j] = NONE]
        /\ \E fee \in {0, Promise(token)!Fee(d[j].amount)} :
               after = Promise(token)!Pay(Promise(token)!Pay(ledger, d[j].amount - fee,
                           Escrow, to), fee, Escrow, collector)
    BY <1>5 DEF Promise!Release, DepositsIn
  <2> DEFINE amount == d[j].amount
  <2>2. d[j] \in Row /\ amount \in Nat
    BY <2>1 DEF Row
  <2> PICK fee \in {0, Promise(token)!Fee(amount)} :
               after = Promise(token)!Pay(Promise(token)!Pay(ledger, amount - fee,
                           Escrow, to), fee, Escrow, collector)
    BY <2>1
  <2>3. fee \in Int /\ to \in Principals \ {Escrow} /\ collector \in Principals \ {Escrow}
    BY <2>2 DEF Promise!Fee, Promise!SERVICE_FEE_DIVISOR, Promise!Others
  <2>4. after[Escrow] = (ledger[Escrow] - (amount - fee)) - fee
    <3> PICK paid, net : paid = amount - fee /\ net = Promise(token)!Pay(ledger, paid, Escrow, to)
      OBVIOUS
    <3>1. paid \in Int /\ after = Promise(token)!Pay(net, fee, Escrow, collector)
      BY <2>2, <2>3
    <3> HIDE DEF amount
    <3>2. net \in [Principals -> Int] /\ net[Escrow] = ledger[Escrow] - paid
      BY <1>0, <2>3, <3>1 DEF Promise!Pay
    <3>3. after[Escrow] = net[Escrow] - fee
      BY <1>0, <2>3, <3>1, <3>2 DEF Promise!Pay
    <3> QED
      BY <3>2, <3>3
  <2>5. Amount(e[j]) = 0 /\ Amount(d[j]) = amount /\ \A k \in JobIds : k # j => e[k] = d[k]
    BY <2>1 DEF Amount
  <2> HIDE DEF amount
  <2>6. after[Escrow] - ledger[Escrow] >= Amount(e[j]) - Amount(d[j])
    BY <1>0, <2>2, <2>3, <2>4, <2>5
  <2> QED
    BY <1>1, <2>5, <2>6
<1>6. ASSUME NEW from \in Promise(token)!Others, NEW to \in Principals,
             Promise(token)!Elsewhere(from, to)
      PROVE  after[Escrow] >= left
  <2>1. e = d /\ \E amount \in 1..ledger[from] : after = Promise(token)!Pay(ledger, amount, from, to)
    BY <1>6 DEF Promise!Elsewhere, DepositsIn
  <2> PICK amount \in 1..ledger[from] : after = Promise(token)!Pay(ledger, amount, from, to)
    BY <2>1
  <2>2. after[Escrow] >= ledger[Escrow]
    BY <1>0 DEF Promise!Pay, Promise!Others
  <2> QED
    BY <1>2, <2>1, <2>2
<1>7. ASSUME NEW j \in JobIds, NEW worker \in Promise(token)!Others,
             Promise(token)!Engage(j, worker)
      PROVE  after[Escrow] >= left
  <2>1. d[j] # NONE /\ e = [d EXCEPT ![j].worker = worker] /\ after = ledger
    BY <1>7 DEF Promise!Engage, DepositsIn
  <2>2. d[j] \in Row /\ e[j] = [d[j] EXCEPT !.worker = worker]
        /\ \A k \in JobIds : k # j => e[k] = d[k]
    BY <2>1
  <2>3. e[j] # NONE /\ e[j].amount = d[j].amount /\ d[j].amount \in Nat
    <3>1. e[j].amount = d[j].amount /\ d[j].amount \in Nat
      BY <2>2 DEF Row
    <3>2. e[j] \in Row
      BY <2>2 DEF Row, Promise!Others
    <3> QED
      BY <1>0, <3>1, <3>2
  <2>4. Amount(e[j]) = Amount(d[j]) /\ Amount(d[j]) \in Int
    BY <2>1, <2>3 DEF Amount
  <2>5. after[Escrow] - ledger[Escrow] >= Amount(e[j]) - Amount(d[j])
    BY <1>0, <2>1, <2>4
  <2> QED
    BY <1>1, <2>2, <2>5
<1>8. ASSUME NEW j \in JobIds, Promise(token)!Abandon(j) PROVE after[Escrow] >= left
  <2>1. e = d /\ after = ledger
    BY <1>8 DEF Promise!Abandon, DepositsIn
  <2> QED
    BY <1>0, <1>2, <2>1
<1>9. after[Escrow] >= left
  BY <1>3, <1>4, <1>5, <1>6, <1>7, <1>8 DEF TokenStep, Promise!Next, Promise!MoneyMoves
<1> QED
  BY <1>9

\* Only funding a job adds a row of escrow-balances, and it pins the token.
LEMMA QuietRows ==
    ASSUME PoolInv, Pooled!PromiseInv, PoolInv', Pooled!PromiseInv',
           Pooled!PromiseStep, UNCHANGED balances
    PROVE  DOMAIN escrowBalances' = DOMAIN escrowBalances
<1>1. /\ DOMAIN escrowBalances = {j \in JobIds : Pooled!Deposits[j] # NONE}
      /\ \A j \in DOMAIN escrowBalances : Pooled!Deposits[j] \in Row
  BY HeldRows
<1>2. DOMAIN escrowBalances' = {j \in JobIds : Pooled!Deposits'[j] # NONE}
  <2>1. (PoolInv /\ Pooled!PromiseInv =>
             DOMAIN escrowBalances = {j \in JobIds : Pooled!Deposits[j] # NONE})'
    BY HeldRows, PTL
  <2> QED
    BY <2>1 DEF JobIds, Lifecycle!JobIds
<1> PICK d, e : d = Pooled!Deposits /\ e = Pooled!Deposits'
  OBVIOUS
<1>3. d = [j \in JobIds |-> d[j]] /\ NONE \notin Row
  BY SameDeposits, SbtcNoneAssumption DEF Row
<1>4. ASSUME NEW j \in JobIds, NEW worker \in Principals,
             d[j] # NONE, e = [d EXCEPT ![j].worker = worker]
      PROVE  \A k \in JobIds : e[k] # NONE <=> d[k] # NONE
  <2>1. e[j] = [d[j] EXCEPT !.worker = worker] /\ \A k \in JobIds : k # j => e[k] = d[k]
    BY <1>3, <1>4
  <2>2. d[j] \in Row
    BY <1>1, <1>4
  <2>3. e[j] \in Row
    BY <2>1, <2>2 DEF Row
  <2> QED
    BY <1>3, <1>4, <2>1, <2>3
<1>5. \A k \in JobIds : e[k] # NONE <=> d[k] # NONE
  BY <1>4, QuietPool
<1> QED
  BY <1>1, <1>2, <1>5

LEMMA PinsNext ==
    ASSUME PoolInv, Pooled!PromiseInv, PoolInv', Pooled!PromiseInv', [Next]_vars, AllPinned
    PROVE  AllPinned'
<1>1. Pooled!PromiseStep
  BY NextIsPromised
<1>2. ASSUME UNCHANGED <<balances, jobPaymentTokens>> PROVE AllPinned'
  BY <1>1, <1>2, QuietRows DEF AllPinned
<1>3. ASSUME DOMAIN escrowBalances' \subseteq DOMAIN escrowBalances,
             UNCHANGED jobPaymentTokens
      PROVE  AllPinned'
  BY <1>3 DEF AllPinned
<1>4. ASSUME NEW sender \in Users, NEW j \in JobIds, NEW token \in Tokens,
             FundJob(sender, j, token)
      PROVE  AllPinned'
  <2>1. Pooled!FundJob(sender, j)
    BY <1>4, FundJobPooled
  <2> QED
    BY <1>4, <2>1 DEF FundJob, Pooled!FundJob, Pooled!MapSet, MapSet, AllPinned
<1>5. ASSUME NEW j, escrowBalances' = Pooled!EscrowWithout(j), UNCHANGED jobPaymentTokens
      PROVE  AllPinned'
  BY <1>3, <1>5 DEF Pooled!EscrowWithout, Pooled!MapDelete, Pooled!Restrict
<1>6. ASSUME NEW sender \in Users, Hiring(sender) PROVE AllPinned'
  BY <1>2, <1>4, <1>6
  DEF Hiring, CreateJob, SetBudget, AssignProvider, SubmitWork, tokenVars
<1>7. ASSUME NEW sender \in Users, Judging(sender) PROVE AllPinned'
  <2>1. ASSUME NEW j \in JobIds, NEW h \in Hashes, NEW d \in 0..3, NEW token \in Tokens,
               ResolveAppeal(sender, j, d, h, token)
        PROVE  AllPinned'
    <3>1. Pooled!ResolveAppeal(sender, j, d, h) /\ UNCHANGED jobPaymentTokens
      BY <2>1, SettlementsPooled DEF ResolveAppeal, SettleServicePayment
    <3> QED
      BY <1>5, <3>1 DEF Pooled!ResolveAppeal, Pooled!Settle
  <2> QED
    BY <1>2, <1>7, <2>1
    DEF Judging, RecordDecision, AppealDecision, WaiveServiceFee, tokenVars
<1>8. ASSUME NEW sender \in Users, NEW j \in JobIds, NEW token \in Tokens,
             Permissionless(sender, j, token)
      PROVE  AllPinned'
  <2>1. CASE FinalizeDecision(sender, j, token)
    <3>1. Pooled!FinalizeDecision(sender, j) /\ UNCHANGED jobPaymentTokens
      BY <2>1, SettlementsPooled DEF FinalizeDecision, SettleServicePayment
    <3> QED
      BY <1>5, <3>1 DEF Pooled!FinalizeDecision, Pooled!Settle
  <2>2. CASE SettleAppealTimeout(sender, j, token)
    <3>1. Pooled!SettleAppealTimeout(sender, j) /\ UNCHANGED jobPaymentTokens
      BY <2>2, SettlementsPooled DEF SettleAppealTimeout, SettleServicePayment
    <3> QED
      BY <1>5, <3>1 DEF Pooled!SettleAppealTimeout, Pooled!Settle
  <2>3. CASE SettleReviewTimeout(sender, j, token)
    BY <1>5, <2>3, SettleReviewTimeoutPooled
    DEF SettleReviewTimeout, Pooled!SettleReviewTimeout
  <2>4. CASE ExpireJob(sender, j, token)
    <3>1. CASE MapGetOr(escrowBalances, j, 0) > 0
      BY <1>5, <2>4, <3>1, ExpireJobPooled
      DEF ExpireJob, Pooled!ExpireJob, MapGetOr, Pooled!MapGetOr
    <3>2. CASE ~ (MapGetOr(escrowBalances, j, 0) > 0)
      BY <1>2, <2>4, <3>2 DEF ExpireJob, tokenVars
    <3> QED
      BY <3>1, <3>2
  <2> QED
    BY <1>8, <2>1, <2>2, <2>3, <2>4 DEF Permissionless
<1>9. ASSUME NEW sender \in Users, Aftermath(sender) PROVE AllPinned'
  <2>1. ASSUME NEW j \in JobIds, NEW token \in Tokens, RefundServiceFee(sender, j, token)
        PROVE  AllPinned'
    BY <1>3, <2>1 DEF RefundServiceFee, In!RefundServiceFee
  <2> QED
    BY <1>2, <1>9, <2>1 DEF Aftermath, RetryReputationSync, RateProvider, tokenVars
<1>10. CASE World
  <2>1. ASSUME NEW sender \in Users, NEW to \in Principals, NEW amount \in ExternalAmounts,
               NEW token \in Tokens, ExternalTransfer(sender, to, amount, token)
        PROVE  AllPinned'
    BY <1>3, <2>1 DEF ExternalTransfer, lifecycleVars
  <2> QED
    BY <1>2, <1>10, <2>1 DEF World, AdvanceBlocks, TokenPolicy, RegistryStep, tokenVars
<1>11. CASE UNCHANGED vars
  BY <1>2, <1>11 DEF vars, tokenVars
<1> QED
  BY <1>2, <1>6, <1>7, <1>8, <1>9, <1>10, <1>11
  DEF Next, Governance, SetPaymentToken, tokenVars

LEMMA BackedNext ==
    ASSUME PoolInv, Pooled!PromiseInv, PoolInv', Pooled!PromiseInv', [Next]_vars,
           TokensBacked
    PROVE  TokensBacked'
<1>1. AllPinned /\ AllPinned'
  BY PinsNext DEF AllPinned, TokensBacked
<1>2. ASSUME NEW token \in Tokens
      PROVE  balances'[token][Escrow] >=
                 EscrowIn(token, escrowBalances', jobPaymentTokens')
  <2>1. /\ DepositsIn(token) \in [JobIds -> Row \cup {NONE}]
        /\ EscrowIn(token, escrowBalances, jobPaymentTokens) =
               Pooled!Owed(Amounts(DepositsIn(token)))
    BY <1>1, RowsAreDeposits DEF RowsRecorded
  <2>2. /\ DepositsIn(token)' \in [JobIds -> Row \cup {NONE}]
        /\ EscrowIn(token, escrowBalances', jobPaymentTokens') =
               Pooled!Owed(Amounts(DepositsIn(token)'))
    <3>1. (PoolInv /\ Pooled!PromiseInv /\ AllPinned => RowsRecorded)'
      BY RowsAreDeposits, PTL
    <3>2. /\ DepositsIn(token)' \in [JobIds -> Row \cup {NONE}]'
          /\ EscrowIn(token, escrowBalances, jobPaymentTokens)' =
                 Pooled!Owed(Amounts(DepositsIn(token)))'
      BY <1>1, <3>1 DEF RowsRecorded
    <3> QED
      BY <3>2 DEF EscrowIn, Row, JobIds, Lifecycle!JobIds, Amounts, Lifecycle!Owed, Pooled!Owed
  <2>3. balances[token] \in Ledger /\ balances'[token] \in Ledger
    BY DEF PoolInv, Ledgers
  <2>4. TokenStep(token)
    BY NextTokenStep
  <2>5. balances[token][Escrow] >= Pooled!Owed(Amounts(DepositsIn(token)))
    BY <2>1 DEF TokensBacked
  <2> QED
    BY <2>1, <2>2, <2>3, <2>4, <2>5, PromiseKeepsBacked
<1> QED
  BY <1>1, <1>2 DEF TokensBacked, AllPinned

\* Every held job has a token and the contract's balance of each token covers
\* the jobs funded in it: no job is ever paid out of another's token.
THEOREM TokensStayBacked == Spec => []TokensBacked
<1>1. Init => TokensBacked
  <2> SUFFICES ASSUME Init PROVE TokensBacked
    OBVIOUS
  <2>1. DOMAIN escrowBalances = {} /\ balances = InitialBalances
    BY DEF Init, Lifecycle!Init, Lifecycle!EmptyMap
  <2>2. ASSUME NEW token \in Tokens
        PROVE  EscrowIn(token, escrowBalances, jobPaymentTokens) = 0
    <3> DEFINE rows == Restrict(escrowBalances, {j \in DOMAIN escrowBalances :
                                                     jobPaymentTokens[j] = token})
    <3>1. \A n \in Nat : Pooled!At(rows, n) = 0
      BY <2>1 DEF Pooled!At, Pooled!MapGetOr, Restrict
    <3>2. Pooled!Owed(rows) = 0
      BY <3>1, Pooled!OwedNothing, PoolAssumptions
    <3>3. Lifecycle!Owed(rows) = Pooled!Owed(rows)
      BY DEF Lifecycle!Owed, Pooled!Owed, Lifecycle!MapGetOr, Pooled!MapGetOr
    <3> QED
      BY <3>2, <3>3 DEF EscrowIn
  <2> QED
    BY <2>1, <2>2, BalancesAssumption DEF TokensBacked
<1>2. PoolInv /\ Pooled!PromiseInv /\ PoolInv' /\ Pooled!PromiseInv' /\ TokensBacked
      /\ [Next]_vars => TokensBacked'
  <2> SUFFICES ASSUME PoolInv, Pooled!PromiseInv, PoolInv', Pooled!PromiseInv',
                      TokensBacked, [Next]_vars
               PROVE  TokensBacked'
    OBVIOUS
  <2> QED
    BY BackedNext
<1> QED
  BY <1>1, <1>2, PoolInvHolds, PoolPromiseInv, PTL DEF Spec

-----------------------------------------------------------------------------
(* What the STX escrow guarantees, the token escrow guarantees *)

\* Governance, the parties of every job, every decision, fee and report, and
\* what no later step takes back: proved of agentic-commerce-v6, they hold of
\* the token escrow, for it is that escrow with another cash box.
THEOREM LifecycleIsShared ==
    Spec => /\ []Pooled!RolesSeparated
            /\ []Pooled!EscrowMatchesStatus
            /\ []Pooled!DueProcess
            /\ []Pooled!FeeStateReadable
            /\ []Pooled!ReputationFollowsOutcome
            /\ Pooled!CommitmentsAreKept
<1>1. Pooled!Spec => []Pooled!RolesSeparated
  BY Pooled!RolesStaySeparated, PoolAssumptions
<1>2. Pooled!Spec => []Pooled!EscrowMatchesStatus
  BY Pooled!EscrowAlwaysMatchesStatus, PoolAssumptions
<1>3. Pooled!Spec => []Pooled!DueProcess
  BY Pooled!ProcessIsDue, PoolAssumptions
<1>4. Pooled!Spec => []Pooled!FeeStateReadable
  BY Pooled!FeeStateStaysReadable, PoolAssumptions
<1>5. Pooled!Spec => []Pooled!ReputationFollowsOutcome
  BY Pooled!ReputationStaysInStep, PoolAssumptions
<1>6. Pooled!Spec => Pooled!CommitmentsAreKept
  BY Pooled!CommitmentsStayKept, PoolAssumptions
<1> QED
  BY <1>1, <1>2, <1>3, <1>4, <1>5, <1>6, TokensArePooled, PTL

-----------------------------------------------------------------------------
(* Types *)

PinsTypeOK ==
    /\ paymentToken \in Principals
    /\ IsMap(jobPaymentTokens, 1..jobCounter, Tokens)
    /\ refused \subseteq Tokens \X Principals

\* What a call does to the default, the pins and the refusals.
LEMMA PinsTypeNext ==
    ASSUME PoolInv, PinsTypeOK, [Next]_vars
    PROVE  PinsTypeOK'
<1>1. jobCounter \in Nat /\ jobCounter' >= jobCounter /\ jobCounter' \in Int
  <2>1. Pooled!TypeOK' /\ [Pooled!Next]_(Pooled!vars)
    BY NextPooled, Pooled!NextTypeOK, PoolAssumptions DEF PoolInv
  <2>2. jobCounter \in Nat /\ jobCounter' >= jobCounter
    BY <2>1, Pooled!CounterGrows, PoolAssumptions DEF PoolInv
  <2> QED
    BY <2>1, <2>2 DEF Pooled!TypeOK, Pooled!JobsTypeOK
<1>2. 1..jobCounter \subseteq 1..jobCounter'
  BY <1>1
<1>3. ASSUME UNCHANGED jobPaymentTokens
      PROVE  IsMap(jobPaymentTokens', 1..jobCounter', Tokens)
  BY <1>2, <1>3 DEF PinsTypeOK, IsMap
<1>4. ASSUME UNCHANGED <<paymentToken, jobPaymentTokens, refused>> PROVE PinsTypeOK'
  BY <1>3, <1>4 DEF PinsTypeOK, IsMap
<1>5. ASSUME NEW sender \in Users, NEW j \in JobIds, NEW token \in Tokens,
             FundJob(sender, j, token)
      PROVE  PinsTypeOK'
  <2>1. /\ j \in DOMAIN jobs /\ jobPaymentTokens' = MapSet(jobPaymentTokens, j, token)
        /\ UNCHANGED <<paymentToken, refused>>
    BY <1>5 DEF FundJob, Moves
  <2>2. j \in 1..jobCounter
    BY <2>1 DEF PoolInv, Pooled!TypeOK, Pooled!JobsTypeOK
  <2>3. IsMap(jobPaymentTokens', 1..jobCounter', Tokens)
    BY <1>2, <2>1, <2>2 DEF PinsTypeOK, IsMap, MapSet
  <2> QED
    BY <2>1, <2>3 DEF PinsTypeOK
<1>6. ASSUME NEW sender \in Users, Hiring(sender) PROVE PinsTypeOK'
  BY <1>4, <1>5, <1>6
  DEF Hiring, CreateJob, SetBudget, AssignProvider, SubmitWork, tokenVars
<1>7. ASSUME NEW sender \in Users, Judging(sender) PROVE PinsTypeOK'
  BY <1>4, <1>7
  DEF Judging, RecordDecision, AppealDecision, WaiveServiceFee, ResolveAppeal,
      SettleServicePayment, Moves, tokenVars
<1>8. ASSUME NEW sender \in Users, NEW j \in JobIds, NEW token \in Tokens,
             Permissionless(sender, j, token)
      PROVE  PinsTypeOK'
  BY <1>4, <1>8
  DEF Permissionless, FinalizeDecision, SettleAppealTimeout, SettleReviewTimeout,
      ExpireJob, SettleServicePayment, Moves, tokenVars
<1>9. ASSUME NEW sender \in Users, Aftermath(sender) PROVE PinsTypeOK'
  BY <1>4, <1>9
  DEF Aftermath, RefundServiceFee, RetryReputationSync, RateProvider, Moves, tokenVars
<1>10. ASSUME NEW sender \in Users, NEW p \in Principals, SetPaymentToken(sender, p)
       PROVE  PinsTypeOK'
  BY <1>3, <1>10 DEF SetPaymentToken, PinsTypeOK
<1>11. CASE World
  <2>1. ASSUME NEW token \in Tokens, NEW p \in Principals, TokenPolicy(token, p)
        PROVE  PinsTypeOK'
    <3>1. UNCHANGED <<paymentToken, jobPaymentTokens>>
          /\ refused' \subseteq refused \cup {<<token, p>>}
      BY <2>1 DEF TokenPolicy
    <3> QED
      BY <1>3, <3>1 DEF PinsTypeOK
  <2> QED
    BY <1>4, <1>11, <2>1
    DEF World, AdvanceBlocks, ExternalTransfer, Moves, RegistryStep, tokenVars
<1>12. CASE UNCHANGED vars
  BY <1>4, <1>12 DEF vars, tokenVars
<1> QED
  BY <1>4, <1>6, <1>7, <1>8, <1>9, <1>10, <1>11, <1>12 DEF Next, Governance, tokenVars

\* The maps, counters and ledgers of the token escrow keep their types.
THEOREM TypesAreKept == Spec => []TypeOK
<1>1. Init => PinsTypeOK
  BY SbtcPrincipalsAssumption DEF Init, PinsTypeOK, EmptyMap, IsMap
<1>2. PoolInv /\ PinsTypeOK /\ [Next]_vars => PinsTypeOK'
  <2> SUFFICES ASSUME PoolInv, PinsTypeOK, [Next]_vars PROVE PinsTypeOK'
    OBVIOUS
  <2> QED
    BY PinsTypeNext
<1>3. PoolInv /\ PinsTypeOK => TypeOK
  <2> SUFFICES ASSUME PoolInv, NEW token \in Tokens PROVE In(token)!TypeOK
    BY DEF PinsTypeOK, TypeOK
  <2>1. balances[token] \in [Principals -> Nat]
    BY DEF PoolInv, Ledgers, Ledger
  <2>2. In(token)!Registry!TypeOK
    BY DEF PoolInv, Pooled!TypeOK, Pooled!Registry!TypeOK, In!Registry!TypeOK,
           Pooled!Registry!IsMap, In!Registry!IsMap, Pooled!Registry!Reputation,
           In!Registry!Reputation, Pooled!Registry!RatingKey, In!Registry!RatingKey,
           Pooled!Registry!OutcomeKey, In!Registry!OutcomeKey, Pooled!Registry!Outcome,
           In!Registry!Outcome, Pooled!JobIds, In!JobIds
  <2>3. In(token)!GovernanceTypeOK /\ In(token)!JobsTypeOK
    BY DEF PoolInv, Pooled!TypeOK, Pooled!GovernanceTypeOK, In!GovernanceTypeOK,
           Pooled!JobsTypeOK, In!JobsTypeOK, Pooled!Job, In!Job
  <2> QED
    BY <2>1, <2>2, <2>3
    DEF PoolInv, Pooled!TypeOK, In!TypeOK, Pooled!MapsTypeOK, In!MapsTypeOK,
        Pooled!ChainTypeOK, In!ChainTypeOK, Pooled!IsMap, In!IsMap, Pooled!Decision,
        In!Decision, Pooled!Settlement, In!Settlement, Pooled!Sync, In!Sync,
        Pooled!DECISION_APPROVE, In!DECISION_APPROVE, Pooled!DECISION_REJECT,
        In!DECISION_REJECT, Pooled!OUTCOME_COMPLETED, In!OUTCOME_COMPLETED,
        Pooled!OUTCOME_DISPUTED, In!OUTCOME_DISPUTED
<1> QED
  BY <1>1, <1>2, <1>3, PoolInvHolds, PTL DEF Spec
=============================================================================
